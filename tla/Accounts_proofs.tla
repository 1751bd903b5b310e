--------------------------- MODULE Accounts_proofs ---------------------------
(***************************************************************************)
(* Proofs about the members of an organization, the session of an account, *)
(* MCP keys and the pairing of chats, for any number of users, requests,   *)
(* tokens, devices, keys, codes, chats and messages.                       *)
(***************************************************************************)
EXTENDS Memberships, Sessions, McpKeys, ChatPairing, FiniteSetTheorems, SequenceTheorems, TLAPS

-----------------------------------------------------------------------------
(* Memberships.                                                            *)

\* A request in progress is about a user, and has a row once it found one.
AskedKnow ==
    \A m \in MemberCalls :
        /\ asked[m].pc # "idle" => asked[m].user \in Users
        /\ asked[m].pc = "count" => asked[m].op = "remove"
        /\ asked[m].pc \in {"count", "write"} /\ asked[m].op \in {"role", "remove"}
              => asked[m].link \in Links

\* While additions of one user do not overlap, one request at most is about to
\* insert a user, who is no member then.
AloneAdding ==
    "additions" \notin upset =>
        /\ \A m \in MemberCalls :
              asked[m].op = "add" /\ asked[m].pc = "write" => LiveLinks(asked[m].user) = {}
        /\ \A u \in Users : \A m, n \in Adding(u) : m = n

\* While nothing upset the administrators, one removal at most is past its look, and
\* the row it is about to delete is not that of the last of them.
AloneRemoving ==
    upset \subseteq {"additions"} =>
        /\ \A m, n \in Removing : m = n
        /\ \A m \in Removing : asked[m].pc = "write" => Admins \ {asked[m].link} # {}

MemberInv ==
    /\ MemberTypeOK
    /\ AskedKnow
    /\ AloneAdding
    /\ AloneRemoving
    /\ MembersSound

LEMMA NotAskedType == NotAsked \in Asked
BY DEF NotAsked, Asked, Roles

LEMMA MemberInitInv == MemberInit => MemberInv
<1> SUFFICES ASSUME MemberInit PROVE MemberInv
    OBVIOUS
<1>1. MemberTypeOK
    BY MemberAssumption, NotAskedType DEF MemberInit, MemberTypeOK, LinkRow, Roles
<1>2. AskedKnow /\ AloneAdding /\ AloneRemoving
    BY DEF MemberInit, NotAsked, AskedKnow, AloneAdding, AloneRemoving, Adding, Removing
<1>3. AdminRemains
  <2>1. FirstLink \in Admins
      BY MemberAssumption DEF MemberInit, Admins
  <2> QED BY <2>1 DEF AdminRemains
<1>4. OneMembership
    BY DEF MemberInit, OneMembership, LiveLinks
<1> QED BY <1>1, <1>2, <1>3, <1>4 DEF MemberInv, MembersSound

\* The requests that a step of m leaves alone.
LEMMA OthersAsk ==
    ASSUME MemberInv, NEW m \in MemberCalls, NEW q \in Asked,
           asked' = [asked EXCEPT ![m] = q]
    PROVE  /\ asked' \in [MemberCalls -> Asked]
           /\ asked'[m] = q
           /\ \A n \in MemberCalls : n # m => asked'[n] = asked[n]
BY DEF MemberInv, MemberTypeOK

LEMMA AskKeeps ==
    ASSUME MemberInv, NEW m \in MemberCalls, Ask(m)
    PROVE  MemberInv'
<1>1. PICK u \in Users, op \in {"add", "role", "remove"}, r \in Roles :
         /\ asked' = [asked EXCEPT ![m] = [op |-> op, pc |-> "look", user |-> u, role |-> r,
                                           link |-> NoLink]]
         /\ UNCHANGED <<link, accounts, upset>>
    BY DEF Ask
<1>2. [op |-> op, pc |-> "look", user |-> u, role |-> r, link |-> NoLink] \in Asked
    BY DEF Asked
<1>3. /\ asked' \in [MemberCalls -> Asked]
      /\ asked'[m].pc = "look" /\ asked'[m].user = u
      /\ \A n \in MemberCalls : n # m => asked'[n] = asked[n]
    BY <1>1, <1>2, OthersAsk
<1> USE DEF MemberInv
<1>4. MemberTypeOK' /\ AskedKnow'
    BY <1>1, <1>3 DEF MemberTypeOK, AskedKnow
<1>5. AloneAdding'
    BY <1>1, <1>3 DEF AloneAdding, Adding, LiveLinks
<1>6. AloneRemoving'
    BY <1>1, <1>3 DEF AloneRemoving, Removing, Admins
<1>7. MembersSound'
    BY <1>1 DEF MembersSound, AdminRemains, OneMembership, Admins, LiveLinks
<1> QED BY <1>4, <1>5, <1>6, <1>7

LEMMA LookToAddKeeps ==
    ASSUME MemberInv, NEW m \in MemberCalls, LookToAdd(m)
    PROVE  MemberInv'
<1> DEFINE q == asked[m]
<1> USE DEF MemberInv
<1>1. /\ q \in Asked /\ q.op = "add" /\ q.pc = "look" /\ q.user \in Users
      /\ link' = link /\ accounts' = accounts
      /\ upset' = upset \cup {k \in {"additions"} : Adding(q.user) # {}}
    BY DEF LookToAdd, MemberTypeOK, AskedKnow
<1>2. PICK p \in {NotAsked, [q EXCEPT !.pc = "write"]} :
         /\ asked' = [asked EXCEPT ![m] = p]
         /\ p # NotAsked => LiveLinks(q.user) = {}
    BY <1>1 DEF LookToAdd, Refused
<1>3. p \in Asked /\ (p.pc = "idle" \/ (p.pc = "write" /\ p.op = "add" /\ p.user = q.user))
      /\ (p.pc = "write" => LiveLinks(q.user) = {})
    BY <1>1, <1>2, NotAskedType DEF Asked, NotAsked
<1>4. /\ asked' \in [MemberCalls -> Asked] /\ asked'[m] = p
      /\ \A n \in MemberCalls : n # m => asked'[n] = asked[n]
    BY <1>2, <1>3, OthersAsk
<1>5. MemberTypeOK' /\ AskedKnow'
    BY <1>1, <1>3, <1>4 DEF MemberTypeOK, AskedKnow, Upsets
<1>6. AloneAdding'
  <2> SUFFICES ASSUME "additions" \notin upset'
               PROVE  AloneAdding'
      BY DEF AloneAdding
  <2>1. "additions" \notin upset /\ Adding(q.user) = {}
      BY <1>1
  <2>2. \A u \in Users : LiveLinks(u)' = LiveLinks(u)
      BY <1>1 DEF LiveLinks
  <2>3. \A n \in MemberCalls : asked'[n].op = "add" /\ asked'[n].pc = "write"
           => LiveLinks(asked'[n].user) = {}
      BY <1>3, <1>4, <2>1 DEF AloneAdding
  <2>4. ASSUME NEW u \in Users, NEW k \in Adding(u)', NEW n \in Adding(u)'
        PROVE  k = n
      BY <1>1, <1>3, <1>4, <2>1, <2>4 DEF AloneAdding, Adding
  <2>5. \A n \in MemberCalls : asked'[n].op = "add" /\ asked'[n].pc = "write"
           => LiveLinks(asked[n].user)' = {}
      BY <1>1, <2>3 DEF LiveLinks
  <2> QED BY <2>4, <2>5 DEF AloneAdding
<1>7. AloneRemoving'
    BY <1>1, <1>3, <1>4 DEF AloneRemoving, Removing, Admins
<1>8. MembersSound'
    BY <1>1 DEF MembersSound, AdminRemains, OneMembership, Admins, LiveLinks
<1> QED BY <1>5, <1>6, <1>7, <1>8

LEMMA LookForLinkKeeps ==
    ASSUME MemberInv, NEW m \in MemberCalls, LookForLink(m)
    PROVE  MemberInv'
<1> DEFINE q == asked[m]
<1> USE DEF MemberInv
<1>1. /\ q \in Asked /\ q.op \in {"role", "remove"} /\ q.pc = "look" /\ q.user \in Users
      /\ link' = link /\ accounts' = accounts
      /\ upset' = upset \cup {k \in {"removals"} : q.op = "remove" /\ Removing # {}}
    BY DEF LookForLink, MemberTypeOK, AskedKnow
<1>2. PICK p \in Asked :
         /\ asked' = [asked EXCEPT ![m] = p]
         /\ \/ p = NotAsked
            \/ /\ p.op = q.op /\ p.user = q.user /\ p.link \in Links
               /\ \/ p.pc = "count" /\ p.op = "remove"
                  \/ p.pc = "write" /\ (p.op = "remove" => p.link \notin Admins)
  <2>1. CASE Refused(m)
      BY <2>1, NotAskedType DEF Refused
  <2>2. ASSUME NEW l \in LiveLinks(q.user),
               asked' = [asked EXCEPT ![m].link = l,
                           ![m].pc = IF q.op = "remove" /\ l \in Admins THEN "count"
                                     ELSE "write"]
        PROVE  \E p \in Asked :
                  /\ asked' = [asked EXCEPT ![m] = p]
                  /\ p.op = q.op /\ p.user = q.user /\ p.link \in Links
                  /\ \/ p.pc = "count" /\ p.op = "remove"
                     \/ p.pc = "write" /\ (p.op = "remove" => p.link \notin Admins)
    <3> DEFINE c == IF q.op = "remove" /\ l \in Admins THEN "count" ELSE "write"
               p == [q EXCEPT !.link = l, !.pc = c]
    <3>1. l \in Links
        BY DEF LiveLinks
    <3>2. p \in Asked /\ p.op = q.op /\ p.user = q.user /\ p.link = l /\ p.pc = c
        BY <1>1, <3>1 DEF Asked
    <3>3. asked' = [asked EXCEPT ![m] = p]
        BY <2>2 DEF MemberTypeOK
    <3> QED BY <1>1, <3>1, <3>2, <3>3
  <2> QED BY <2>1, <2>2 DEF LookForLink
<1>3. /\ asked' \in [MemberCalls -> Asked] /\ asked'[m] = p
      /\ \A n \in MemberCalls : n # m => asked'[n] = asked[n]
    BY <1>2, OthersAsk
<1>4. NotAsked.pc = "idle"
    BY DEF NotAsked
<1>5. MemberTypeOK' /\ AskedKnow'
    BY <1>1, <1>2, <1>3, <1>4 DEF MemberTypeOK, AskedKnow, Upsets
<1>6. AloneAdding'
  <2>1. \A u \in Users : Adding(u)' \subseteq Adding(u)
      BY <1>1, <1>2, <1>3, <1>4 DEF Adding
  <2>2. \A n \in MemberCalls : asked'[n].op = "add" /\ asked'[n].pc = "write"
           => n # m /\ asked'[n] = asked[n]
      BY <1>1, <1>2, <1>3, <1>4
  <2> QED BY <1>1, <2>1, <2>2 DEF AloneAdding, LiveLinks
<1>7. AloneRemoving'
  <2> SUFFICES ASSUME upset' \subseteq {"additions"}
               PROVE  AloneRemoving'
      BY DEF AloneRemoving
  <2>1. upset \subseteq {"additions"} /\ (q.op = "remove" => Removing = {})
      BY <1>1
  <2>2. Admins' = Admins /\ Admins # {}
      BY <1>1, <2>1 DEF Admins, MembersSound, AdminRemains
  <2>3. \A n \in Removing' : n = m \/ n \in Removing
      BY <1>3 DEF Removing
  <2>4. m \in Removing' => q.op = "remove"
      BY <1>1, <1>2, <1>3, <1>4 DEF Removing
  <2>5. \A n, k \in Removing' : n = k
      BY <2>1, <2>3, <2>4 DEF AloneRemoving
  <2>6. ASSUME NEW n \in Removing', asked'[n].pc = "write"
        PROVE  Admins \ {asked'[n].link} # {}
    <3>1. CASE n = m
        BY <1>2, <1>3, <1>4, <2>2, <2>4, <2>6, <3>1
    <3>2. CASE n # m
      <4>1. n \in Removing /\ n \in MemberCalls
          BY <2>3, <3>2 DEF Removing
      <4>2. asked'[n] = asked[n]
          BY <1>3, <3>2, <4>1
      <4> QED BY <2>1, <2>6, <4>1, <4>2 DEF AloneRemoving
    <3> QED BY <3>1, <3>2
  <2> QED BY <2>2, <2>5, <2>6 DEF AloneRemoving
<1>8. MembersSound'
    BY <1>1 DEF MembersSound, AdminRemains, OneMembership, Admins, LiveLinks
<1> QED BY <1>5, <1>6, <1>7, <1>8

\* Two administrators are more than one: somebody remains beside the one that goes.
LEMMA MoreThanOne ==
    ASSUME IsFiniteSet(Links), ~TooFewAdmins(Cardinality(Admins)), NEW l
    PROVE  Admins \ {l} # {}
<1> SUFFICES ASSUME Admins \subseteq {l}
             PROVE  Cardinality(Admins) <= 1
    BY DEF TooFewAdmins
<1>1. IsFiniteSet({l}) /\ Cardinality({l}) = 1
    BY FS_Singleton
<1> QED BY <1>1, FS_Subset

LEMMA CountAdminsKeeps ==
    ASSUME MemberInv, NEW m \in MemberCalls, CountAdmins(m)
    PROVE  MemberInv'
<1> DEFINE q == asked[m]
<1> USE DEF MemberInv
<1>1. /\ q \in Asked /\ q.op = "remove" /\ q.pc = "count" /\ q.user \in Users
      /\ q.link \in Links
      /\ UNCHANGED <<link, accounts, upset>>
    BY DEF CountAdmins, MemberTypeOK, AskedKnow
<1>2. PICK p \in {NotAsked, [q EXCEPT !.pc = "write"]} :
         /\ asked' = [asked EXCEPT ![m] = p]
         /\ p # NotAsked => Admins \ {q.link} # {}
    BY <1>1, MoreThanOne, MemberAssumption DEF CountAdmins, Refused
<1>3. /\ p \in Asked
      /\ p.pc = "idle" \/ (p.pc = "write" /\ p.op = "remove" /\ p.user = q.user /\ p.link = q.link)
      /\ p.pc = "write" => Admins \ {q.link} # {}
    BY <1>1, <1>2, NotAskedType DEF Asked, NotAsked
<1>4. /\ asked' \in [MemberCalls -> Asked] /\ asked'[m] = p
      /\ \A n \in MemberCalls : n # m => asked'[n] = asked[n]
    BY <1>2, <1>3, OthersAsk
<1>5. MemberTypeOK' /\ AskedKnow'
    BY <1>1, <1>3, <1>4 DEF MemberTypeOK, AskedKnow
<1>6. AloneAdding'
    BY <1>1, <1>3, <1>4 DEF AloneAdding, Adding, LiveLinks
<1>7. AloneRemoving'
  <2>1. Removing' \subseteq Removing /\ Admins' = Admins
      BY <1>1, <1>3, <1>4 DEF Removing, Admins
  <2>2. ASSUME upset \subseteq {"additions"}, NEW n \in Removing', asked'[n].pc = "write"
        PROVE  Admins \ {asked'[n].link} # {}
    <3>1. n \in Removing /\ n \in MemberCalls
        BY <2>1 DEF Removing
    <3>2. CASE n = m
        BY <1>3, <1>4, <2>2, <3>2
    <3>3. CASE n # m
      <4>1. asked'[n] = asked[n]
          BY <1>4, <3>1, <3>3
      <4> QED BY <2>2, <3>1, <4>1 DEF AloneRemoving
    <3> QED BY <3>2, <3>3
  <2> QED BY <1>1, <2>1, <2>2 DEF AloneRemoving
<1>8. MembersSound'
    BY <1>1 DEF MembersSound, AdminRemains, OneMembership, Admins, LiveLinks
<1> QED BY <1>5, <1>6, <1>7, <1>8

\* After its write a request is idle; the others are as they were.
LEMMA WriteEnds ==
    ASSUME MemberInv, NEW m \in MemberCalls, Refused(m)
    PROVE  /\ asked' \in [MemberCalls -> Asked] /\ asked'[m].pc = "idle"
           /\ \A n \in MemberCalls : asked'[n].pc # "idle" => n # m /\ asked'[n] = asked[n]
BY OthersAsk, NotAskedType DEF Refused, NotAsked

LEMMA InsertKeeps ==
    ASSUME MemberInv, NEW m \in MemberCalls, WriteLink(m), asked[m].op = "add"
    PROVE  MemberInv'
<1> DEFINE q == asked[m]
<1> USE DEF MemberInv
<1>1. /\ q \in Asked /\ q.pc = "write" /\ q.user \in Users /\ q.role \in Roles
      /\ UNCHANGED <<accounts, upset>>
    BY DEF WriteLink, MemberTypeOK, AskedKnow, Asked
<1>2. PICK l \in Links :
         /\ link[l].state = "free"
         /\ link' = [link EXCEPT ![l] = [user |-> q.user, role |-> q.role, state |-> "live"]]
    BY <1>1 DEF WriteLink
<1>3. /\ asked' \in [MemberCalls -> Asked] /\ asked'[m].pc = "idle"
      /\ \A n \in MemberCalls : asked'[n].pc # "idle" => n # m /\ asked'[n] = asked[n]
    BY WriteEnds DEF WriteLink
<1>4. /\ \A u \in Users : LiveLinks(u)' = IF u = q.user THEN LiveLinks(u) \cup {l} ELSE LiveLinks(u)
      /\ Admins \subseteq Admins'
    BY <1>1, <1>2 DEF LiveLinks, Admins, MemberTypeOK
<1>5. MemberTypeOK' /\ AskedKnow'
    BY <1>1, <1>2, <1>3 DEF MemberTypeOK, AskedKnow, LinkRow
<1>6. AloneAdding' /\ OneMembership'
  <2> SUFFICES ASSUME "additions" \notin upset
               PROVE  AloneAdding' /\ OneMembership'
      BY <1>1 DEF AloneAdding, OneMembership
  <2>1. m \in Adding(q.user) /\ LiveLinks(q.user) = {}
      BY <1>1 DEF Adding, AloneAdding
  <2>2. \A u \in Users : Adding(u)' \subseteq Adding(u) /\ m \notin Adding(u)'
      BY <1>3 DEF Adding
  <2>3. ASSUME NEW n \in MemberCalls, asked'[n].op = "add", asked'[n].pc = "write"
        PROVE  LiveLinks(asked[n].user)' = {}
    <3>1. n # m /\ asked'[n] = asked[n] /\ asked[n].user \in Users /\ n \in Adding(asked[n].user)
        BY <1>3, <2>3 DEF Adding, AskedKnow
    <3>2. asked[n].user # q.user
        BY <2>1, <3>1, <1>1 DEF AloneAdding
    <3>3. LiveLinks(asked[n].user) = {}
        BY <3>1, <2>3 DEF AloneAdding
    <3> QED BY <1>4, <3>1, <3>2, <3>3 DEF LiveLinks
  <2>4. AloneAdding'
      BY <2>2, <2>3 DEF AloneAdding
  <2>5. \A u \in Users : \A j, k \in LiveLinks(u)' : j = k
      BY <1>4, <2>1 DEF MembersSound, OneMembership
  <2> QED BY <2>4, <2>5 DEF OneMembership
<1>7. AloneRemoving'
  <2>1. Removing' \subseteq Removing /\ \A n \in Removing' : asked'[n] = asked[n]
      BY <1>3 DEF Removing
  <2> QED BY <1>1, <1>4, <2>1 DEF AloneRemoving
<1>8. AdminRemains'
    BY <1>1, <1>4 DEF MembersSound, AdminRemains
<1> QED BY <1>5, <1>6, <1>7, <1>8 DEF MembersSound

\* A change of role upsets the administrators, or takes none away while no removal
\* is under way.
LEMMA ChangeRoleKeeps ==
    ASSUME MemberInv, NEW m \in MemberCalls, WriteLink(m), asked[m].op = "role"
    PROVE  MemberInv'
<1> DEFINE q == asked[m]
<1> USE DEF MemberInv
<1>1. /\ q \in Asked /\ q.pc = "write" /\ q.link \in Links /\ q.role \in Roles
      /\ link[q.link] \in LinkRow
      /\ link' = [link EXCEPT ![q.link] = [link[q.link] EXCEPT !.role = q.role]]
      /\ upset' = upset \cup {k \in {"demoted"} : link[q.link].role = "ADMIN" /\ q.role # "ADMIN"}
                        \cup {k \in {"removals"} : Removing # {}}
      /\ UNCHANGED accounts
    BY DEF WriteLink, MemberTypeOK, AskedKnow, Asked
<1>2. [link[q.link] EXCEPT !.role = q.role] \in LinkRow
      /\ [link[q.link] EXCEPT !.role = q.role].state = link[q.link].state
      /\ [link[q.link] EXCEPT !.role = q.role].user = link[q.link].user
      /\ [link[q.link] EXCEPT !.role = q.role].role = q.role
    BY <1>1 DEF LinkRow
<1>3. /\ asked' \in [MemberCalls -> Asked] /\ asked'[m].pc = "idle"
      /\ \A n \in MemberCalls : asked'[n].pc # "idle" => n # m /\ asked'[n] = asked[n]
    BY WriteEnds DEF WriteLink
<1>4. /\ link' \in [Links -> LinkRow]
      /\ \A l \in Links : /\ link'[l].state = link[l].state /\ link'[l].user = link[l].user
                          /\ link'[l].role = IF l = q.link THEN q.role ELSE link[l].role
    BY <1>1, <1>2 DEF MemberTypeOK
<1>5. \A u \in Users : LiveLinks(u)' = LiveLinks(u)
    BY <1>4 DEF LiveLinks
<1>6. MemberTypeOK' /\ AskedKnow'
    BY <1>1, <1>3, <1>4 DEF MemberTypeOK, AskedKnow, Upsets
<1>7. AloneAdding' /\ OneMembership'
  <2>1. \A u \in Users : Adding(u)' \subseteq Adding(u)
      BY <1>3 DEF Adding
  <2>2. \A n \in MemberCalls : asked'[n].op = "add" /\ asked'[n].pc = "write"
           => /\ LiveLinks(asked[n].user) = LiveLinks(asked[n].user)'
              /\ asked'[n] = asked[n]
      BY <1>3, <1>4 DEF LiveLinks
  <2>3. "additions" \notin upset' => "additions" \notin upset
      BY <1>1
  <2> QED BY <1>5, <2>1, <2>2, <2>3 DEF AloneAdding, OneMembership, MembersSound
<1>8. AloneRemoving' /\ AdminRemains'
  <2> SUFFICES ASSUME upset' \subseteq {"additions"}
               PROVE  AloneRemoving' /\ AdminRemains'
      BY DEF AloneRemoving, AdminRemains
  <2>1. /\ upset \subseteq {"additions"} /\ Removing = {}
        /\ link[q.link].role # "ADMIN" \/ q.role = "ADMIN"
      BY <1>1
  <2>2. Removing' = {}
      BY <1>3, <2>1 DEF Removing
  <2>3. Admins \subseteq Admins'
      BY <1>4, <2>1 DEF Admins
  <2>4. Admins # {}
      BY <2>1 DEF MembersSound, AdminRemains
  <2> QED BY <2>2, <2>3, <2>4 DEF AloneRemoving, AdminRemains
<1> QED BY <1>6, <1>7, <1>8 DEF MembersSound

LEMMA RemoveKeeps ==
    ASSUME MemberInv, NEW m \in MemberCalls, WriteLink(m), asked[m].op = "remove"
    PROVE  MemberInv'
<1> DEFINE q == asked[m]
<1> USE DEF MemberInv
<1>1. /\ q \in Asked /\ q.pc = "write" /\ q.link \in Links
      /\ link[q.link] \in LinkRow
      /\ link' = [link EXCEPT ![q.link] = [link[q.link] EXCEPT !.state = "deleted"]]
      /\ UNCHANGED <<accounts, upset>>
    BY DEF WriteLink, MemberTypeOK, AskedKnow
<1>2. [link[q.link] EXCEPT !.state = "deleted"] \in LinkRow
      /\ [link[q.link] EXCEPT !.state = "deleted"].state = "deleted"
    BY <1>1 DEF LinkRow
<1>3. /\ asked' \in [MemberCalls -> Asked] /\ asked'[m].pc = "idle"
      /\ \A n \in MemberCalls : asked'[n].pc # "idle" => n # m /\ asked'[n] = asked[n]
    BY WriteEnds DEF WriteLink
<1>4. /\ link' \in [Links -> LinkRow]
      /\ \A l \in Links : l # q.link => link'[l] = link[l]
      /\ link'[q.link].state = "deleted"
    BY <1>1, <1>2 DEF MemberTypeOK
<1>5. /\ \A u \in Users : LiveLinks(u)' \subseteq LiveLinks(u)
      /\ Admins' = Admins \ {q.link}
    BY <1>4 DEF LiveLinks, Admins
<1>6. MemberTypeOK' /\ AskedKnow'
    BY <1>1, <1>3, <1>4 DEF MemberTypeOK, AskedKnow
<1>7. AloneAdding' /\ OneMembership'
  <2>1. \A u \in Users : Adding(u)' \subseteq Adding(u)
      BY <1>3 DEF Adding
  <2>2. \A n \in MemberCalls : asked'[n].op = "add" /\ asked'[n].pc = "write"
           => /\ LiveLinks(asked[n].user)' \subseteq LiveLinks(asked[n].user)
              /\ asked'[n] = asked[n]
      BY <1>3, <1>4 DEF LiveLinks
  <2>3. AloneAdding'
    <3> SUFFICES ASSUME "additions" \notin upset
                 PROVE  AloneAdding'
        BY <1>1 DEF AloneAdding
    <3>1. \A n \in MemberCalls : asked'[n].op = "add" /\ asked'[n].pc = "write"
             => LiveLinks(asked[n].user) = {} /\ asked'[n] = asked[n]
        BY <2>2 DEF AloneAdding
    <3>2. \A n \in MemberCalls : asked'[n].op = "add" /\ asked'[n].pc = "write"
             => LiveLinks(asked[n].user)' = {} /\ asked'[n] = asked[n]
        BY <2>2, <3>1
    <3>3. \A v \in Users : \A j, k \in Adding(v)' : j = k
        BY <2>1 DEF AloneAdding
    <3> QED BY <3>2, <3>3 DEF AloneAdding
  <2>4. OneMembership'
      BY <1>1, <1>5 DEF OneMembership, MembersSound
  <2> QED BY <2>3, <2>4
<1>8. AloneRemoving' /\ AdminRemains'
  <2> SUFFICES ASSUME upset \subseteq {"additions"}
               PROVE  AloneRemoving' /\ AdminRemains'
      BY <1>1 DEF AloneRemoving, AdminRemains
  <2>1. m \in Removing /\ Admins \ {q.link} # {}
      BY <1>1 DEF Removing, AloneRemoving
  <2>2. Removing' = {}
      BY <1>3, <2>1 DEF Removing, AloneRemoving
  <2> QED BY <1>5, <2>1, <2>2 DEF AloneRemoving, AdminRemains
<1> QED BY <1>6, <1>7, <1>8 DEF MembersSound

LEMMA DeleteMeKeeps ==
    ASSUME MemberInv, NEW u \in Users, DeleteMe(u)
    PROVE  MemberInv'
<1> USE DEF MemberInv
<1>1. /\ upset' = upset \cup {"deleted"} /\ asked' = asked /\ accounts' \subseteq Users
      /\ link' = [l \in Links |-> IF l \in LiveLinks(u) THEN [link[l] EXCEPT !.state = "deleted"]
                                 ELSE link[l]]
    BY DEF DeleteMe, MemberTypeOK
<1>2. \A l \in Links : [link[l] EXCEPT !.state = "deleted"] \in LinkRow
                       /\ [link[l] EXCEPT !.state = "deleted"].state = "deleted"
    BY DEF MemberTypeOK, LinkRow
<1>3. link' \in [Links -> LinkRow]
    BY <1>1, <1>2 DEF MemberTypeOK
<1>4. \A l \in Links : link'[l].state = "live" => link'[l] = link[l]
    BY <1>1, <1>2
<1>5. MemberTypeOK' /\ AskedKnow'
    BY <1>1, <1>3 DEF MemberTypeOK, AskedKnow, Upsets
<1>6. AloneAdding' /\ OneMembership'
  <2>1. \A v \in Users : LiveLinks(v)' \subseteq LiveLinks(v) /\ Adding(v)' = Adding(v)
      BY <1>1, <1>4 DEF LiveLinks, Adding
  <2>2. \A n \in MemberCalls : LiveLinks(asked[n].user)' \subseteq LiveLinks(asked[n].user)
      BY <1>1, <1>4 DEF LiveLinks
  <2> QED BY <1>1, <2>1, <2>2 DEF AloneAdding, OneMembership, MembersSound
<1>7. AloneRemoving' /\ AdminRemains'
    BY <1>1 DEF AloneRemoving, AdminRemains
<1> QED BY <1>5, <1>6, <1>7 DEF MembersSound

LEMMA MemberNextInv == MemberInv /\ [MemberNext]_memberVars => MemberInv'
<1> SUFFICES ASSUME MemberInv, [MemberNext]_memberVars
             PROVE  MemberInv'
    OBVIOUS
<1>1. CASE UNCHANGED memberVars
    BY <1>1
    DEF memberVars, MemberInv, MemberTypeOK, AskedKnow, AloneAdding, AloneRemoving, Adding,
        Removing, MembersSound, AdminRemains, OneMembership, Admins, LiveLinks
<1>2. ASSUME NEW m \in MemberCalls, WriteLink(m)
      PROVE  MemberInv'
    BY <1>2, InsertKeeps, ChangeRoleKeeps, RemoveKeeps DEF WriteLink
<1> QED BY <1>1, <1>2, AskKeeps, LookToAddKeeps, LookForLinkKeeps, CountAdminsKeeps,
           DeleteMeKeeps DEF MemberNext

\* For any number of users and requests: an organization keeps an administrator, and
\* nobody is a member twice, unless requests met in one of the ways upset names.
THEOREM MembersSoundHolds == MemberSpec => []MembersSound
<1>1. MemberInv => MembersSound
    BY DEF MemberInv
<1> QED BY <1>1, MemberInitInv, MemberNextInv, PTL DEF MemberSpec
-----------------------------------------------------------------------------
(* Sessions.                                                               *)

\* The steps of a request: a refresh that found the account has the token of its client;
\* an answer has the token that was drawn.
CallsKnown ==
    \A q \in SessionCalls :
        /\ served[q].pc = "found" => served[q].op = "issue"
        /\ served[q].pc \in {"found", "answer"} => served[q].token \in Tokens

\* While requests do not overlap there is one at most, and what a refresh found is still
\* in the row.
InTurns ==
    "overlap" \notin told =>
        /\ \A p, q \in SessionCalls : served[p].pc # "idle" /\ served[q].pc # "idle" => p = q
        /\ \A q \in SessionCalls : served[q].pc = "found" => row = served[q].token
        /\ ~reuse

\* While nothing happened, one client at most has a token or a request under way, and the
\* row holds its token, or the one on the way to it; nothing is about to be revoked.
SingleClient ==
    told = {} =>
        /\ \A d, o \in Devices : held[d] # NoToken /\ held[o] # NoToken => d = o
        /\ \A q \in SessionCalls : served[q].pc # "idle" =>
              /\ \A o \in Devices : held[o] # NoToken => o = served[q].client
              /\ served[q].op = "issue"
              /\ served[q].pc = "answer" => row = served[q].token
        /\ \A d \in Devices : held[d] # NoToken =>
              row = held[d] \/ \E q \in SessionCalls : served[q].pc = "answer"

\* After a revocation that was the last word the row is empty and nobody is cleared to
\* fill it.
StaysShut ==
    shut => /\ row = NoToken
            /\ \A q \in SessionCalls : ~(served[q].pc = "write" /\ served[q].op = "issue")

SessionInv ==
    /\ SessionTypeOK
    /\ CallsKnown
    /\ InTurns
    /\ SingleClient
    /\ StaysShut
    /\ SessionsSound

LEMMA IdleType == Idle \in Call /\ Idle.pc = "idle" /\ Idle.op = "revoke"
BY SessionAssumption DEF Idle, Call

LEMMA SessionInitInv == SessionInit => SessionInv
<1> SUFFICES ASSUME SessionInit PROVE SessionInv
    OBVIOUS
<1>1. SessionTypeOK
    BY IdleType DEF SessionInit, SessionTypeOK
<1>2. CallsKnown /\ InTurns /\ SingleClient /\ StaysShut
    BY IdleType DEF SessionInit, CallsKnown, InTurns, SingleClient, StaysShut
<1>3. SessionsSound
    BY DEF SessionInit, SessionsSound, ReuseExplained, SessionKept, RevokedStaysRevoked
<1> QED BY <1>1, <1>2, <1>3 DEF SessionInv

\* The requests that a step of q leaves alone.
LEMMA OthersServed ==
    ASSUME SessionInv, NEW q \in SessionCalls, NEW c \in Call,
           served' = [served EXCEPT ![q] = c]
    PROVE  /\ served' \in [SessionCalls -> Call]
           /\ served'[q] = c
           /\ \A p \in SessionCalls : p # q => served'[p] = served[p]
BY DEF SessionInv, SessionTypeOK

\* A request that comes to its write or, as a refresh, to its validation.
LEMMA ComesKeeps ==
    ASSUME SessionInv, NEW q \in SessionCalls, NEW pc \in {"found", "write"},
           NEW op \in {"issue", "revoke"}, NEW d \in Devices, NEW t \in Tokens \cup {NoToken},
           NEW why \in SUBSET Occurrences,
           Comes(q, pc, op, d, t, why),
           pc = "found" => t \in Tokens /\ row = t /\ held[d] = t /\ op = "issue",
           pc = "write" /\ op = "issue" => OtherClients(d) \subseteq why /\ ~shut',
           op = "revoke" => why # {},
           shut' \in {shut, FALSE},
           UNCHANGED <<row, aged, held, access, drawn, reuse, refused>>
    PROVE  SessionInv'
<1> DEFINE c == [pc |-> pc, op |-> op, client |-> d, token |-> t]
<1> USE DEF SessionInv
<1>1. c \in Call /\ c.pc = pc /\ c.op = op /\ c.client = d /\ c.token = t
    BY DEF Call
<1>2. /\ served[q].pc = "idle"
      /\ served' = [served EXCEPT ![q] = c]
      /\ told' = told \cup why \cup Overlap
    BY DEF Comes
<1> HIDE DEF c
<1>3. /\ served' \in [SessionCalls -> Call] /\ served'[q] = c
      /\ \A p \in SessionCalls : p # q => served'[p] = served[p]
    BY <1>1, <1>2, OthersServed
<1>4. /\ told \subseteq told' /\ told' \subseteq Occurrences
      /\ "overlap" \notin told' => \A p \in SessionCalls : served[p].pc = "idle"
    BY <1>2 DEF Overlap, UnderWay, SessionTypeOK, Occurrences
<1>5. SessionTypeOK'
    BY <1>3, <1>4 DEF SessionTypeOK
<1>6. CallsKnown'
    BY <1>1, <1>3 DEF CallsKnown
<1>7. InTurns'
    BY <1>1, <1>3, <1>4 DEF InTurns
<1>8. SingleClient'
  <2> SUFFICES ASSUME told' = {} PROVE SingleClient'
      BY DEF SingleClient
  <2>1. told = {} /\ why = {} /\ op = "issue"
      BY <1>2
  <2>2. \A p \in SessionCalls : served[p].pc = "idle"
      BY <1>4
  <2>3. \A o \in Devices : held[o] # NoToken => o = d
    <3>1. CASE pc = "found"
        BY <2>1, <3>1, SessionAssumption DEF SingleClient
    <3>2. CASE pc = "write"
        BY <2>1, <3>2 DEF OtherClients
    <3> QED BY <3>1, <3>2
  <2>4. \A o \in Devices : held[o] # NoToken => row = held[o]
      BY <2>1, <2>2 DEF SingleClient
  <2> QED BY <1>1, <1>3, <2>1, <2>2, <2>3, <2>4 DEF SingleClient
<1>9. StaysShut'
    BY <1>1, <1>3 DEF StaysShut
<1>10. SessionsSound'
  <2>1. ReuseExplained'
      BY <1>4 DEF SessionsSound, ReuseExplained
  <2>2. SessionKept'
      BY <1>4 DEF SessionsSound, SessionKept
  <2>3. shut' => shut
      OBVIOUS
  <2>4. RevokedStaysRevoked'
      BY <2>3 DEF SessionsSound, RevokedStaysRevoked
  <2> QED BY <2>1, <2>2, <2>4 DEF SessionsSound
<1> QED BY <1>5, <1>6, <1>7, <1>8, <1>9, <1>10

LEMMA LoginKeeps ==
    ASSUME SessionInv, NEW q \in SessionCalls, Login(q) \/ SwitchOrg(q)
    PROVE  SessionInv'
<1>1. PICK d \in Devices :
         /\ Comes(q, "write", "issue", d, NoToken, OtherClients(d))
         /\ shut' = FALSE
         /\ UNCHANGED <<row, aged, held, access, drawn, reuse, refused>>
    BY DEF Login, SwitchOrg, SessionInv, SessionTypeOK
<1>2. OtherClients(d) \in SUBSET Occurrences
    BY DEF OtherClients, Occurrences
<1> QED BY <1>1, <1>2, ComesKeeps

LEMMA EndSessionKeeps ==
    ASSUME SessionInv, NEW q \in SessionCalls, EndSession(q)
    PROVE  SessionInv'
<1>1. PICK d \in Devices :
         /\ Comes(q, "write", "revoke", d, NoToken, {"ended"})
         /\ UNCHANGED <<row, aged, held, access, drawn, reuse, refused, shut>>
    BY DEF EndSession, SessionInv, SessionTypeOK
<1>2. {"ended"} \in SUBSET Occurrences /\ {"ended"} # {}
    BY DEF Occurrences
<1> QED BY <1>1, <1>2, ComesKeeps

LEMMA RefreshFindsKeeps ==
    ASSUME SessionInv, NEW q \in SessionCalls, RefreshFinds(q)
    PROVE  SessionInv'
<1>1. PICK d \in Devices :
         /\ held[d] # NoToken /\ row = held[d]
         /\ Comes(q, "found", "issue", d, held[d], {})
         /\ UNCHANGED <<row, aged, held, access, drawn, reuse, refused, shut>>
    BY DEF RefreshFinds
<1>2. held[d] \in Tokens
    BY <1>1 DEF SessionInv, SessionTypeOK
<1> QED BY <1>1, <1>2, ComesKeeps

LEMMA RefreshMissesKeeps ==
    ASSUME SessionInv, NEW q \in SessionCalls, RefreshMisses(q)
    PROVE  SessionInv'
<1> USE DEF SessionInv
<1>1. PICK d \in Devices :
         /\ held[d] # NoToken
         /\ refused' = TRUE
         /\ told' = told \cup Overlap \cup {m \in {"unread"} : row = held[d]}
         /\ UNCHANGED <<row, aged, held, access, served, drawn, reuse, shut>>
    BY DEF RefreshMisses
<1>2. /\ told \subseteq told' /\ told' \subseteq Occurrences
      /\ "overlap" \notin told' => \A p \in SessionCalls : served[p].pc = "idle"
    BY <1>1 DEF Overlap, UnderWay, SessionTypeOK, Occurrences
<1>3. told' # {}
  <2> SUFFICES ASSUME told' = {} PROVE FALSE
      OBVIOUS
  <2>1. told = {} /\ row # held[d] /\ \A p \in SessionCalls : served[p].pc = "idle"
      BY <1>1, <1>2
  <2> QED BY <1>1, <2>1 DEF SingleClient
<1>4. SessionTypeOK' /\ CallsKnown'
    BY <1>1, <1>2 DEF SessionTypeOK, CallsKnown
<1>5. InTurns' /\ StaysShut'
    BY <1>1, <1>2 DEF InTurns, StaysShut
<1>6. SingleClient'
    BY <1>3 DEF SingleClient
<1>7. SessionsSound'
    BY <1>1, <1>2, <1>3 DEF SessionsSound, ReuseExplained, SessionKept, RevokedStaysRevoked
<1> QED BY <1>4, <1>5, <1>6, <1>7

LEMMA ValidateKeeps ==
    ASSUME SessionInv, NEW q \in SessionCalls, Validate(q)
    PROVE  SessionInv'
<1> PICK v : v = Validation(served[q].token)
    OBVIOUS
<1> DEFINE c == served[q]
           n == IF v = "expired" THEN Idle
                ELSE [c EXCEPT !.pc = "write", !.op = IF v = "valid" THEN "issue" ELSE "revoke"]
<1> USE DEF SessionInv
<1>1. /\ c.pc = "found" /\ c \in Call /\ c.token \in Tokens /\ c.op = "issue"
      /\ served' = [served EXCEPT ![q] = n]
      /\ reuse' = (reuse \/ v = "invalid")
      /\ refused' = (refused \/ v = "invalid")
      /\ UNCHANGED <<row, aged, held, access, drawn, shut, told>>
    BY DEF Validate, SessionTypeOK, CallsKnown
<1>2. /\ n \in Call
      /\ n.pc = "idle" \/ (n.pc = "write" /\ n.client = c.client)
      /\ n.pc = "write" /\ n.op = "issue" => v = "valid"
      /\ n.pc = "write" /\ n.op # "issue" => v = "invalid"
    BY <1>1, IdleType, Zenon DEF Validation, Call
<1>3. /\ v = "valid" => row = c.token
      /\ v = "invalid" => row # c.token
    BY DEF Validation
<1> HIDE DEF n
<1>4. /\ served' \in [SessionCalls -> Call] /\ served'[q] = n
      /\ \A p \in SessionCalls : p # q => served'[p] = served[p]
    BY <1>1, <1>2, OthersServed
<1>5. v = "invalid" => "overlap" \in told
    BY <1>1, <1>3 DEF InTurns
<1>6. SessionTypeOK'
    BY <1>1, <1>4 DEF SessionTypeOK
<1>7. CallsKnown'
    BY <1>2, <1>4 DEF CallsKnown
<1>8. InTurns'
    BY <1>1, <1>2, <1>4, <1>5 DEF InTurns
<1>9. SingleClient'
  <2> SUFFICES ASSUME told' = {} PROVE SingleClient'
      BY DEF SingleClient
  <2>1. told = {} /\ v # "invalid"
      BY <1>1, <1>5
  <2>2. \A d \in Devices : held[d] # NoToken =>
              row = held[d] \/ \E p \in SessionCalls : served[p].pc = "answer"
      BY <2>1 DEF SingleClient
  <2>3. \A p \in SessionCalls : served[p].pc = "answer" => p # q /\ served'[p] = served[p]
      BY <1>1, <1>4
  <2> QED BY <1>1, <1>2, <1>4, <2>1, <2>2, <2>3 DEF SingleClient
<1>10. StaysShut'
  <2>1. shut => v # "valid"
      BY <1>1, <1>3, SessionAssumption DEF StaysShut
  <2> QED BY <1>1, <1>2, <1>4, <2>1 DEF StaysShut
<1>11. SessionsSound'
    BY <1>1, <1>5 DEF SessionsSound, ReuseExplained, SessionKept, RevokedStaysRevoked
<1> QED BY <1>6, <1>7, <1>8, <1>9, <1>10, <1>11

LEMMA IssueKeeps ==
    ASSUME SessionInv, NEW q \in SessionCalls, Issue(q)
    PROVE  SessionInv'
<1> USE DEF SessionInv
<1>1. PICK t \in Tokens \ drawn :
         /\ row' = t /\ drawn' = drawn \cup {t}
         /\ served' = [served EXCEPT ![q].pc = "answer", ![q].token = t]
    BY DEF Issue
<1> DEFINE c == served[q]
           n == [c EXCEPT !.pc = "answer", !.token = t]
<1>2. /\ c.pc = "write" /\ c.op = "issue" /\ c \in Call
      /\ UNCHANGED <<aged, held, access, reuse, refused, shut, told>>
    BY DEF Issue, SessionTypeOK
<1>3. /\ n \in Call /\ n.pc = "answer" /\ n.token = t /\ n.op = "issue" /\ n.client = c.client
      /\ served' = [served EXCEPT ![q] = n]
    BY <1>1, <1>2 DEF Call, SessionTypeOK
<1> HIDE DEF n
<1>4. /\ served' \in [SessionCalls -> Call] /\ served'[q] = n
      /\ \A p \in SessionCalls : p # q => served'[p] = served[p]
    BY <1>3, OthersServed
<1>5. ~shut /\ ~shut'
    BY <1>2 DEF StaysShut
<1>6. SessionTypeOK' /\ CallsKnown'
    BY <1>1, <1>2, <1>3, <1>4 DEF SessionTypeOK, CallsKnown
<1>7. InTurns'
    BY <1>2, <1>3, <1>4 DEF InTurns
<1>8. SingleClient'
  <2> SUFFICES ASSUME told' = {} PROVE SingleClient'
      BY DEF SingleClient
  <2>1. told = {} /\ "overlap" \notin told
      BY <1>2
  <2>2. \A p \in SessionCalls : served'[p].pc # "idle" => p = q
      BY <1>2, <1>4, <2>1 DEF InTurns
  <2> QED BY <1>1, <1>2, <1>3, <1>4, <2>1, <2>2 DEF SingleClient
<1>9. StaysShut' /\ SessionsSound'
    BY <1>2, <1>5 DEF StaysShut, SessionsSound, ReuseExplained, SessionKept, RevokedStaysRevoked
<1> QED BY <1>6, <1>7, <1>8, <1>9

LEMMA RevokeKeeps ==
    ASSUME SessionInv, NEW q \in SessionCalls, Revoke(q)
    PROVE  SessionInv'
<1> USE DEF SessionInv
<1>1. /\ served[q].pc = "write" /\ served[q].op = "revoke"
      /\ row' = NoToken
      /\ served' = [served EXCEPT ![q] = Idle]
      /\ shut' = \A p \in SessionCalls : ~(served[p].pc = "write" /\ served[p].op = "issue")
      /\ UNCHANGED <<aged, held, access, drawn, reuse, refused, told>>
    BY DEF Revoke
<1>2. /\ served' \in [SessionCalls -> Call] /\ served'[q] = Idle
      /\ \A p \in SessionCalls : p # q => served'[p] = served[p]
    BY <1>1, IdleType, OthersServed
<1>3. told # {}
    BY <1>1 DEF SingleClient
<1>4. \A p \in SessionCalls : served'[p].pc # "idle" => p # q /\ served'[p] = served[p]
    BY <1>2, IdleType
<1>5. SessionTypeOK' /\ CallsKnown'
    BY <1>1, <1>2, <1>4 DEF SessionTypeOK, CallsKnown
<1>6. InTurns'
  <2> SUFFICES ASSUME "overlap" \notin told PROVE InTurns'
      BY <1>1 DEF InTurns
  <2>1. \A p \in SessionCalls : served'[p].pc = "idle"
      BY <1>1, <1>4 DEF InTurns
  <2> QED BY <1>1, <2>1 DEF InTurns
<1>7. SingleClient'
    BY <1>1, <1>3 DEF SingleClient
<1>8. StaysShut'
    BY <1>1, <1>4 DEF StaysShut
<1>9. SessionsSound'
    BY <1>1 DEF SessionsSound, ReuseExplained, SessionKept, RevokedStaysRevoked
<1> QED BY <1>5, <1>6, <1>7, <1>8, <1>9

LEMMA AnswerKeeps ==
    ASSUME SessionInv, NEW q \in SessionCalls, Answer(q)
    PROVE  SessionInv'
<1> DEFINE c == served[q]
<1> USE DEF SessionInv
<1>1. /\ c.pc = "answer" /\ c \in Call /\ c.token \in Tokens
      /\ served' = [served EXCEPT ![q] = Idle]
      /\ UNCHANGED <<row, aged, drawn, reuse, refused, shut>>
      /\ told \subseteq told' /\ told' \subseteq told \cup {"lost"}
    BY DEF Answer, SessionTypeOK, CallsKnown
<1>2. /\ served' \in [SessionCalls -> Call] /\ served'[q] = Idle
      /\ \A p \in SessionCalls : p # q => served'[p] = served[p]
    BY <1>1, IdleType, OthersServed
<1>3. \A p \in SessionCalls : served'[p].pc # "idle" => p # q /\ served'[p] = served[p]
    BY <1>2, IdleType
<1>4. /\ held' \in [Devices -> Tokens \cup {NoToken}] /\ access' \subseteq Devices
      /\ told' = {} => held' = [held EXCEPT ![c.client] = c.token]
    BY <1>1 DEF Answer, SessionTypeOK, Call
<1>5. SessionTypeOK' /\ CallsKnown'
    BY <1>1, <1>2, <1>3, <1>4 DEF SessionTypeOK, CallsKnown, Occurrences
<1>6. InTurns' /\ StaysShut'
    BY <1>1, <1>3 DEF InTurns, StaysShut
<1>7. SingleClient'
  <2> SUFFICES ASSUME told' = {} PROVE SingleClient'
      BY DEF SingleClient
  <2>1. told = {} /\ "overlap" \notin told
      BY <1>1
  <2>2. \A p \in SessionCalls : served'[p].pc = "idle"
      BY <1>1, <1>3, <2>1 DEF InTurns
  <2>3. /\ row = c.token /\ c.client \in Devices
        /\ \A o \in Devices : held[o] # NoToken => o = c.client
      BY <1>1, <2>1 DEF SingleClient, Call
  <2>4. \A o \in Devices : held'[o] # NoToken => o = c.client /\ held'[o] = c.token
      BY <1>4, <2>3 DEF SessionTypeOK
  <2> QED BY <1>1, <2>2, <2>3, <2>4 DEF SingleClient
<1>8. SessionsSound'
    BY <1>1 DEF SessionsSound, ReuseExplained, SessionKept, RevokedStaysRevoked
<1> QED BY <1>5, <1>6, <1>7, <1>8

\* Time, and what a client forgets by itself.
LEMMA AlonePasses ==
    ASSUME SessionInv, Forget \/ AccessExpires \/ Age
    PROVE  SessionInv'
<1> USE DEF SessionInv
<1>1. /\ UNCHANGED <<row, served, drawn, reuse, refused, shut, told>>
      /\ SessionTypeOK'
      /\ \A d \in Devices : held'[d] # NoToken => held'[d] = held[d]
    BY DEF Forget, AccessExpires, Age, SessionTypeOK
<1>2. CallsKnown' /\ InTurns' /\ StaysShut' /\ SessionsSound'
    BY <1>1 DEF CallsKnown, InTurns, StaysShut, SessionsSound, ReuseExplained, SessionKept,
                RevokedStaysRevoked
<1>3. SingleClient'
    BY <1>1 DEF SingleClient
<1> QED BY <1>1, <1>2, <1>3

LEMMA SessionNextInv == SessionInv /\ [SessionNext]_sessionVars => SessionInv'
<1> SUFFICES ASSUME SessionInv, [SessionNext]_sessionVars PROVE SessionInv'
    OBVIOUS
<1>1. CASE UNCHANGED sessionVars
    BY <1>1 DEF sessionVars, SessionInv, SessionTypeOK, CallsKnown, InTurns, SingleClient,
                StaysShut, SessionsSound, ReuseExplained, SessionKept, RevokedStaysRevoked
<1>2. CASE SessionNext
    BY <1>2, LoginKeeps, EndSessionKeeps, RefreshFindsKeeps, RefreshMissesKeeps, ValidateKeeps,
       IssueKeeps, RevokeKeeps, AnswerKeeps, AlonePasses DEF SessionNext
<1> QED BY <1>1, <1>2

\* For any number of tokens, clients and requests: a refresh is taken for reuse only when
\* requests overlapped, a client that asks in turn keeps its session, and after a
\* revocation no refresh that had only found the account revives it.
THEOREM SessionsSoundHolds == SessionSpec => []SessionsSound
<1>1. SessionInv => SessionsSound
    BY DEF SessionInv
<1> QED BY <1>1, SessionInitInv, SessionNextInv, PTL DEF SessionSpec

-----------------------------------------------------------------------------
(* McpKeys.                                                                *)

\* A call under way is about a key that was generated; after its UPDATE the row of a
\* revocation is dead, and so is that of every key whose revocation returned.
KeyCallsKnown ==
    /\ \A c \in KeyCalls :
          /\ keyCall[c].pc # "idle" => keyCall[c].key \in McpKeys
          /\ keyCall[c].pc = "uncache" => keyState[keyCall[c].key] = "dead"
    /\ \A k \in ended : keyState[k] = "dead"

\* A key that is not excused is in no cache, and no check that read its row is to fill one.
NothingCached == \A k \in ended \ excused : k \notin payloads /\ ~Filling(k)

KeysInv == KeysTypeOK /\ KeyCallsKnown /\ NothingCached

LEMMA KeysInitInv == KeysInit => KeysInv
BY DEF KeysInit, KeysInv, KeysTypeOK, KeyCallsKnown, NothingCached, NoKeyCall, KeyCall

\* The calls that a step of c leaves alone.
LEMMA OthersCall ==
    ASSUME KeysInv, NEW c \in KeyCalls, NEW q \in KeyCall,
           keyCall' = [keyCall EXCEPT ![c] = q]
    PROVE  /\ keyCall' \in [KeyCalls -> KeyCall]
           /\ keyCall'[c] = q
           /\ \A b \in KeyCalls : b # c => keyCall'[b] = keyCall[b]
BY DEF KeysInv, KeysTypeOK

LEMMA KeyBeginsKeeps ==
    ASSUME KeysInv, NEW c \in KeyCalls, CheckKey(c) \/ RevokeKey(c)
    PROVE  KeysInv'
<1> USE DEF KeysInv
<1>1. PICK k \in McpKeys, pc \in {"cache", "update"} :
         /\ keyState[k] = "live"
         /\ keyCall' = [keyCall EXCEPT ![c] = [pc |-> pc, key |-> k]]
         /\ UNCHANGED <<keyState, disabled, payloads, ended, excused>>
    BY DEF CheckKey, RevokeKey, Acceptable
<1>2. [pc |-> pc, key |-> k] \in KeyCall
    BY DEF KeyCall
<1>3. /\ keyCall' \in [KeyCalls -> KeyCall] /\ keyCall'[c] = [pc |-> pc, key |-> k]
      /\ \A b \in KeyCalls : b # c => keyCall'[b] = keyCall[b]
    BY <1>1, <1>2, OthersCall
<1>4. KeysTypeOK' /\ KeyCallsKnown'
    BY <1>1, <1>3 DEF KeysTypeOK, KeyCallsKnown
<1>5. k \notin ended
    BY <1>1 DEF KeyCallsKnown
<1> QED BY <1>1, <1>3, <1>4, <1>5 DEF NothingCached, Filling

LEMMA FillCacheKeeps ==
    ASSUME KeysInv, NEW c \in KeyCalls, FillCache(c)
    PROVE  KeysInv'
<1> DEFINE k == keyCall[c].key
           q == [keyCall[c] EXCEPT !.pc = "touch"]
<1> USE DEF KeysInv
<1>1. /\ keyCall[c].pc = "cache" /\ keyCall[c] \in KeyCall /\ k \in McpKeys /\ Filling(k)
      /\ payloads' \in {payloads, payloads \cup {k}}
      /\ keyCall' = [keyCall EXCEPT ![c] = q]
      /\ UNCHANGED <<keyState, disabled, ended, excused>>
    BY DEF FillCache, KeysTypeOK, KeyCallsKnown, Filling
<1>2. q \in KeyCall /\ q.pc = "touch" /\ q.key = k
    BY <1>1 DEF KeyCall
<1>3. /\ keyCall' \in [KeyCalls -> KeyCall] /\ keyCall'[c] = q
      /\ \A b \in KeyCalls : b # c => keyCall'[b] = keyCall[b]
    BY <1>1, <1>2, OthersCall
<1>4. KeysTypeOK' /\ KeyCallsKnown'
    BY <1>1, <1>2, <1>3 DEF KeysTypeOK, KeyCallsKnown
<1>5. k \notin ended \ excused
    BY <1>1 DEF NothingCached
<1>6. \A j : Filling(j)' => Filling(j)
    BY <1>2, <1>3 DEF Filling
<1> QED BY <1>1, <1>4, <1>5, <1>6 DEF NothingCached

LEMMA TouchKeeps ==
    ASSUME KeysInv, NEW c \in KeyCalls, Touch(c)
    PROVE  KeysInv'
<1> USE DEF KeysInv
<1>1. NoKeyCall \in KeyCall /\ NoKeyCall.pc = "idle"
    BY DEF NoKeyCall, KeyCall
<1>2. /\ keyCall' \in [KeyCalls -> KeyCall] /\ keyCall'[c] = NoKeyCall
      /\ \A b \in KeyCalls : b # c => keyCall'[b] = keyCall[b]
      /\ disabled' \subseteq disabled
      /\ UNCHANGED <<keyState, payloads, ended, excused>>
    BY <1>1, OthersCall DEF Touch
<1>3. KeysTypeOK' /\ KeyCallsKnown'
    BY <1>1, <1>2 DEF KeysTypeOK, KeyCallsKnown
<1>4. \A j : Filling(j)' => Filling(j)
    BY <1>1, <1>2 DEF Filling
<1> QED BY <1>2, <1>3, <1>4 DEF NothingCached

LEMMA DisableKeyKeeps ==
    ASSUME KeysInv, NEW c \in KeyCalls, DisableKey(c)
    PROVE  KeysInv'
<1> DEFINE k == keyCall[c].key
           q == [keyCall[c] EXCEPT !.pc = "uncache"]
<1> USE DEF KeysInv
<1>1. /\ keyCall[c].pc = "update" /\ keyCall[c] \in KeyCall /\ k \in McpKeys
      /\ keyState' = [keyState EXCEPT ![k] = "dead"]
      /\ disabled' = disabled \cup {k}
      /\ keyCall' = [keyCall EXCEPT ![c] = q]
      /\ UNCHANGED <<payloads, ended, excused>>
    BY DEF DisableKey, KeysTypeOK, KeyCallsKnown
<1>2. q \in KeyCall /\ q.pc = "uncache" /\ q.key = k
    BY <1>1 DEF KeyCall
<1>3. /\ keyCall' \in [KeyCalls -> KeyCall] /\ keyCall'[c] = q
      /\ \A b \in KeyCalls : b # c => keyCall'[b] = keyCall[b]
    BY <1>1, <1>2, OthersCall
<1>4. KeysTypeOK' /\ KeyCallsKnown'
    BY <1>1, <1>2, <1>3 DEF KeysTypeOK, KeyCallsKnown
<1>5. \A j : Filling(j)' => Filling(j)
    BY <1>2, <1>3 DEF Filling
<1> QED BY <1>1, <1>4, <1>5 DEF NothingCached

LEMMA DeleteCacheKeeps ==
    ASSUME KeysInv, NEW c \in KeyCalls, DeleteCache(c)
    PROVE  KeysInv'
<1> DEFINE k == keyCall[c].key
<1> USE DEF KeysInv
<1>1. NoKeyCall \in KeyCall /\ NoKeyCall.pc = "idle"
    BY DEF NoKeyCall, KeyCall
<1>2. /\ keyCall[c].pc = "uncache" /\ k \in McpKeys /\ keyState[k] = "dead"
      /\ payloads' \subseteq payloads
      /\ ended' = ended \cup {k}
      /\ excused' = excused \cup {m \in {k} : Filling(k) \/ k \in payloads'}
      /\ keyCall' = [keyCall EXCEPT ![c] = NoKeyCall]
      /\ UNCHANGED <<keyState, disabled>>
    BY DEF DeleteCache, KeyCallsKnown
<1>3. /\ keyCall' \in [KeyCalls -> KeyCall] /\ keyCall'[c] = NoKeyCall
      /\ \A b \in KeyCalls : b # c => keyCall'[b] = keyCall[b]
    BY <1>1, <1>2, OthersCall
<1>4. KeysTypeOK' /\ KeyCallsKnown'
    BY <1>1, <1>2, <1>3 DEF KeysTypeOK, KeyCallsKnown
<1>5. \A j : Filling(j)' => Filling(j)
    BY <1>1, <1>3 DEF Filling
<1> QED BY <1>2, <1>4, <1>5 DEF NothingCached

\* What nobody asked about a key: generation, the generic deletion, time.
LEMMA RowChangesKeep ==
    ASSUME KeysInv, GenerateKey \/ DeleteTabela \/ PayloadExpires
    PROVE  KeysInv'
<1> USE DEF KeysInv
<1>1. CASE GenerateKey
  <2>1. PICK k \in McpKeys :
           /\ keyState[k] = "unborn" /\ keyState' = [keyState EXCEPT ![k] = "live"]
           /\ UNCHANGED <<disabled, payloads, keyCall, ended, excused>>
      BY <1>1 DEF GenerateKey
  <2>2. KeysTypeOK' /\ KeyCallsKnown'
      BY <2>1 DEF KeysTypeOK, KeyCallsKnown
  <2> QED BY <2>1, <2>2 DEF NothingCached, Filling
<1>2. CASE DeleteTabela
  <2>1. PICK k \in McpKeys :
           /\ keyState' = [keyState EXCEPT ![k] = "dead"]
           /\ ended' = ended \cup {k}
           /\ excused' = excused \cup {m \in {k} : Filling(k) \/ k \in payloads}
           /\ UNCHANGED <<disabled, payloads, keyCall>>
      BY <1>2 DEF DeleteTabela
  <2>2. KeysTypeOK' /\ KeyCallsKnown'
      BY <2>1 DEF KeysTypeOK, KeyCallsKnown
  <2> QED BY <2>1, <2>2 DEF NothingCached, Filling
<1>3. CASE PayloadExpires
  <2>1. PICK k \in payloads :
           /\ payloads' = payloads \ {k}
           /\ excused' = excused \ {m \in {k} : ~Filling(k)}
           /\ UNCHANGED <<keyState, disabled, keyCall, ended>>
      BY <1>3 DEF PayloadExpires
  <2>2. KeysTypeOK' /\ KeyCallsKnown'
      BY <2>1 DEF KeysTypeOK, KeyCallsKnown
  <2>3. \A j : Filling(j)' = Filling(j)
      BY <2>1 DEF Filling
  <2> QED BY <2>1, <2>2, <2>3 DEF NothingCached
<1> QED BY <1>1, <1>2, <1>3

LEMMA KeysNextInv == KeysInv /\ [KeysNext]_keyVars => KeysInv'
<1> SUFFICES ASSUME KeysInv, [KeysNext]_keyVars PROVE KeysInv'
    OBVIOUS
<1>1. CASE UNCHANGED keyVars
    BY <1>1 DEF keyVars, KeysInv, KeysTypeOK, KeyCallsKnown, NothingCached, Filling
<1> QED BY <1>1, KeyBeginsKeeps, FillCacheKeeps, TouchKeeps, DisableKeyKeeps, DeleteCacheKeeps,
           RowChangesKeep DEF KeysNext

LEMMA KeysInvSound == KeysInv => KeysSound
BY DEF KeysInv, KeyCallsKnown, NothingCached, KeysSound, HeaderAccepts, BearerAccepts, Acceptable

\* For any number of keys, checks and revocations, whatever Redis loses and however late a
\* row is stamped: a key whose revocation returned is refused for good, except while a
\* payload read before it, or one that was not deleted, is in the cache.
THEOREM KeysSoundHolds == KeysSpec => []KeysSound
<1> QED BY KeysInvSound, KeysInitInv, KeysNextInv, PTL DEF KeysSpec

-----------------------------------------------------------------------------
(* Pairing of chats.                                                       *)

Stages == {"idle", "resolve", "record", "seen", "route", "consume", "mark", "find", "link",
           "oriented", "done"}
ActorRecord == [pc : Stages, update : Updates \cup {NoUpdate}, chat : Chats \cup {NoOwner},
                code : Codes \cup {NoCode}, user : Owners \cup {NoOwner},
                acts : Owners \cup {NoOwner}, row : Nat, since : Codes \cup {NoCode}]
MessageRecord == [chat : Chats, kind : MessageKinds, code : Codes \cup {NoCode}]

\* What an actor knows at each stage: its chat, the update it handles, the user found,
\* and a row that is a link of its chat.
ActorsKnow ==
    /\ actor \in [Actors -> ActorRecord]
    /\ DOMAIN message \subseteq Updates
    /\ \A u \in DOMAIN message : message[u] \in MessageRecord
    /\ \A a \in Actors :
          /\ actor[a].pc # "idle" => actor[a].chat \in Chats
          /\ Consuming(a) => actor[a].code \in Codes
          /\ actor[a].pc \in {"resolve", "record", "seen", "route"} =>
                a \in Handlers /\ actor[a].update \in DOMAIN message
          /\ actor[a].pc \in {"record", "seen", "route"} => actor[a].user \in Owners
          /\ actor[a].pc = "seen" => actor[a].row # NoChatLink /\ actor[a].since \in Codes
          /\ actor[a].pc \in {"seen", "link"} /\ actor[a].row # NoChatLink =>
                actor[a].row \in ChatLinksOf(actor[a].chat)

\* While pairings do not overlap, each has a code, still unused, and a chat of its own,
\* and a chat that had no link still has none.
PairingsApart ==
    "pairings" \notin clashes =>
        /\ \A a, b \in Actors : Consuming(a) /\ Consuming(b) /\ a # b =>
              actor[a].code # actor[b].code /\ actor[a].chat # actor[b].chat
        /\ \A a \in Actors : Consuming(a) => codeState[actor[a].code] = "unused"
        /\ \A k \in Codes : codeState[k] # "used" => pairedBy[k] = {}
        /\ \A a \in Actors : actor[a].pc = "link" /\ actor[a].row = NoChatLink =>
              ChatLinksOf(actor[a].chat) = {}
        /\ \A k \in Codes : \A c, d \in pairedBy[k] : c = d
        /\ \A l, m \in DOMAIN chatLinks : chatLinks[l].chat = chatLinks[m].chat => l = m

\* While no chat is paired anew under a message, the message writes back what is there.
SeenFresh ==
    "message" \notin clashes =>
        \A h \in Handlers : actor[h].pc = "seen" => actor[h].since = chatLinks[actor[h].row].since

ToRecord(h, u) == actor[h].update = u /\ actor[h].pc \in {"resolve", "record", "seen"}

\* While Redis works, one handler at most is on its way to record an update.
RecordingOnce ==
    "redis" \notin clashes =>
        \A u \in Updates :
            /\ \A g, h \in Handlers : ToRecord(g, u) /\ ToRecord(h, u) => g = h
            /\ \A h \in Handlers : ToRecord(h, u) => recorded[u] = <<>> /\ u \in known
            /\ u \notin known => recorded[u] = <<>>

\* While neither happens, a message on its way was recorded with the user that its chat
\* is linked to still.
StillLinked ==
    clashes \cap {"pairings", "message"} = {} =>
        \A h \in Handlers :
            /\ actor[h].pc \in {"idle", "resolve", "record", "seen", "route"} => actor[h].acts = NoOwner
            /\ actor[h].pc \in {"record", "seen", "route"} =>
                  \E l \in ChatLinksOf(actor[h].chat) : chatLinks[l].user = actor[h].user

PairingInv ==
    /\ PairingTypeOK
    /\ ActorsKnow
    /\ PairingsApart
    /\ SeenFresh
    /\ LinkTruthful
    /\ RecordingOnce
    /\ RecordedOnce
    /\ StillLinked
    /\ OneIdentity

LEMMA PairingInitInv == PairingInit => PairingInv
<1> SUFFICES ASSUME PairingInit PROVE PairingInv
    OBVIOUS
<1>1. \A a \in Actors : actor[a] = At("idle", NoUpdate, NoOwner, NoCode)
    BY DEF PairingInit
<1>2. At("idle", NoUpdate, NoOwner, NoCode) \in ActorRecord
    BY DEF At, ActorRecord, Stages, NoChatLink
<1>3. ActorsKnow
    BY <1>1, <1>2 DEF PairingInit, ActorsKnow, At, Consuming
<1>4. PairingTypeOK
    BY <1>1 DEF PairingInit, PairingTypeOK, At, NoChatLink
<1>5. PairingsApart /\ SeenFresh /\ LinkTruthful
  <2>1. DOMAIN chatLinks = {} /\ \A k \in Codes : pairedBy[k] = {}
      BY DEF PairingInit
  <2>2. \A a \in Actors : actor[a].pc = "idle" /\ ~Consuming(a)
      BY <1>1 DEF At, Consuming
  <2>3. PairingsApart
      BY <2>1, <2>2 DEF PairingsApart
  <2> QED BY <2>1, <2>2, <2>3 DEF SeenFresh, LinkTruthful, Actors
<1>6. RecordingOnce /\ RecordedOnce /\ StillLinked /\ OneIdentity
    BY <1>1 DEF PairingInit, RecordingOnce, RecordedOnce, ToRecord, StillLinked, OneIdentity, At, Actors
<1> QED BY <1>3, <1>4, <1>5, <1>6 DEF PairingInv

\* The actors that a step of a leaves alone.
LEMMA OthersAct ==
    ASSUME ActorsKnow, NEW a \in Actors, NEW p \in ActorRecord,
           actor' = [actor EXCEPT ![a] = p]
    PROVE  /\ actor' \in [Actors -> ActorRecord]
           /\ actor'[a] = p
           /\ \A b \in Actors : b # a => actor'[b] = actor[b]
BY DEF ActorsKnow

\* A step of an actor that writes no row and no code keeps the promises about them when
\* what the actor knows afterwards is true.
LEMMA MoveKeeps ==
    ASSUME PairingInv, NEW a \in Actors, NEW p \in ActorRecord,
           actor' = [actor EXCEPT ![a] = p],
           UNCHANGED <<codeState, expired, chatLinks, message, pairedBy>>,
           known' \subseteq Updates, recorded' \in [Updates -> Seq(Owners)],
           clashes \subseteq clashes', clashes' \subseteq {"pairings", "message", "redis"},
           p.pc # "idle", p.chat \in Chats, p.row \in 0..Len(chatLinks),
           p.pc \in {"mark", "find", "link"} =>
              /\ p.code \in Codes
              /\ \/ Consuming(a) /\ p.code = actor[a].code /\ p.chat = actor[a].chat
                 \/ /\ codeState[p.code] = "unused"
                    /\ "pairings" \notin clashes' => \A b \in Actors \ {a} : Consuming(b) =>
                          actor[b].code # p.code /\ actor[b].chat # p.chat,
           p.pc = "link" /\ p.row = NoChatLink => ChatLinksOf(p.chat) = {},
           p.pc \in {"seen", "link"} /\ p.row # NoChatLink => p.row \in ChatLinksOf(p.chat),
           p.pc \in {"resolve", "record", "seen", "route"} =>
              a \in Handlers /\ p.update \in DOMAIN message,
           p.pc \in {"record", "seen", "route"} => p.user \in Owners,
           p.pc = "seen" => /\ p.row # NoChatLink /\ p.since \in Codes
                            /\ p.since = chatLinks[p.row].since,
           clashes' \cap {"pairings", "message"} = {} /\ a \in Handlers =>
              /\ p.acts # NoOwner => p.acts = p.user
              /\ p.pc \in {"resolve", "record", "seen", "route"} => p.acts = NoOwner
              /\ p.pc \in {"record", "seen", "route"} =>
                    \E l \in ChatLinksOf(p.chat) : chatLinks[l].user = p.user
    PROVE  PairingTypeOK' /\ ActorsKnow' /\ PairingsApart' /\ SeenFresh' /\ LinkTruthful'
           /\ StillLinked' /\ OneIdentity'
<1> USE DEF PairingInv
<1>1. /\ actor' \in [Actors -> ActorRecord] /\ actor'[a] = p
      /\ \A b \in Actors : b # a => actor'[b] = actor[b]
    BY OthersAct
<1>2. /\ p.pc \in Stages /\ p.user \in Owners \cup {NoOwner} /\ p.acts \in Owners \cup {NoOwner}
    BY DEF ActorRecord
<1>3. PairingTypeOK'
    BY <1>1, <1>2 DEF PairingTypeOK, Stages
<1>4. \A c : ChatLinksOf(c)' = ChatLinksOf(c)
    BY DEF ChatLinksOf
<1>5. \A b \in Actors : b # a => (Consuming(b)' <=> Consuming(b))
    BY <1>1 DEF Consuming
<1>6. Consuming(a)' <=> p.pc \in {"mark", "find", "link"}
    BY <1>1 DEF Consuming
<1>7. ActorsKnow'
  <2>1. ASSUME NEW b \in Actors
        PROVE  /\ actor'[b].pc # "idle" => actor'[b].chat \in Chats
               /\ Consuming(b)' => actor'[b].code \in Codes
               /\ actor'[b].pc \in {"resolve", "record", "seen", "route"} =>
                     b \in Handlers /\ actor'[b].update \in DOMAIN message
               /\ actor'[b].pc \in {"record", "seen", "route"} => actor'[b].user \in Owners
               /\ actor'[b].pc = "seen" => actor'[b].row # NoChatLink /\ actor'[b].since \in Codes
               /\ actor'[b].pc \in {"seen", "link"} /\ actor'[b].row # NoChatLink =>
                     actor'[b].row \in ChatLinksOf(actor'[b].chat)
    <3>1. CASE b = a
        BY <1>1, <1>6, <3>1
    <3>2. CASE b # a
        BY <1>1, <1>5, <3>2 DEF ActorsKnow
    <3> QED BY <3>1, <3>2
  <2>2. \A b \in Actors : ChatLinksOf(actor[b].chat)' = ChatLinksOf(actor'[b].chat)
      BY DEF ChatLinksOf
  <2>3. DOMAIN message' \subseteq Updates /\ \A u \in DOMAIN message' : message'[u] \in MessageRecord
      BY DEF ActorsKnow
  <2> QED BY <1>1, <2>1, <2>2, <2>3 DEF ActorsKnow
<1>8. PairingsApart'
  <2> SUFFICES ASSUME "pairings" \notin clashes'
               PROVE  PairingsApart'
      BY DEF PairingsApart
  <2>1. "pairings" \notin clashes
      OBVIOUS
  <2>2. p.pc \in {"mark", "find", "link"} =>
           /\ codeState[p.code] = "unused"
           /\ \A b \in Actors \ {a} : Consuming(b) =>
                 actor[b].code # p.code /\ actor[b].chat # p.chat
      BY <2>1 DEF PairingsApart
  <2>3. \A b, c \in Actors : Consuming(b)' /\ Consuming(c)' /\ b # c =>
              actor'[b].code # actor'[c].code /\ actor'[b].chat # actor'[c].chat
    <3>1. ASSUME NEW b \in Actors, NEW c \in Actors, Consuming(b)', Consuming(c)', b # c
          PROVE  actor'[b].code # actor'[c].code /\ actor'[b].chat # actor'[c].chat
      <4>1. CASE b = a
          BY <1>1, <1>5, <1>6, <2>2, <3>1, <4>1
      <4>2. CASE c = a
          BY <1>1, <1>5, <1>6, <2>2, <3>1, <4>2
      <4>3. CASE b # a /\ c # a
          BY <1>1, <1>5, <2>1, <3>1, <4>3 DEF PairingsApart
      <4> QED BY <4>1, <4>2, <4>3
    <3> QED BY <3>1
  <2>4. \A b \in Actors : Consuming(b)' => codeState[actor'[b].code] = "unused"
      BY <1>1, <1>5, <1>6, <2>1, <2>2 DEF PairingsApart
  <2>5. \A b \in Actors : actor'[b].pc = "link" /\ actor'[b].row = NoChatLink =>
              ChatLinksOf(actor'[b].chat) = {}
      BY <1>1, <2>1 DEF PairingsApart
  <2>6. \A b \in Actors : ChatLinksOf(actor[b].chat)' = ChatLinksOf(actor'[b].chat)
      BY DEF ChatLinksOf
  <2>7. /\ \A k \in Codes : codeState[k] # "used" => pairedBy[k] = {}
        /\ \A k \in Codes : \A c, d \in pairedBy[k] : c = d
        /\ \A l, m \in DOMAIN chatLinks : chatLinks[l].chat = chatLinks[m].chat => l = m
      BY <2>1 DEF PairingsApart
  <2>8. /\ \A k \in Codes : codeState'[k] # "used" => pairedBy'[k] = {}
        /\ \A k \in Codes : \A c, d \in pairedBy'[k] : c = d
        /\ \A l, m \in DOMAIN chatLinks' : chatLinks'[l].chat = chatLinks'[m].chat => l = m
      BY <2>7
  <2>9. \A b \in Actors : Consuming(b)' => codeState'[actor'[b].code] = "unused"
      BY <2>4
  <2>10. \A b \in Actors : actor'[b].pc = "link" /\ actor'[b].row = NoChatLink =>
              ChatLinksOf(actor[b].chat)' = {}
      BY <2>5, <2>6
  <2> HIDE DEF PairingInv
  <2> QED BY <2>3, <2>8, <2>9, <2>10 DEF PairingsApart
<1>9. SeenFresh' /\ LinkTruthful'
    BY <1>1 DEF SeenFresh, LinkTruthful, Actors
<1>10. StillLinked' /\ OneIdentity'
  <2> SUFFICES ASSUME clashes' \cap {"pairings", "message"} = {}
               PROVE  StillLinked' /\ OneIdentity'
      BY DEF StillLinked, OneIdentity
  <2>1. clashes \cap {"pairings", "message"} = {}
      OBVIOUS
  <2>2. ASSUME NEW h \in Handlers
        PROVE  /\ actor'[h].pc \in {"idle", "resolve", "record", "seen", "route"} =>
                     actor'[h].acts = NoOwner
               /\ actor'[h].pc \in {"record", "seen", "route"} =>
                     \E l \in ChatLinksOf(actor'[h].chat) : chatLinks[l].user = actor'[h].user
               /\ actor'[h].acts # NoOwner => actor'[h].acts = actor'[h].user
    <3>1. CASE h = a
        BY <1>1, <3>1
    <3>2. CASE h # a
      <4>1. actor'[h] = actor[h]
          BY <1>1, <3>2 DEF Actors
      <4> QED BY <2>1, <4>1 DEF StillLinked, OneIdentity
    <3> QED BY <3>1, <3>2
  <2>3. \A h \in Handlers : ChatLinksOf(actor[h].chat)' = ChatLinksOf(actor'[h].chat)
      BY DEF ChatLinksOf
  <2> QED BY <2>2, <2>3 DEF StillLinked, OneIdentity
<1> QED BY <1>3, <1>7, <1>8, <1>9, <1>10

\* An actor that does not record leaves the updates recorded as often as they were.
LEMMA NotRecording ==
    ASSUME PairingInv, NEW a \in Actors, NEW p \in ActorRecord,
           actor' = [actor EXCEPT ![a] = p],
           recorded' = recorded, known' = known, clashes \subseteq clashes',
           p.pc \in {"resolve", "record", "seen"} =>
              actor[a].pc \in {"resolve", "record", "seen"} /\ p.update = actor[a].update
    PROVE  RecordingOnce' /\ RecordedOnce'
<1> USE DEF PairingInv
<1>1. /\ actor'[a] = p /\ \A b \in Actors : b # a => actor'[b] = actor[b]
    BY OthersAct
<1>2. \A h \in Handlers, u \in Updates : ToRecord(h, u)' => ToRecord(h, u)
    BY <1>1 DEF ToRecord, Actors
<1> QED BY <1>2 DEF RecordingOnce, RecordedOnce

\* A handler that records an update was the only one, and nobody is left.
LEMMA Recording ==
    ASSUME PairingInv, NEW h \in Handlers, NEW p \in ActorRecord,
           actor' = [actor EXCEPT ![h] = p],
           RecordMessage(h), known' = known, clashes' = clashes,
           actor[h].pc \in {"record", "seen"}, p.pc \in {"route", "done"}
    PROVE  RecordingOnce' /\ RecordedOnce' /\ recorded' \in [Updates -> Seq(Owners)]
<1> USE DEF PairingInv
<1>0. PICK u \in Updates : u = actor[h].update
    BY DEF Actors, ActorsKnow
<1>1. h \in Actors /\ u \in Updates /\ actor[h].user \in Owners
    BY DEF Actors, ActorsKnow
<1>2. /\ actor'[h] = p /\ \A b \in Actors : b # h => actor'[b] = actor[b]
    BY <1>1, OthersAct
<1>3. /\ recorded \in [Updates -> Seq(Owners)]
      /\ recorded' = [recorded EXCEPT ![u] = Append(recorded[u], actor[h].user)]
    BY <1>0 DEF RecordMessage, PairingTypeOK
<1>4. Append(recorded[u], actor[h].user) \in Seq(Owners)
    BY <1>1, <1>3, AppendProperties
<1>5. /\ recorded' \in [Updates -> Seq(Owners)]
      /\ recorded'[u] = Append(recorded[u], actor[h].user)
      /\ \A v \in Updates : v # u => recorded'[v] = recorded[v]
    BY <1>1, <1>3, <1>4
<1>6. \A g \in Handlers, v \in Updates : ToRecord(g, v)' => g # h /\ ToRecord(g, v)
    BY <1>2 DEF ToRecord, Actors
<1>7. ASSUME "redis" \notin clashes
      PROVE  /\ recorded[u] = <<>> /\ u \in known
             /\ \A g \in Handlers : ~ToRecord(g, u)'
  <2>1. ToRecord(h, u)
      BY <1>0 DEF ToRecord
  <2>2. /\ \A g \in Handlers : ToRecord(g, u) => g = h
        /\ recorded[u] = <<>> /\ u \in known
      BY <1>1, <1>7, <2>1 DEF RecordingOnce
  <2>3. \A g \in Handlers : ~ToRecord(g, u)'
      BY <1>1, <1>6, <2>2
  <2> QED BY <2>2, <2>3
<1>8. RecordingOnce'
  <2> SUFFICES ASSUME "redis" \notin clashes, NEW v \in Updates
               PROVE  /\ \A g, k \in Handlers : ToRecord(g, v)' /\ ToRecord(k, v)' => g = k
                      /\ \A k \in Handlers : ToRecord(k, v)' => recorded'[v] = <<>> /\ v \in known
                      /\ v \notin known => recorded'[v] = <<>>
      BY DEF RecordingOnce
  <2>1. CASE v = u
    <3>1. v \in known /\ \A g \in Handlers : ~ToRecord(g, v)'
        BY <1>7, <2>1
    <3> QED BY <3>1
  <2>2. CASE v # u
    <3>1. /\ \A g, k \in Handlers : ToRecord(g, v) /\ ToRecord(k, v) => g = k
          /\ \A k \in Handlers : ToRecord(k, v) => recorded[v] = <<>> /\ v \in known
          /\ v \notin known => recorded[v] = <<>>
        BY DEF RecordingOnce
    <3>2. recorded'[v] = recorded[v]
        BY <1>5, <2>2
    <3>3. \A g \in Handlers : ToRecord(g, v)' => ToRecord(g, v)
        BY <1>6
    <3> QED BY <3>1, <3>2, <3>3
  <2> QED BY <2>1, <2>2
<1>9. "redis" \notin clashes => Len(recorded'[u]) = 1
    BY <1>1, <1>3, <1>5, <1>7, AppendProperties
<1>10. RecordedOnce'
    BY <1>5, <1>9 DEF RecordedOnce
<1> QED BY <1>5, <1>8, <1>10

\* What one may cite of an actor without opening its record.
LEMMA ActorIs ==
    ASSUME PairingInv, NEW a \in Actors
    PROVE  /\ actor[a] \in ActorRecord
           /\ actor[a].row \in 0..Len(chatLinks)
           /\ actor[a].user \in Owners \cup {NoOwner} /\ actor[a].acts \in Owners \cup {NoOwner}
           /\ chatLinks \in Seq(AllChatLinks) /\ known \subseteq Updates
           /\ recorded \in [Updates -> Seq(Owners)]
           /\ clashes \subseteq {"pairings", "message", "redis"}
           /\ ChatLinksOf(actor[a].chat) \subseteq 1..Len(chatLinks)
BY DEF PairingInv, PairingTypeOK, ActorsKnow, ChatLinksOf, ActorRecord

\* A code that is generated, or expires, and an update that is sent, are nobody's yet.
LEMMA GenerateKeeps ==
    ASSUME PairingInv, NEW k \in Codes, Generate(k)
    PROVE  PairingInv'
<1> USE DEF PairingInv
<1>1. /\ codeState[k] = "none" /\ codeState' = [codeState EXCEPT ![k] = "unused"]
      /\ UNCHANGED <<expired, chatLinks, message, known, actor, recorded, pairedBy, clashes>>
    BY DEF Generate
<1>2. \A c \in Codes : codeState'[c] = IF c = k THEN "unused" ELSE codeState[c]
    BY <1>1 DEF PairingTypeOK
<1>3. PairingTypeOK'
    BY <1>1 DEF PairingTypeOK
<1>4. ActorsKnow'
    BY <1>1 DEF ActorsKnow, Consuming, ChatLinksOf
<1>5. PairingsApart'
  <2> SUFFICES ASSUME "pairings" \notin clashes
               PROVE  PairingsApart'
      BY <1>1 DEF PairingsApart
  <2>1. \A a \in Actors : Consuming(a) => codeState'[actor[a].code] = "unused"
      BY <1>1, <1>2 DEF PairingsApart, ActorsKnow
  <2>2. \A c \in Codes : codeState'[c] # "used" => pairedBy[c] = {}
      BY <1>1, <1>2 DEF PairingsApart
  <2> QED BY <1>1, <2>1, <2>2 DEF PairingsApart, Consuming, ChatLinksOf
<1>6. SeenFresh' /\ LinkTruthful' /\ RecordingOnce' /\ RecordedOnce' /\ StillLinked' /\ OneIdentity'
    BY <1>1 DEF SeenFresh, LinkTruthful, RecordingOnce, RecordedOnce, StillLinked, OneIdentity,
                ToRecord, ChatLinksOf
<1> QED BY <1>3, <1>4, <1>5, <1>6

LEMMA ExpireKeeps ==
    ASSUME PairingInv, NEW k \in Codes, Expire(k)
    PROVE  PairingInv'
<1>1. /\ expired' = expired \cup {k}
      /\ UNCHANGED <<codeState, chatLinks, message, known, actor, recorded, pairedBy, clashes>>
    BY DEF Expire
<1> QED BY <1>1
    DEF PairingInv, PairingTypeOK, ActorsKnow, PairingsApart, SeenFresh, LinkTruthful, RecordingOnce,
        RecordedOnce, StillLinked, OneIdentity, ToRecord, ChatLinksOf, Consuming

LEMMA SendUpdateKeeps ==
    ASSUME PairingInv, NEW u \in Updates, SendUpdate(u)
    PROVE  PairingInv'
<1> USE DEF PairingInv
<1>1. PICK chat \in Chats, kind \in MessageKinds, k \in Codes \cup {NoCode} :
         /\ message' = [v \in DOMAIN message \cup {u} |->
                          IF v = u THEN [chat |-> chat, kind |-> kind, code |-> k] ELSE message[v]]
         /\ UNCHANGED <<codeState, expired, chatLinks, known, actor, recorded, pairedBy, clashes>>
  <2>1. PICK chat \in Chats, kind \in MessageKinds, j \in Codes :
           /\ message' = [v \in DOMAIN message \cup {u} |->
                            IF v = u THEN [chat |-> chat, kind |-> kind,
                                           code |-> IF kind = "pair" THEN j ELSE NoCode]
                            ELSE message[v]]
           /\ UNCHANGED <<codeState, expired, chatLinks, known, actor, recorded, pairedBy, clashes>>
      BY DEF SendUpdate
  <2>2. CASE kind = "pair"
    <3> WITNESS chat \in Chats, kind \in MessageKinds, j \in Codes \cup {NoCode}
    <3> QED BY <2>1, <2>2
  <2>3. CASE kind # "pair"
    <3> WITNESS chat \in Chats, kind \in MessageKinds, NoCode \in Codes \cup {NoCode}
    <3> QED BY <2>1, <2>3
  <2> QED BY <2>2, <2>3
<1>2. [chat |-> chat, kind |-> kind, code |-> k] \in MessageRecord
    BY DEF MessageRecord
<1>3. /\ DOMAIN message' = DOMAIN message \cup {u}
      /\ \A v \in DOMAIN message' : message'[v] \in MessageRecord
    BY <1>1, <1>2 DEF ActorsKnow
<1>4. PairingTypeOK'
    BY <1>1, <1>3 DEF PairingTypeOK, MessageRecord
<1>5. ActorsKnow'
    BY <1>1, <1>3 DEF ActorsKnow, ChatLinksOf, Consuming
<1>6. PairingsApart'
    BY <1>1 DEF PairingsApart, ChatLinksOf, Consuming
<1>7. SeenFresh' /\ LinkTruthful' /\ RecordingOnce' /\ RecordedOnce' /\ StillLinked' /\ OneIdentity'
    BY <1>1 DEF SeenFresh, LinkTruthful, RecordingOnce, RecordedOnce, StillLinked, OneIdentity,
                ToRecord, ChatLinksOf
<1> QED BY <1>4, <1>5, <1>6, <1>7

\* What At and a step to another stage make of an actor.
LEMMA AtIs ==
    ASSUME NEW pc \in Stages, NEW u \in Updates \cup {NoUpdate}, NEW chat \in Chats,
           NEW k \in Codes \cup {NoCode}
    PROVE  /\ At(pc, u, chat, k) \in ActorRecord
           /\ At(pc, u, chat, k).pc = pc /\ At(pc, u, chat, k).update = u
           /\ At(pc, u, chat, k).chat = chat /\ At(pc, u, chat, k).code = k
           /\ At(pc, u, chat, k).user = NoOwner /\ At(pc, u, chat, k).acts = NoOwner
           /\ At(pc, u, chat, k).row = NoChatLink
BY DEF At, ActorRecord, NoChatLink

LEMMA GoesIs ==
    ASSUME PairingInv, NEW a \in Actors, NEW pc \in Stages, Goes(a, pc)
    PROVE  \E p \in ActorRecord :
              /\ actor' = [actor EXCEPT ![a] = p]
              /\ p.pc = pc /\ p.update = actor[a].update /\ p.chat = actor[a].chat
              /\ p.code = actor[a].code /\ p.user = actor[a].user /\ p.acts = actor[a].acts
              /\ p.row = actor[a].row /\ p.since = actor[a].since
<1> DEFINE p == [actor[a] EXCEPT !.pc = pc]
<1>1. actor[a] \in ActorRecord
    BY ActorIs
<1>2. /\ p \in ActorRecord
      /\ p.pc = pc /\ p.update = actor[a].update /\ p.chat = actor[a].chat
      /\ p.code = actor[a].code /\ p.user = actor[a].user /\ p.acts = actor[a].acts
      /\ p.row = actor[a].row /\ p.since = actor[a].since
    BY <1>1 DEF ActorRecord
<1>3. actor' = [actor EXCEPT ![a] = p]
    BY DEF Goes
<1> QED BY <1>2, <1>3

LEMMA LinkBeginKeeps ==
    ASSUME PairingInv, NEW a \in LinkCalls, LinkBegin(a)
    PROVE  PairingInv'
<1>1. PICK chat \in Chats, k \in Codes :
         /\ actor' = [actor EXCEPT ![a] = At("consume", NoUpdate, chat, k)]
         /\ UNCHANGED <<codeState, expired, chatLinks, message, known, recorded, pairedBy, clashes>>
    BY DEF LinkBegin
<1> DEFINE p == At("consume", NoUpdate, chat, k)
<1>2. a \in Actors /\ "consume" \in Stages
    BY DEF Actors, Stages
<1>3. /\ p \in ActorRecord /\ p.pc = "consume" /\ p.chat = chat /\ p.row = NoChatLink
      /\ p.user = NoOwner /\ p.acts = NoOwner
    BY <1>2, AtIs
<1>4. /\ p.row \in 0..Len(chatLinks) /\ known \subseteq Updates
      /\ recorded \in [Updates -> Seq(Owners)] /\ clashes \subseteq {"pairings", "message", "redis"}
    BY <1>2, <1>3, ActorIs, LenProperties DEF NoChatLink
<1> HIDE DEF p
<1>5. actor' = [actor EXCEPT ![a] = p]
    BY <1>1 DEF p
<1>6. PairingTypeOK' /\ ActorsKnow' /\ PairingsApart' /\ SeenFresh' /\ LinkTruthful'
      /\ StillLinked' /\ OneIdentity'
    BY <1>1, <1>2, <1>3, <1>4, <1>5, MoveKeeps
<1>7. RecordingOnce' /\ RecordedOnce'
    BY <1>1, <1>2, <1>3, <1>5, NotRecording
<1> QED BY <1>6, <1>7 DEF PairingInv

LEMMA ReadCodeKeeps ==
    ASSUME PairingInv, NEW a \in Actors, ReadCode(a)
    PROVE  PairingInv'
<1>1. /\ actor[a].pc = "consume" /\ {"mark", "done"} \subseteq Stages
      /\ UNCHANGED <<codeState, expired, chatLinks, message, known, recorded, pairedBy>>
    BY DEF ReadCode, Stages
<1>2. /\ actor[a].row \in 0..Len(chatLinks) /\ known \subseteq Updates /\ actor[a].chat \in Chats
      /\ recorded \in [Updates -> Seq(Owners)] /\ clashes \subseteq {"pairings", "message", "redis"}
    BY <1>1, ActorIs DEF PairingInv, ActorsKnow
<1>3. a \in Handlers /\ clashes \cap {"pairings", "message"} = {} /\ actor[a].acts # NoOwner
         => actor[a].acts = actor[a].user
    BY DEF PairingInv, OneIdentity
<1>4. CASE actor[a].code \in Codes /\ Usable(actor[a].code)
  <2>1. PICK p \in ActorRecord :
           /\ actor' = [actor EXCEPT ![a] = p]
           /\ p.pc = "mark" /\ p.update = actor[a].update /\ p.chat = actor[a].chat
           /\ p.code = actor[a].code /\ p.user = actor[a].user /\ p.acts = actor[a].acts
           /\ p.row = actor[a].row /\ p.since = actor[a].since
      BY <1>1, <1>4, GoesIs DEF ReadCode
  <2>2. clashes' = clashes \cup (IF \E b \in Actors \ {a} : Meets(a, b) THEN {"pairings"} ELSE {})
      BY <1>4 DEF ReadCode
  <2>3. /\ clashes \subseteq clashes' /\ clashes' \subseteq {"pairings", "message", "redis"}
        /\ "pairings" \notin clashes' => \A b \in Actors \ {a} : Consuming(b) =>
                          actor[b].code # p.code /\ actor[b].chat # p.chat
      BY <1>2, <2>1, <2>2 DEF Meets
  <2>4. codeState[p.code] = "unused" /\ p.code \in Codes
      BY <1>4, <2>1 DEF Usable
  <2>5. /\ p.pc = "mark" /\ p.chat \in Chats /\ p.row \in 0..Len(chatLinks)
        /\ clashes' \cap {"pairings", "message"} = {} /\ a \in Handlers =>
              (p.acts # NoOwner => p.acts = p.user)
      BY <1>2, <1>3, <2>1, <2>3
  <2>6. PairingTypeOK' /\ ActorsKnow' /\ PairingsApart' /\ SeenFresh' /\ LinkTruthful'
        /\ StillLinked' /\ OneIdentity'
    <3>1. /\ UNCHANGED <<codeState, expired, chatLinks, message, pairedBy>>
          /\ known' \subseteq Updates /\ recorded' \in [Updates -> Seq(Owners)]
        BY <1>1, <1>2
    <3>2. actor' = [actor EXCEPT ![a] = p]
        BY <2>1
    <3> QED BY <2>3, <2>4, <2>5, <3>1, <3>2, MoveKeeps
  <2>7. RecordingOnce' /\ RecordedOnce'
      BY <1>1, <2>1, <2>3, NotRecording
  <2> QED BY <2>6, <2>7 DEF PairingInv
<1>5. CASE ~(actor[a].code \in Codes /\ Usable(actor[a].code))
  <2>1. PICK p \in ActorRecord :
           /\ actor' = [actor EXCEPT ![a] = p]
           /\ p.pc = "done" /\ p.update = actor[a].update /\ p.chat = actor[a].chat
           /\ p.code = actor[a].code /\ p.user = actor[a].user /\ p.acts = actor[a].acts
           /\ p.row = actor[a].row /\ p.since = actor[a].since
      BY <1>1, <1>5, GoesIs DEF ReadCode
  <2>2. clashes' = clashes
      BY <1>5 DEF ReadCode
  <2>3. PairingTypeOK' /\ ActorsKnow' /\ PairingsApart' /\ SeenFresh' /\ LinkTruthful'
        /\ StillLinked' /\ OneIdentity'
    <3>1. /\ p.pc = "done" /\ p.chat \in Chats /\ p.row \in 0..Len(chatLinks)
          /\ clashes' \cap {"pairings", "message"} = {} /\ a \in Handlers =>
                (p.acts # NoOwner => p.acts = p.user)
        BY <1>2, <1>3, <2>1, <2>2
    <3> QED BY <1>1, <1>2, <2>1, <2>2, <3>1, MoveKeeps
  <2>4. RecordingOnce' /\ RecordedOnce'
      BY <1>1, <2>1, <2>2, NotRecording
  <2> QED BY <2>3, <2>4 DEF PairingInv
<1> QED BY <1>4, <1>5

LEMMA MarkCodeKeeps ==
    ASSUME PairingInv, NEW a \in Actors, MarkCode(a)
    PROVE  PairingInv'
<1>1. /\ actor[a].pc = "mark" /\ Goes(a, "find") /\ "find" \in Stages
      /\ UNCHANGED <<codeState, expired, chatLinks, message, known, recorded, pairedBy, clashes>>
    BY DEF MarkCode, Stages
<1>2. PICK p \in ActorRecord :
         /\ actor' = [actor EXCEPT ![a] = p]
         /\ p.pc = "find" /\ p.update = actor[a].update /\ p.chat = actor[a].chat
         /\ p.code = actor[a].code /\ p.user = actor[a].user /\ p.acts = actor[a].acts
         /\ p.row = actor[a].row /\ p.since = actor[a].since
    BY <1>1, GoesIs
<1>3. /\ actor[a].row \in 0..Len(chatLinks) /\ known \subseteq Updates /\ actor[a].chat \in Chats
      /\ recorded \in [Updates -> Seq(Owners)] /\ clashes \subseteq {"pairings", "message", "redis"}
      /\ Consuming(a) /\ actor[a].code \in Codes
    BY <1>1, ActorIs DEF PairingInv, ActorsKnow, Consuming
<1>4. a \in Handlers /\ clashes \cap {"pairings", "message"} = {} /\ actor[a].acts # NoOwner
         => actor[a].acts = actor[a].user
    BY DEF PairingInv, OneIdentity
<1>5. PairingTypeOK' /\ ActorsKnow' /\ PairingsApart' /\ SeenFresh' /\ LinkTruthful'
      /\ StillLinked' /\ OneIdentity'
    BY <1>1, <1>2, <1>3, <1>4, MoveKeeps
<1>6. RecordingOnce' /\ RecordedOnce'
    BY <1>1, <1>2, NotRecording
<1> QED BY <1>5, <1>6 DEF PairingInv

\* The link found is one of the chat; none is found only if there is none.
LEMMA FindLinkKeeps ==
    ASSUME PairingInv, NEW a \in Actors, FindLink(a)
    PROVE  PairingInv'
<1> DEFINE q == actor[a]
<1>1. /\ q.pc = "find" /\ q \in ActorRecord
      /\ UNCHANGED <<codeState, expired, chatLinks, message, known, recorded, pairedBy, clashes>>
    BY ActorIs DEF FindLink
<1>2. /\ known \subseteq Updates /\ q.chat \in Chats
      /\ recorded \in [Updates -> Seq(Owners)] /\ clashes \subseteq {"pairings", "message", "redis"}
      /\ Consuming(a) /\ q.code \in Codes
      /\ chatLinks \in Seq(AllChatLinks) /\ ChatLinksOf(q.chat) \subseteq 1..Len(chatLinks)
    BY <1>1, ActorIs DEF PairingInv, ActorsKnow, Consuming
<1>3. PICK l \in IF ChatLinksOf(q.chat) = {} THEN {NoChatLink} ELSE ChatLinksOf(q.chat) :
         actor' = [actor EXCEPT ![a].pc = "link", ![a].row = l]
    BY DEF FindLink
<1>4. /\ l \in 0..Len(chatLinks) /\ l \in Nat
      /\ l = NoChatLink => ChatLinksOf(q.chat) = {}
      /\ l # NoChatLink => l \in ChatLinksOf(q.chat)
    BY <1>2, <1>3, LenProperties DEF NoChatLink
<1>5. PICK p \in ActorRecord :
         /\ actor' = [actor EXCEPT ![a] = p]
         /\ p.pc = "link" /\ p.row = l /\ p.chat = q.chat /\ p.code = q.code
         /\ p.user = q.user /\ p.acts = q.acts
  <2> DEFINE r == [q EXCEPT !.pc = "link", !.row = l]
  <2>1. /\ r \in ActorRecord /\ r.pc = "link" /\ r.row = l /\ r.chat = q.chat /\ r.code = q.code
        /\ r.user = q.user /\ r.acts = q.acts
      BY <1>1, <1>4 DEF ActorRecord, Stages
  <2>2. actor' = [actor EXCEPT ![a] = r]
      BY <1>3 DEF PairingInv, ActorsKnow
  <2> QED BY <2>1, <2>2
<1>6. a \in Handlers /\ clashes \cap {"pairings", "message"} = {} /\ q.acts # NoOwner
         => q.acts = q.user
    BY DEF PairingInv, OneIdentity
<1>7. PairingTypeOK' /\ ActorsKnow' /\ PairingsApart' /\ SeenFresh' /\ LinkTruthful'
      /\ StillLinked' /\ OneIdentity'
    BY <1>1, <1>2, <1>4, <1>5, <1>6, MoveKeeps
<1>8. RecordingOnce' /\ RecordedOnce'
    BY <1>1, <1>5, NotRecording
<1> QED BY <1>7, <1>8 DEF PairingInv

\* What one may cite of a handler on its way.
LEMMA HandlerIs ==
    ASSUME PairingInv, NEW h \in Handlers, actor[h].pc \in {"resolve", "record", "seen", "route"}
    PROVE  /\ h \in Actors /\ actor[h].chat \in Chats
           /\ actor[h].update \in DOMAIN message /\ actor[h].update \in Updates
           /\ actor[h].pc # "resolve" => actor[h].user \in Owners
           /\ clashes \cap {"pairings", "message"} = {} =>
                 /\ actor[h].acts = NoOwner
                 /\ actor[h].pc # "resolve" =>
                       \E l \in ChatLinksOf(actor[h].chat) : chatLinks[l].user = actor[h].user
BY DEF PairingInv, ActorsKnow, StillLinked, Actors

LEMMA ReceiveUpdateKeeps ==
    ASSUME PairingInv, NEW h \in Handlers, ReceiveUpdate(h)
    PROVE  PairingInv'
<1>1. PICK u \in DOMAIN message, pc \in {"resolve", "done"} :
         /\ actor[h].pc = "idle"
         /\ \/ u \in known /\ pc = "done" /\ UNCHANGED <<known, clashes>>
            \/ u \notin known /\ known' = known \cup {u} /\ UNCHANGED clashes
            \/ UNCHANGED known /\ clashes' = clashes \cup {"redis"}
         /\ actor' = [actor EXCEPT ![h] = At(pc, u, message[u].chat, message[u].code)]
         /\ UNCHANGED <<codeState, expired, chatLinks, message, recorded, pairedBy>>
    BY DEF ReceiveUpdate, Duplicate
<1>2. /\ h \in Actors /\ u \in Updates /\ pc \in Stages
      /\ message[u].chat \in Chats /\ message[u].code \in Codes \cup {NoCode}
    BY DEF Actors, PairingInv, ActorsKnow, MessageRecord, Stages
<1> DEFINE p == At(pc, u, message[u].chat, message[u].code)
<1>3. /\ p \in ActorRecord /\ p.pc = pc /\ p.update = u /\ p.chat = message[u].chat
      /\ p.user = NoOwner /\ p.acts = NoOwner /\ p.row = NoChatLink
    BY <1>2, AtIs
<1>4. /\ p.row \in 0..Len(chatLinks) /\ known \subseteq Updates
      /\ recorded \in [Updates -> Seq(Owners)] /\ clashes \subseteq {"pairings", "message", "redis"}
    BY <1>2, <1>3, ActorIs, LenProperties DEF NoChatLink
<1> HIDE DEF p
<1>5. actor' = [actor EXCEPT ![h] = p]
    BY <1>1 DEF p
<1>6. /\ known' \subseteq Updates /\ known \subseteq known'
      /\ clashes \subseteq clashes' /\ clashes' \subseteq {"pairings", "message", "redis"}
    BY <1>1, <1>2, <1>4
<1>7. PairingTypeOK' /\ ActorsKnow' /\ PairingsApart' /\ SeenFresh' /\ LinkTruthful'
      /\ StillLinked' /\ OneIdentity'
    BY <1>1, <1>2, <1>3, <1>4, <1>5, <1>6, MoveKeeps
<1>8. /\ actor'[h] = p /\ \A b \in Actors : b # h => actor'[b] = actor[b]
    BY <1>2, <1>3, <1>5, OthersAct DEF PairingInv
<1>9. RecordedOnce'
    BY <1>1, <1>6 DEF PairingInv, RecordedOnce
<1>10. RecordingOnce'
  <2> SUFFICES ASSUME "redis" \notin clashes', NEW v \in Updates
               PROVE  /\ \A g, k \in Handlers : ToRecord(g, v)' /\ ToRecord(k, v)' => g = k
                      /\ \A k \in Handlers : ToRecord(k, v)' => recorded'[v] = <<>> /\ v \in known'
                      /\ v \notin known' => recorded'[v] = <<>>
      BY DEF RecordingOnce
  <2>1. /\ \A g, k \in Handlers : ToRecord(g, v) /\ ToRecord(k, v) => g = k
        /\ \A k \in Handlers : ToRecord(k, v) => recorded[v] = <<>> /\ v \in known
        /\ v \notin known => recorded[v] = <<>>
      BY <1>6 DEF PairingInv, RecordingOnce
  <2>2. \A g \in Handlers : g # h => (ToRecord(g, v)' <=> ToRecord(g, v))
      BY <1>8 DEF ToRecord, Actors
  <2>3. ToRecord(h, v)' => v = u /\ pc = "resolve" /\ u \notin known /\ u \in known'
      BY <1>1, <1>3, <1>8 DEF ToRecord
  <2> QED BY <1>1, <1>6, <2>1, <2>2, <2>3
<1> QED BY <1>7, <1>9, <1>10 DEF PairingInv

LEMMA ResolveKeeps ==
    ASSUME PairingInv, NEW h \in Handlers, Resolve(h)
    PROVE  PairingInv'
<1> DEFINE q == actor[h]
<1>1. /\ q.pc = "resolve"
      /\ UNCHANGED <<codeState, expired, chatLinks, message, known, recorded, pairedBy, clashes>>
    BY DEF Resolve
<1>2. /\ h \in Actors /\ q.chat \in Chats /\ q.update \in DOMAIN message
      /\ clashes \cap {"pairings", "message"} = {} => q.acts = NoOwner
    BY <1>1, HandlerIs
<1>3. /\ known \subseteq Updates /\ q.row \in 0..Len(chatLinks) /\ q \in ActorRecord
      /\ recorded \in [Updates -> Seq(Owners)] /\ clashes \subseteq {"pairings", "message", "redis"}
      /\ chatLinks \in Seq(AllChatLinks) /\ ChatLinksOf(q.chat) \subseteq 1..Len(chatLinks)
    BY <1>2, ActorIs
<1>4. \E p \in ActorRecord :
         /\ actor' = [actor EXCEPT ![h] = p]
         /\ p.update = q.update /\ p.chat = q.chat /\ p.acts = q.acts /\ p.row = q.row
         /\ \/ p.pc = "oriented"
            \/ p.pc = "record" /\ p.user \in Owners /\ \E l \in ChatLinksOf(q.chat) : p.user = chatLinks[l].user
  <2>1. CASE Goes(h, "oriented")
    <3>1. "oriented" \in Stages
        BY DEF Stages
    <3> QED BY <1>2, <2>1, <3>1, GoesIs
  <2>2. ASSUME NEW l \in ChatLinksOf(q.chat),
               actor' = [actor EXCEPT ![h].pc = "record", ![h].user = chatLinks[l].user]
        PROVE  \E p \in ActorRecord :
                  /\ actor' = [actor EXCEPT ![h] = p]
                  /\ p.update = q.update /\ p.chat = q.chat /\ p.acts = q.acts /\ p.row = q.row
                  /\ p.pc = "record" /\ p.user \in Owners /\ p.user = chatLinks[l].user
    <3> DEFINE r == [q EXCEPT !.pc = "record", !.user = chatLinks[l].user]
    <3>1. chatLinks[l] \in AllChatLinks
        BY <1>3, LenProperties
    <3>2. chatLinks[l].user \in Owners
        BY <3>1 DEF AllChatLinks
    <3>3. /\ r \in ActorRecord /\ r.pc = "record" /\ r.user = chatLinks[l].user
          /\ r.update = q.update /\ r.chat = q.chat /\ r.acts = q.acts /\ r.row = q.row
        BY <1>3, <3>2 DEF ActorRecord, Stages
    <3>4. actor' = [actor EXCEPT ![h] = r]
        BY <2>2 DEF PairingInv, ActorsKnow
    <3> QED BY <3>2, <3>3, <3>4
  <2> QED BY <2>1, <2>2 DEF Resolve
<1>5. PICK p \in ActorRecord :
         /\ actor' = [actor EXCEPT ![h] = p]
         /\ p.update = q.update /\ p.chat = q.chat /\ p.acts = q.acts /\ p.row = q.row
         /\ \/ p.pc = "oriented"
            \/ p.pc = "record" /\ p.user \in Owners /\ \E l \in ChatLinksOf(q.chat) : p.user = chatLinks[l].user
    BY <1>4
<1>6. clashes \cap {"pairings", "message"} = {} /\ p.acts # NoOwner => p.acts = p.user
    BY <1>2, <1>5
<1>7. PairingTypeOK' /\ ActorsKnow' /\ PairingsApart' /\ SeenFresh' /\ LinkTruthful'
      /\ StillLinked' /\ OneIdentity'
    BY <1>1, <1>2, <1>3, <1>5, <1>6, MoveKeeps
<1>8. RecordingOnce' /\ RecordedOnce'
    BY <1>1, <1>2, <1>5, NotRecording
<1> QED BY <1>7, <1>8 DEF PairingInv

\* The user found again is the one found before: the chat has one link.
LEMMA RouteMessageKeeps ==
    ASSUME PairingInv, NEW h \in Handlers, RouteMessage(h)
    PROVE  PairingInv'
<1> DEFINE q == actor[h]
<1>1. /\ q.pc = "route"
      /\ UNCHANGED <<codeState, expired, chatLinks, message, known, recorded, pairedBy, clashes>>
    BY DEF RouteMessage
<1>2. /\ h \in Actors /\ q.chat \in Chats
      /\ clashes \cap {"pairings", "message"} = {} =>
            /\ q.acts = NoOwner
            /\ \E l \in ChatLinksOf(q.chat) : chatLinks[l].user = q.user
    BY <1>1, HandlerIs
<1>3. /\ known \subseteq Updates /\ q.row \in 0..Len(chatLinks) /\ q \in ActorRecord
      /\ recorded \in [Updates -> Seq(Owners)] /\ clashes \subseteq {"pairings", "message", "redis"}
      /\ chatLinks \in Seq(AllChatLinks) /\ ChatLinksOf(q.chat) \subseteq 1..Len(chatLinks)
    BY <1>2, ActorIs
<1>4. "pairings" \notin clashes =>
         \A l, m \in ChatLinksOf(q.chat) : l = m
    BY DEF PairingInv, PairingsApart, ChatLinksOf
<1>5. \E p \in ActorRecord :
         /\ actor' = [actor EXCEPT ![h] = p]
         /\ p.chat = q.chat /\ p.user = q.user /\ p.row = q.row /\ p.pc \in {"consume", "done"}
         /\ p.acts = q.acts \/ \E l \in ChatLinksOf(q.chat) : p.acts = chatLinks[l].user
  <2>1. ASSUME Goes(h, "done")
        PROVE  \E p \in ActorRecord :
                  /\ actor' = [actor EXCEPT ![h] = p]
                  /\ p.chat = q.chat /\ p.user = q.user /\ p.row = q.row /\ p.pc = "done"
                  /\ p.acts = q.acts
    <3>1. "done" \in Stages
        BY DEF Stages
    <3> QED BY <1>2, <2>1, <3>1, GoesIs
  <2>2. ASSUME NEW l \in ChatLinksOf(q.chat), NEW pc \in {"consume", "done"},
               actor' = [actor EXCEPT ![h].acts = chatLinks[l].user, ![h].pc = pc]
        PROVE  \E p \in ActorRecord :
                  /\ actor' = [actor EXCEPT ![h] = p]
                  /\ p.chat = q.chat /\ p.user = q.user /\ p.row = q.row /\ p.pc \in {"consume", "done"}
                  /\ p.acts = chatLinks[l].user
    <3> DEFINE r == [q EXCEPT !.acts = chatLinks[l].user, !.pc = pc]
    <3>1. chatLinks[l] \in AllChatLinks
        BY <1>3, LenProperties
    <3>2. chatLinks[l].user \in Owners
        BY <3>1 DEF AllChatLinks
    <3>3. /\ r \in ActorRecord /\ r.pc = pc /\ r.acts = chatLinks[l].user
          /\ r.user = q.user /\ r.chat = q.chat /\ r.row = q.row
        BY <1>3, <3>2 DEF ActorRecord, Stages
    <3>4. actor' = [actor EXCEPT ![h] = r]
        BY <2>2 DEF PairingInv, ActorsKnow
    <3> QED BY <3>3, <3>4
  <2>3. \/ Goes(h, "done")
        \/ \E l \in ChatLinksOf(q.chat), pc \in {"consume", "done"} :
              actor' = [actor EXCEPT ![h].acts = chatLinks[l].user, ![h].pc = pc]
      BY DEF RouteMessage
  <2>4. CASE Goes(h, "done")
      BY <2>1, <2>4
  <2>5. ASSUME NEW l \in ChatLinksOf(q.chat), NEW pc \in {"consume", "done"},
               actor' = [actor EXCEPT ![h].acts = chatLinks[l].user, ![h].pc = pc]
        PROVE  \E p \in ActorRecord :
                  /\ actor' = [actor EXCEPT ![h] = p]
                  /\ p.chat = q.chat /\ p.user = q.user /\ p.row = q.row /\ p.pc \in {"consume", "done"}
                  /\ p.acts = q.acts \/ \E k \in ChatLinksOf(q.chat) : p.acts = chatLinks[k].user
    <3>1. PICK p \in ActorRecord :
             /\ actor' = [actor EXCEPT ![h] = p]
             /\ p.chat = q.chat /\ p.user = q.user /\ p.row = q.row /\ p.pc \in {"consume", "done"}
             /\ p.acts = chatLinks[l].user
        BY <2>2, <2>5
    <3> QED BY <3>1
  <2> QED BY <2>3, <2>4, <2>5
<1>6. PICK p \in ActorRecord :
         /\ actor' = [actor EXCEPT ![h] = p]
         /\ p.chat = q.chat /\ p.user = q.user /\ p.row = q.row /\ p.pc \in {"consume", "done"}
         /\ p.acts = q.acts \/ \E l \in ChatLinksOf(q.chat) : p.acts = chatLinks[l].user
    BY <1>5
<1>7. clashes \cap {"pairings", "message"} = {} /\ p.acts # NoOwner => p.acts = p.user
    BY <1>2, <1>4, <1>6
<1>8. PairingTypeOK' /\ ActorsKnow' /\ PairingsApart' /\ SeenFresh' /\ LinkTruthful'
      /\ StillLinked' /\ OneIdentity'
    BY <1>1, <1>2, <1>3, <1>6, <1>7, MoveKeeps
<1>9. RecordingOnce' /\ RecordedOnce'
    BY <1>1, <1>2, <1>6, NotRecording
<1> QED BY <1>8, <1>9 DEF PairingInv

LEMMA RecordsAndGoes ==
    ASSUME PairingInv, NEW h \in Handlers, NEW pc \in {"route", "done"},
           actor[h].pc = "record", RecordMessage(h), Goes(h, pc),
           UNCHANGED <<codeState, expired, chatLinks, message, known, pairedBy, clashes>>
    PROVE  PairingInv'
<1> DEFINE q == actor[h]
<1>1. /\ h \in Actors /\ q.chat \in Chats /\ q.update \in DOMAIN message /\ q.user \in Owners
      /\ clashes \cap {"pairings", "message"} = {} =>
            /\ q.acts = NoOwner
            /\ \E l \in ChatLinksOf(q.chat) : chatLinks[l].user = q.user
    BY HandlerIs
<1>2. /\ known \subseteq Updates /\ q.row \in 0..Len(chatLinks)
      /\ clashes \subseteq {"pairings", "message", "redis"} /\ pc \in Stages
    BY <1>1, ActorIs DEF Stages
<1>3. PICK p \in ActorRecord :
         /\ actor' = [actor EXCEPT ![h] = p]
         /\ p.pc = pc /\ p.update = q.update /\ p.chat = q.chat /\ p.code = q.code
         /\ p.user = q.user /\ p.acts = q.acts /\ p.row = q.row /\ p.since = q.since
    BY <1>1, <1>2, GoesIs
<1>4. RecordingOnce' /\ RecordedOnce' /\ recorded' \in [Updates -> Seq(Owners)]
    BY <1>3, Recording
<1>5. clashes' \cap {"pairings", "message"} = {} =>
         /\ p.acts = NoOwner
         /\ \E l \in ChatLinksOf(p.chat) : chatLinks[l].user = p.user
    BY <1>1, <1>3
<1>6. p.pc \notin {"idle", "mark", "find", "link", "seen", "resolve"} /\ p.chat \in Chats
      /\ p.row \in 0..Len(chatLinks) /\ p.update \in DOMAIN message /\ p.user \in Owners
    BY <1>1, <1>2, <1>3
<1>7. PairingTypeOK' /\ ActorsKnow' /\ PairingsApart' /\ SeenFresh' /\ LinkTruthful'
      /\ StillLinked' /\ OneIdentity'
    BY <1>1, <1>2, <1>3, <1>4, <1>5, <1>6, MoveKeeps
<1> QED BY <1>4, <1>7 DEF PairingInv

LEMMA RecordVoiceKeeps ==
    ASSUME PairingInv, NEW h \in Handlers, RecordVoice(h)
    PROVE  PairingInv'
<1>1. PICK pc \in {"route", "done"} : actor[h].pc = "record" /\ RecordMessage(h) /\ Goes(h, pc)
    BY DEF RecordVoice
<1>2. UNCHANGED <<codeState, expired, chatLinks, message, known, pairedBy, clashes>>
    BY DEF RecordVoice
<1> QED BY <1>1, <1>2, RecordsAndGoes

\* Without a link of its user, the message is recorded and nothing written back.
LEMMA RecordTextKeeps ==
    ASSUME PairingInv, NEW h \in Handlers, RecordText(h)
    PROVE  PairingInv'
<1> DEFINE q == actor[h]
<1>1. /\ q.pc = "record"
      /\ UNCHANGED <<codeState, expired, chatLinks, message, known, pairedBy, clashes>>
    BY DEF RecordText
<1>2. CASE Goes(h, "route") /\ RecordMessage(h)
    BY <1>1, <1>2, RecordsAndGoes
<1>3. ASSUME NEW l \in Mine(h), UNCHANGED recorded,
             actor' = [actor EXCEPT ![h].pc = "seen", ![h].row = l, ![h].since = chatLinks[l].since]
      PROVE  PairingInv'
  <2>1. /\ h \in Actors /\ q.chat \in Chats /\ q.update \in DOMAIN message /\ q.user \in Owners
        /\ clashes \cap {"pairings", "message"} = {} =>
              /\ q.acts = NoOwner
              /\ \E k \in ChatLinksOf(q.chat) : chatLinks[k].user = q.user
      BY <1>1, HandlerIs
  <2>2. /\ known \subseteq Updates /\ q \in ActorRecord
        /\ recorded \in [Updates -> Seq(Owners)] /\ clashes \subseteq {"pairings", "message", "redis"}
        /\ chatLinks \in Seq(AllChatLinks) /\ ChatLinksOf(q.chat) \subseteq 1..Len(chatLinks)
      BY <2>1, ActorIs
  <2>3. l \in ChatLinksOf(q.chat) /\ l \in 1..Len(chatLinks) /\ Len(chatLinks) \in Nat
      BY <1>3, <2>2, LenProperties DEF Mine
  <2>4. chatLinks[l] \in AllChatLinks
      BY <2>2, <2>3, LenProperties
  <2>5. chatLinks[l].since \in Codes
      BY <2>4 DEF AllChatLinks
  <2> DEFINE p == [q EXCEPT !.pc = "seen", !.row = l, !.since = chatLinks[l].since]
  <2>6. /\ p \in ActorRecord /\ p.pc = "seen" /\ p.row = l /\ p.since = chatLinks[l].since
        /\ p.update = q.update /\ p.chat = q.chat /\ p.user = q.user /\ p.acts = q.acts
    <3>1. l \in Nat
        BY <2>3
    <3> QED BY <2>2, <2>5, <3>1 DEF ActorRecord, Stages
  <2>7. actor' = [actor EXCEPT ![h] = p]
      BY <1>3 DEF PairingInv, ActorsKnow
  <2> HIDE DEF p
  <2>8. p.row \in 0..Len(chatLinks) /\ p.row # NoChatLink
      BY <2>3, <2>6 DEF NoChatLink
  <2>9. /\ clashes' \cap {"pairings", "message"} = {} =>
              /\ p.acts = NoOwner
              /\ \E k \in ChatLinksOf(p.chat) : chatLinks[k].user = p.user
        /\ p.pc \notin {"idle", "mark", "find", "link"} /\ p.chat \in Chats
        /\ p.update \in DOMAIN message /\ p.user \in Owners
        /\ p.row \in ChatLinksOf(p.chat)
        /\ p.since \in Codes /\ p.since = chatLinks[p.row].since
      BY <1>1, <2>1, <2>3, <2>5, <2>6
  <2>10. PairingTypeOK' /\ ActorsKnow' /\ PairingsApart' /\ SeenFresh' /\ LinkTruthful'
        /\ StillLinked' /\ OneIdentity'
      BY <1>1, <1>3, <2>1, <2>2, <2>7, <2>6, <2>8, <2>9, MoveKeeps
  <2>11. RecordingOnce' /\ RecordedOnce'
      BY <1>1, <1>3, <2>1, <2>6, <2>7, NotRecording
  <2> QED BY <2>10, <2>11 DEF PairingInv
<1> QED BY <1>2, <1>3 DEF RecordText

\* The link is written back as it was read, at the same place and of the same chat.
LEMMA SeenWrites ==
    ASSUME PairingInv, NEW h \in Handlers, Seen(h)
    PROVE  /\ actor[h].pc = "seen"
           /\ chatLinks' \in Seq(AllChatLinks) /\ Len(chatLinks') = Len(chatLinks)
           /\ DOMAIN chatLinks' = DOMAIN chatLinks
           /\ \A l \in DOMAIN chatLinks :
                 /\ chatLinks'[l].user = chatLinks[l].user /\ chatLinks'[l].chat = chatLinks[l].chat
                 /\ chatLinks'[l].since = IF l = actor[h].row THEN actor[h].since ELSE chatLinks[l].since
           /\ \A chat : ChatLinksOf(chat)' = {l \in DOMAIN chatLinks : chatLinks[l].chat = chat}
<1> DEFINE q == actor[h]
<1>1. /\ q.pc = "seen" /\ chatLinks' = [chatLinks EXCEPT ![q.row].since = q.since]
    BY DEF Seen
<1>2. /\ h \in Actors /\ q.row \in ChatLinksOf(q.chat) /\ q.since \in Codes
      /\ chatLinks \in Seq(AllChatLinks)
    BY <1>1 DEF PairingInv, ActorsKnow, PairingTypeOK, Actors
<1>3. /\ q.row \in 1..Len(chatLinks) /\ DOMAIN chatLinks = 1..Len(chatLinks)
      /\ chatLinks[q.row] \in AllChatLinks
    BY <1>2, LenProperties DEF ChatLinksOf
<1> DEFINE e == [chatLinks[q.row] EXCEPT !.since = q.since]
<1>4. e \in AllChatLinks /\ e.user = chatLinks[q.row].user /\ e.chat = chatLinks[q.row].chat
      /\ e.since = q.since
    BY <1>2, <1>3 DEF AllChatLinks
<1>5. chatLinks' = [chatLinks EXCEPT ![q.row] = e]
    BY <1>1
<1> HIDE DEF e
<1>6. /\ chatLinks' \in Seq(AllChatLinks) /\ Len(chatLinks') = Len(chatLinks)
      /\ \A j \in 1..Len(chatLinks) : chatLinks'[j] = IF j = q.row THEN e ELSE chatLinks[j]
    BY <1>2, <1>3, <1>4, <1>5, ExceptSeq
<1>7. DOMAIN chatLinks' = 1..Len(chatLinks)
    BY <1>6, LenProperties
<1>8. \A l \in DOMAIN chatLinks :
         /\ chatLinks'[l].user = chatLinks[l].user /\ chatLinks'[l].chat = chatLinks[l].chat
         /\ chatLinks'[l].since = IF l = q.row THEN q.since ELSE chatLinks[l].since
    BY <1>3, <1>4, <1>6
<1> QED BY <1>1, <1>3, <1>6, <1>7, <1>8 DEF ChatLinksOf

LEMMA SeenKeeps ==
    ASSUME PairingInv, NEW h \in Handlers, Seen(h)
    PROVE  PairingInv'
<1> DEFINE q == actor[h]
<1> USE DEF PairingInv
<1>1. /\ q.pc = "seen" /\ RecordMessage(h) /\ Goes(h, "route") /\ "route" \in Stages
      /\ UNCHANGED <<codeState, expired, message, known, pairedBy, clashes>>
    BY DEF Seen, Stages
<1>2. /\ chatLinks' \in Seq(AllChatLinks) /\ Len(chatLinks') = Len(chatLinks)
      /\ DOMAIN chatLinks' = DOMAIN chatLinks
      /\ \A l \in DOMAIN chatLinks :
            /\ chatLinks'[l].user = chatLinks[l].user /\ chatLinks'[l].chat = chatLinks[l].chat
            /\ chatLinks'[l].since = IF l = q.row THEN q.since ELSE chatLinks[l].since
      /\ \A chat : ChatLinksOf(chat)' = {l \in DOMAIN chatLinks : chatLinks[l].chat = chat}
    BY SeenWrites
<1>3. /\ h \in Actors /\ q.chat \in Chats /\ q.update \in DOMAIN message /\ q.user \in Owners
      /\ clashes \cap {"pairings", "message"} = {} =>
            /\ q.acts = NoOwner
            /\ \E l \in ChatLinksOf(q.chat) : chatLinks[l].user = q.user
    BY <1>1, HandlerIs
<1>4. PICK p \in ActorRecord :
         /\ actor' = [actor EXCEPT ![h] = p]
         /\ p.pc = "route" /\ p.update = q.update /\ p.chat = q.chat /\ p.code = q.code
         /\ p.user = q.user /\ p.acts = q.acts /\ p.row = q.row /\ p.since = q.since
    BY <1>1, <1>3, GoesIs
<1>5. /\ actor' \in [Actors -> ActorRecord] /\ actor'[h] = p
      /\ \A b \in Actors : b # h => actor'[b] = actor[b]
    BY <1>3, <1>4, OthersAct
<1>6. RecordingOnce' /\ RecordedOnce' /\ recorded' \in [Updates -> Seq(Owners)]
    BY <1>1, <1>4, Recording
<1>7. \A b \in Actors : actor'[b].pc # actor[b].pc => b = h
    BY <1>5
<1>8. \A b \in Actors :
         /\ actor'[b].chat = actor[b].chat /\ actor'[b].code = actor[b].code
         /\ actor'[b].row = actor[b].row /\ actor'[b].since = actor[b].since
         /\ actor'[b].user = actor[b].user /\ actor'[b].acts = actor[b].acts
         /\ actor'[b].update = actor[b].update
    BY <1>4, <1>5
<1>9. \A chat : ChatLinksOf(chat)' = ChatLinksOf(chat)
    BY <1>2 DEF ChatLinksOf
<1>10. PairingTypeOK'
    BY <1>1, <1>2, <1>4, <1>5, <1>6, <1>8 DEF PairingTypeOK
<1>11. ActorsKnow'
  <2>1. ASSUME NEW b \in Actors
        PROVE  /\ actor'[b].pc # "idle" => actor'[b].chat \in Chats
               /\ Consuming(b)' => actor'[b].code \in Codes
               /\ actor'[b].pc \in {"resolve", "record", "seen", "route"} =>
                     b \in Handlers /\ actor'[b].update \in DOMAIN message'
               /\ actor'[b].pc \in {"record", "seen", "route"} => actor'[b].user \in Owners
               /\ actor'[b].pc = "seen" => actor'[b].row # NoChatLink /\ actor'[b].since \in Codes
               /\ actor'[b].pc \in {"seen", "link"} /\ actor'[b].row # NoChatLink =>
                     actor'[b].row \in ChatLinksOf(actor[b].chat)'
    <3>1. CASE b = h
        BY <1>1, <1>3, <1>4, <1>5, <3>1 DEF Consuming
    <3>2. CASE b # h
        BY <1>1, <1>5, <1>9, <3>2 DEF ActorsKnow, Consuming
    <3> QED BY <3>1, <3>2
  <2>2. \A b \in Actors : ChatLinksOf(actor[b].chat)' = ChatLinksOf(actor'[b].chat)
      BY <1>2 DEF ChatLinksOf
  <2>3. DOMAIN message' \subseteq Updates /\ \A u \in DOMAIN message' : message'[u] \in MessageRecord
      BY <1>1 DEF ActorsKnow
  <2> QED BY <1>5, <2>1, <2>3 DEF ActorsKnow
<1>12. PairingsApart'
  <2> SUFFICES ASSUME "pairings" \notin clashes
               PROVE  PairingsApart'
      BY <1>1 DEF PairingsApart
  <2>1. \A b \in Actors : Consuming(b)' => Consuming(b)
      BY <1>4, <1>5 DEF Consuming
  <2>2. \A a, b \in Actors : Consuming(a)' /\ Consuming(b)' /\ a # b =>
              actor'[a].code # actor'[b].code /\ actor'[a].chat # actor'[b].chat
      BY <1>8, <2>1 DEF PairingsApart
  <2>3. \A a \in Actors : Consuming(a)' => codeState'[actor'[a].code] = "unused"
      BY <1>1, <1>8, <2>1 DEF PairingsApart
  <2>4. \A a \in Actors : actor'[a].pc = "link" /\ actor'[a].row = NoChatLink =>
              ChatLinksOf(actor[a].chat)' = {}
      BY <1>4, <1>5, <1>8, <1>9 DEF PairingsApart
  <2>5. \A l, m \in DOMAIN chatLinks' : chatLinks'[l].chat = chatLinks'[m].chat => l = m
      BY <1>2 DEF PairingsApart
  <2>6. /\ \A k \in Codes : codeState'[k] # "used" => pairedBy'[k] = {}
        /\ \A k \in Codes : \A c, d \in pairedBy'[k] : c = d
      BY <1>1 DEF PairingsApart
  <2> QED BY <2>2, <2>3, <2>4, <2>5, <2>6 DEF PairingsApart
<1>13. "message" \notin clashes => \A l \in DOMAIN chatLinks : chatLinks'[l].since = chatLinks[l].since
    BY <1>1, <1>2 DEF SeenFresh
<1>14. SeenFresh' /\ LinkTruthful'
  <2> SUFFICES ASSUME "message" \notin clashes
               PROVE  SeenFresh' /\ LinkTruthful'
      BY <1>1 DEF SeenFresh, LinkTruthful
  <2>1. LinkTruthful'
      BY <1>2, <1>13 DEF LinkTruthful
  <2>2. ASSUME NEW g \in Handlers, actor'[g].pc = "seen"
        PROVE  actor'[g].since = chatLinks'[actor'[g].row].since
    <3>1. g \in Actors /\ g # h /\ actor'[g] = actor[g]
        BY <1>4, <1>5, <2>2 DEF Actors
    <3>2. actor[g].row \in DOMAIN chatLinks
        BY <2>2, <3>1 DEF ActorsKnow, ChatLinksOf
    <3>3. actor[g].since = chatLinks[actor[g].row].since
        BY <2>2, <3>1 DEF SeenFresh
    <3> QED BY <1>13, <3>1, <3>2, <3>3
  <2> QED BY <2>1, <2>2 DEF SeenFresh
<1>15. StillLinked' /\ OneIdentity'
  <2> SUFFICES ASSUME clashes \cap {"pairings", "message"} = {}
               PROVE  StillLinked' /\ OneIdentity'
      BY <1>1 DEF StillLinked, OneIdentity
  <2>1. \A g \in Handlers : g \in Actors
      BY DEF Actors
  <2>2. \A g \in Handlers : actor'[g].acts # NoOwner => actor'[g].acts = actor'[g].user
      BY <1>8, <2>1 DEF OneIdentity
  <2>3. \A g \in Handlers : actor'[g].pc \in {"idle", "resolve", "record", "seen", "route"} =>
              actor'[g].acts = NoOwner
      BY <1>3, <1>5, <1>8, <2>1 DEF StillLinked
  <2>4. ASSUME NEW g \in Handlers, actor'[g].pc \in {"record", "seen", "route"}
        PROVE  \E l \in ChatLinksOf(actor[g].chat)' : chatLinks'[l].user = actor'[g].user
    <3>1. actor[g].pc \in {"record", "seen", "route"}
        BY <1>1, <1>5, <2>1, <2>4
    <3>2. PICK l \in ChatLinksOf(actor[g].chat) : chatLinks[l].user = actor[g].user
        BY <3>1 DEF StillLinked
    <3>3. l \in DOMAIN chatLinks /\ chatLinks[l].chat = actor[g].chat
        BY <3>2 DEF ChatLinksOf
    <3>4. chatLinks'[l].user = actor'[g].user /\ chatLinks'[l].chat = actor'[g].chat
          /\ l \in DOMAIN chatLinks'
        BY <1>2, <1>8, <2>1, <3>2, <3>3
    <3> QED BY <3>4 DEF ChatLinksOf
  <2> QED BY <2>2, <2>3, <2>4 DEF StillLinked, OneIdentity
<1> QED BY <1>6, <1>10, <1>11, <1>12, <1>14, <1>15

\* What a pairing leaves in the rows: the link of the chat, rewritten or new, with the
\* code and its user.
LEMMA PairWrites ==
    ASSUME PairingInv, NEW a \in Actors, Pair(a)
    PROVE  /\ actor[a].pc = "link" /\ actor[a].code \in Codes /\ actor[a].chat \in Chats
           /\ chatLinks' \in Seq(AllChatLinks)
           /\ Len(chatLinks) <= Len(chatLinks')
           /\ \E r \in Nat :
                 /\ r \in DOMAIN chatLinks <=> actor[a].row # NoChatLink
                 /\ actor[a].row # NoChatLink => r = actor[a].row /\ chatLinks[r].chat = actor[a].chat
                 /\ DOMAIN chatLinks' = DOMAIN chatLinks \cup {r}
                 /\ chatLinks'[r].chat = actor[a].chat
                 /\ chatLinks'[r].since = actor[a].code
                 /\ chatLinks'[r].user = OwnerOf[actor[a].code]
                 /\ \A l \in DOMAIN chatLinks : l # r => chatLinks'[l] = chatLinks[l]
<1> DEFINE q == actor[a]
           new == ChatLink(OwnerOf[q.code], q.chat, q.code)
<1>1. /\ q.pc = "link"
      /\ chatLinks' = IF q.row = NoChatLink THEN Append(chatLinks, new)
                      ELSE [chatLinks EXCEPT ![q.row] = new]
    BY DEF Pair
<1>2. /\ q.code \in Codes /\ q.chat \in Chats /\ chatLinks \in Seq(AllChatLinks)
      /\ q.row # NoChatLink => q.row \in ChatLinksOf(q.chat)
    BY <1>1 DEF PairingInv, ActorsKnow, PairingTypeOK, Consuming
<1>3. /\ new \in AllChatLinks
      /\ new.chat = q.chat /\ new.since = q.code /\ new.user = OwnerOf[q.code]
    BY <1>2, PairingAssumption DEF ChatLink, AllChatLinks
<1>4. DOMAIN chatLinks = 1..Len(chatLinks) /\ Len(chatLinks) \in Nat
    BY <1>2, LenProperties
<1> HIDE DEF new
<1>5. CASE q.row = NoChatLink
  <2>1. /\ chatLinks' \in Seq(AllChatLinks) /\ Len(chatLinks') = Len(chatLinks) + 1
        /\ \A i \in 1..Len(chatLinks) : chatLinks'[i] = chatLinks[i]
        /\ chatLinks'[Len(chatLinks) + 1] = new
      BY <1>1, <1>2, <1>3, <1>5, AppendProperties
  <2>2. DOMAIN chatLinks' = 1..(Len(chatLinks) + 1)
      BY <2>1, LenProperties
  <2>3. PICK r \in Nat : r = Len(chatLinks) + 1
      BY <1>4
  <2>4. r \notin DOMAIN chatLinks /\ DOMAIN chatLinks' = DOMAIN chatLinks \cup {r}
      BY <1>4, <2>2, <2>3
  <2>5. /\ chatLinks'[r] = new
        /\ \A l \in DOMAIN chatLinks : chatLinks'[l] = chatLinks[l]
      BY <1>4, <2>1, <2>3
  <2>6. Len(chatLinks) <= Len(chatLinks')
      BY <1>4, <2>1
  <2> QED BY <1>1, <1>2, <1>3, <1>5, <2>1, <2>4, <2>5, <2>6
<1>6. CASE q.row # NoChatLink
  <2>1. q.row \in 1..Len(chatLinks) /\ chatLinks[q.row].chat = q.chat
      BY <1>2, <1>4, <1>6 DEF ChatLinksOf
  <2>2. /\ chatLinks' \in Seq(AllChatLinks) /\ Len(chatLinks') = Len(chatLinks)
        /\ \A j \in 1..Len(chatLinks) : chatLinks'[j] = IF j = q.row THEN new ELSE chatLinks[j]
      BY <1>1, <1>2, <1>3, <1>6, <2>1, ExceptSeq
  <2>3. DOMAIN chatLinks' = 1..Len(chatLinks)
      BY <2>2, LenProperties
  <2>4. PICK r \in Nat : r = q.row
      BY <2>1
  <2>5. r \in DOMAIN chatLinks /\ DOMAIN chatLinks' = DOMAIN chatLinks \cup {r}
      BY <1>4, <2>1, <2>3, <2>4
  <2>6. chatLinks'[r] = new /\ \A l \in DOMAIN chatLinks : l # r => chatLinks'[l] = chatLinks[l]
      BY <1>4, <2>1, <2>2, <2>4
  <2> QED BY <1>1, <1>2, <1>3, <1>4, <1>6, <2>1, <2>2, <2>4, <2>5, <2>6
<1> QED BY <1>5, <1>6

LEMMA PairKeeps ==
    ASSUME PairingInv, NEW a \in Actors, Pair(a)
    PROVE  PairingInv'
<1> DEFINE q == actor[a]
<1> USE DEF PairingInv
<1>1. PICK r \in Nat :
         /\ r \in DOMAIN chatLinks <=> q.row # NoChatLink
         /\ q.row # NoChatLink => r = q.row /\ chatLinks[r].chat = q.chat
         /\ DOMAIN chatLinks' = DOMAIN chatLinks \cup {r}
         /\ chatLinks'[r].chat = q.chat
         /\ chatLinks'[r].since = q.code
         /\ chatLinks'[r].user = OwnerOf[q.code]
         /\ \A l \in DOMAIN chatLinks : l # r => chatLinks'[l] = chatLinks[l]
    BY PairWrites
<1>2. /\ q.pc = "link" /\ Consuming(a)
      /\ chatLinks' \in Seq(AllChatLinks) /\ Len(chatLinks) <= Len(chatLinks')
      /\ Goes(a, "done") /\ "done" \in Stages
      /\ UNCHANGED <<expired, message, known, recorded>>
    BY PairWrites DEF Pair, Stages, Consuming
<1>3. PICK k \in Codes : k = q.code
    BY PairWrites
<1>4. PICK c \in Chats : c = q.chat
    BY PairWrites
<1>5. /\ codeState' = [codeState EXCEPT ![k] = "used"]
      /\ pairedBy' = [pairedBy EXCEPT ![k] = pairedBy[k] \cup {c}]
      /\ clashes' = clashes \cup
              (IF \E h \in Handlers \ {a} : /\ actor[h].pc \in {"record", "seen", "route"}
                                           /\ actor[h].chat = c
               THEN {"message"} ELSE {})
    BY <1>3, <1>4 DEF Pair
<1>6. PICK p \in ActorRecord :
         /\ actor' = [actor EXCEPT ![a] = p]
         /\ p.pc = "done" /\ p.update = q.update /\ p.chat = q.chat /\ p.code = q.code
         /\ p.user = q.user /\ p.acts = q.acts /\ p.row = q.row /\ p.since = q.since
    BY <1>2, GoesIs
<1>7. /\ actor' \in [Actors -> ActorRecord] /\ actor'[a] = p
      /\ \A b \in Actors : b # a => actor'[b] = actor[b]
    BY <1>6, OthersAct
<1>8. /\ clashes \subseteq clashes' /\ clashes' \subseteq {"pairings", "message", "redis"}
      /\ "pairings" \in clashes' => "pairings" \in clashes
      /\ "message" \notin clashes' => \A h \in Handlers \ {a} :
            actor[h].pc \in {"record", "seen", "route"} => actor[h].chat # c
    BY <1>5 DEF PairingTypeOK
<1>9. RecordingOnce' /\ RecordedOnce'
    BY <1>2, <1>6, <1>8, NotRecording
<1>10. /\ codeState' \in [Codes -> {"none", "unused", "used"}]
       /\ \A j \in Codes : codeState'[j] = IF j = k THEN "used" ELSE codeState[j]
       /\ pairedBy' \in [Codes -> SUBSET Chats]
       /\ \A j \in Codes : pairedBy'[j] = IF j = k THEN pairedBy[k] \cup {c} ELSE pairedBy[j]
    BY <1>5 DEF PairingTypeOK
<1>11. \A b \in Actors : actor'[b].row \in 0..Len(chatLinks')
  <2>1. Len(chatLinks) \in Nat /\ Len(chatLinks') \in Nat
      BY <1>2, LenProperties DEF PairingTypeOK
  <2>2. \A b \in Actors : actor'[b].row = actor[b].row /\ actor[b].row \in 0..Len(chatLinks)
      BY <1>6, <1>7 DEF PairingTypeOK
  <2> QED BY <1>2, <2>1, <2>2
<1>12. PairingTypeOK'
    BY <1>2, <1>6, <1>7, <1>8, <1>10, <1>11 DEF PairingTypeOK
<1>13. /\ \A d : ChatLinksOf(d) \subseteq ChatLinksOf(d)'
       /\ \A d : d # c => ChatLinksOf(d)' = ChatLinksOf(d)
       /\ ChatLinksOf(c)' = ChatLinksOf(c) \cup {r}
       /\ q.row # NoChatLink => r \in ChatLinksOf(c)
    BY <1>1, <1>4 DEF ChatLinksOf
<1>14. \A b \in Actors : Consuming(b)' => b # a /\ Consuming(b) /\ actor'[b] = actor[b]
    BY <1>6, <1>7 DEF Consuming
<1>15. ActorsKnow'
  <2>1. ASSUME NEW b \in Actors
        PROVE  /\ actor'[b].pc # "idle" => actor'[b].chat \in Chats
               /\ Consuming(b)' => actor'[b].code \in Codes
               /\ actor'[b].pc \in {"resolve", "record", "seen", "route"} =>
                     b \in Handlers /\ actor'[b].update \in DOMAIN message'
               /\ actor'[b].pc \in {"record", "seen", "route"} => actor'[b].user \in Owners
               /\ actor'[b].pc = "seen" => actor'[b].row # NoChatLink /\ actor'[b].since \in Codes
               /\ actor'[b].pc \in {"seen", "link"} /\ actor'[b].row # NoChatLink =>
                     actor'[b].row \in ChatLinksOf(actor[b].chat)'
    <3>1. CASE b = a
        BY <1>4, <1>6, <1>7, <1>14, <3>1
    <3>2. CASE b # a
      <4>1. actor'[b] = actor[b]
          BY <1>7, <3>2
      <4>2. ChatLinksOf(actor[b].chat) \subseteq {l \in DOMAIN chatLinks' : chatLinks'[l].chat = actor[b].chat}
          BY <1>1, <1>4 DEF ChatLinksOf
      <4>3. actor[b].pc \in {"seen", "link"} /\ actor[b].row # NoChatLink =>
                     actor'[b].row \in ChatLinksOf(actor[b].chat)'
          BY <4>1, <4>2 DEF ActorsKnow, ChatLinksOf
      <4> QED BY <1>2, <4>1, <4>3 DEF ActorsKnow, Consuming
    <3> QED BY <3>1, <3>2
  <2>2. DOMAIN message' \subseteq Updates /\ \A u \in DOMAIN message' : message'[u] \in MessageRecord
      BY <1>2 DEF ActorsKnow
  <2> QED BY <1>7, <2>1, <2>2 DEF ActorsKnow
<1>16. PairingsApart'
  <2> SUFFICES ASSUME "pairings" \notin clashes
               PROVE  PairingsApart'
      BY <1>8 DEF PairingsApart
  <2>1. /\ codeState[k] = "unused" /\ pairedBy[k] = {}
        /\ \A b \in Actors : Consuming(b)' => actor[b].code # k /\ actor[b].chat # c
      BY <1>2, <1>3, <1>4, <1>14 DEF PairingsApart
  <2>2. \A b, d \in Actors : Consuming(b)' /\ Consuming(d)' /\ b # d =>
              actor'[b].code # actor'[d].code /\ actor'[b].chat # actor'[d].chat
      BY <1>14 DEF PairingsApart
  <2>3. \A b \in Actors : Consuming(b)' => codeState'[actor'[b].code] = "unused"
      BY <1>10, <1>14, <2>1 DEF PairingsApart, ActorsKnow
  <2>4. ASSUME NEW b \in Actors, actor'[b].pc = "link", actor'[b].row = NoChatLink
        PROVE  ChatLinksOf(actor[b].chat)' = {}
    <3>1. b # a /\ actor'[b] = actor[b]
        BY <1>6, <1>7, <2>4
    <3>2. actor[b].chat # c /\ ChatLinksOf(actor[b].chat) = {}
        BY <2>1, <2>4, <3>1 DEF PairingsApart, Consuming
    <3> QED BY <1>1, <1>4, <3>1, <3>2 DEF ChatLinksOf
  <2>5. /\ \A j \in Codes : codeState'[j] # "used" => pairedBy'[j] = {}
        /\ \A j \in Codes : \A d, e \in pairedBy'[j] : d = e
      BY <1>10, <2>1 DEF PairingsApart
  <2>6. \A l, m \in DOMAIN chatLinks' : chatLinks'[l].chat = chatLinks'[m].chat => l = m
    <3>1. \A l \in DOMAIN chatLinks : l # r => chatLinks[l].chat # c
      <4>1. CASE q.row = NoChatLink
        <5>1. ChatLinksOf(c) = {}
            BY <1>2, <1>4, <4>1 DEF PairingsApart
        <5> QED BY <5>1 DEF ChatLinksOf
      <4>2. CASE q.row # NoChatLink
          BY <1>1, <1>4, <4>2 DEF PairingsApart
      <4> QED BY <4>1, <4>2
    <3>2. \A l \in DOMAIN chatLinks : l # r => chatLinks'[l].chat = chatLinks[l].chat
        BY <1>1
    <3>3. \A l, m \in DOMAIN chatLinks : chatLinks[l].chat = chatLinks[m].chat => l = m
        BY DEF PairingsApart
    <3> QED BY <1>1, <1>4, <3>1, <3>2, <3>3
  <2> QED BY <2>2, <2>3, <2>4, <2>5, <2>6 DEF PairingsApart
<1>17. SeenFresh' /\ LinkTruthful'
  <2> SUFFICES ASSUME "message" \notin clashes'
               PROVE  SeenFresh' /\ LinkTruthful'
      BY DEF SeenFresh, LinkTruthful
  <2>1. "message" \notin clashes
      BY <1>8
  <2>2. LinkTruthful'
      BY <1>1, <1>3, <2>1 DEF LinkTruthful
  <2>3. ASSUME NEW g \in Handlers, actor'[g].pc = "seen"
        PROVE  actor'[g].since = chatLinks'[actor'[g].row].since
    <3>1. g \in Actors /\ g # a /\ actor'[g] = actor[g]
        BY <1>6, <1>7, <2>3 DEF Actors
    <3>2. actor[g].row \in ChatLinksOf(actor[g].chat) /\ actor[g].chat # c
        BY <1>8, <2>3, <3>1 DEF ActorsKnow
    <3>3. actor[g].row \in DOMAIN chatLinks /\ actor[g].row # r
        BY <1>1, <1>4, <3>2 DEF ChatLinksOf
    <3>4. actor[g].since = chatLinks[actor[g].row].since
        BY <2>1, <2>3, <3>1 DEF SeenFresh
    <3> QED BY <1>1, <3>1, <3>3, <3>4
  <2> QED BY <2>2, <2>3 DEF SeenFresh
<1>18. StillLinked' /\ OneIdentity'
  <2> SUFFICES ASSUME clashes' \cap {"pairings", "message"} = {}
               PROVE  StillLinked' /\ OneIdentity'
      BY DEF StillLinked, OneIdentity
  <2>1. clashes \cap {"pairings", "message"} = {} /\ \A g \in Handlers : g \in Actors
      BY <1>8 DEF Actors
  <2>2. \A g \in Handlers : actor'[g].acts # NoOwner => actor'[g].acts = actor'[g].user
      BY <1>6, <1>7, <2>1 DEF OneIdentity
  <2>3. \A g \in Handlers : actor'[g].pc \in {"idle", "resolve", "record", "seen", "route"} =>
              actor'[g].acts = NoOwner
      BY <1>6, <1>7, <2>1 DEF StillLinked
  <2>4. ASSUME NEW g \in Handlers, actor'[g].pc \in {"record", "seen", "route"}
        PROVE  \E l \in ChatLinksOf(actor[g].chat)' : chatLinks'[l].user = actor'[g].user
    <3>1. g # a /\ actor'[g] = actor[g] /\ actor[g].chat # c
        BY <1>6, <1>7, <1>8, <2>1, <2>4
    <3>2. PICK l \in ChatLinksOf(actor[g].chat) : chatLinks[l].user = actor[g].user
        BY <2>1, <2>4, <3>1 DEF StillLinked
    <3>3. l \in DOMAIN chatLinks /\ chatLinks[l].chat = actor[g].chat
        BY <3>2 DEF ChatLinksOf
    <3>4. l # r
        BY <1>1, <1>4, <3>1, <3>3
    <3> QED BY <1>1, <3>1, <3>2, <3>3, <3>4 DEF ChatLinksOf
  <2> QED BY <2>2, <2>3, <2>4 DEF StillLinked, OneIdentity
<1> QED BY <1>9, <1>12, <1>15, <1>16, <1>17, <1>18

LEMMA PairingNextInv == PairingInv /\ [PairingNext]_pairingVars => PairingInv'
<1> SUFFICES ASSUME PairingInv, [PairingNext]_pairingVars
             PROVE  PairingInv'
    OBVIOUS
<1>1. CASE UNCHANGED pairingVars
    BY <1>1
    DEF pairingVars, PairingInv, PairingTypeOK, ActorsKnow, PairingsApart, SeenFresh, LinkTruthful,
        RecordingOnce, RecordedOnce, StillLinked, OneIdentity, ToRecord, ChatLinksOf, Consuming
<1> QED BY <1>1, GenerateKeeps, ExpireKeeps, LinkBeginKeeps, ReadCodeKeeps, MarkCodeKeeps,
           FindLinkKeeps, PairKeeps, SendUpdateKeeps, ReceiveUpdateKeeps, ResolveKeeps,
           RecordTextKeeps, SeenKeeps, RecordVoiceKeeps, RouteMessageKeeps DEF PairingNext

\* A set whose elements are all equal has one at most.
LEMMA OneElement ==
    ASSUME NEW S, \A x, y \in S : x = y
    PROVE  Cardinality(S) <= 1
<1>1. CASE S = {}
    BY <1>1, FS_EmptySet
<1>2. CASE S # {}
  <2>1. PICK x \in S : TRUE
      BY <1>2
  <2>2. S = {x}
      BY <2>1
  <2> QED BY <2>2, FS_Singleton
<1> QED BY <1>1, <1>2

\* For any number of codes, chats, messages and handlers: a code pairs one chat and a
\* chat has one link, the link tells the truth, an update is recorded once and a message
\* acts in one name, unless steps met, or Redis failed, in the way clashes names.
THEOREM PairingSoundHolds == PairingSpec => []PairingSound
<1>1. PairingInv => PairingSound
  <2> SUFFICES ASSUME PairingInv PROVE OneShot
      BY DEF PairingInv, PairingSound
  <2> SUFFICES ASSUME "pairings" \notin clashes
               PROVE  /\ \A k \in Codes : Cardinality(pairedBy[k]) <= 1
                      /\ \A chat \in Chats : Cardinality(ChatLinksOf(chat)) <= 1
      BY DEF OneShot
  <2>1. \A k \in Codes : \A c, d \in pairedBy[k] : c = d
      BY DEF PairingInv, PairingsApart
  <2>2. \A chat \in Chats : \A l, m \in ChatLinksOf(chat) : l = m
      BY DEF PairingInv, PairingsApart, ChatLinksOf
  <2> QED BY <2>1, <2>2, OneElement
<1> QED BY <1>1, PairingInitInv, PairingNextInv, PTL DEF PairingSpec
=============================================================================
