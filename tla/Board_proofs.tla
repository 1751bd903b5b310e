----------------------------- MODULE Board_proofs -----------------------------
(***************************************************************************)
(* Proofs about the work on a board: the numbers of the tasks, what is     *)
(* written into their dados, the copy of a list, the history of statuses   *)
(* and the tree of tasks; and from these and the proofs about projects,    *)
(* accounts and links what MCTaskBoard says of the composition; for any    *)
(* number of tasks, projects and requests.                                 *)
(***************************************************************************)
EXTENDS MCTaskBoard, Projects_proofs, Accounts_proofs

-----------------------------------------------------------------------------
(* TaskNumbering.                                                          *)

\* What a request found or took is a number some task has, or follows one.
NumbersKnown ==
    /\ \A c \in Creations : creation[c].pc = "idle" => creation[c].counter = NoCreation
    /\ \A c \in Creations : creation[c].pc # "done" => given[c] = 0
    /\ \A r \in Creations : lastSeq[r] > 0 => \E e \in Creations : given[e] = lastSeq[r]
    /\ \A c \in Creations :
          creation[c].pc = "found" /\ creation[c].counter # NoCreation
          => /\ creation[c].seq > 0
             /\ \E e \in Creations : given[e] = creation[c].seq
    /\ \A c \in Creations :
          creation[c].pc = "numbered" =>
              /\ creation[c].counter \in Creations /\ creation[c].seq > 0
              /\ creation[c].seq # FirstNumber
                    => \E e \in Creations : given[e] + 1 = creation[c].seq

\* While no two transactions were open at once there is one counter at most, no task
\* has a greater number, and what the open transaction read is still true.
OneTransaction == \A c, e \in Creations : Open(c) /\ Open(e) => c = e
OneCounter ==
    /\ \A r, q \in Counters : r = q
    /\ \A c \in Creations : given[c] > 0 => \E r \in Counters : given[c] <= lastSeq[r]
ReadStillTrue ==
    \A c \in Creations :
        /\ creation[c].pc = "found" /\ creation[c].counter = NoCreation => Counters = {}
        /\ creation[c].pc = "found" /\ creation[c].counter # NoCreation
              => /\ creation[c].counter \in Counters
                 /\ creation[c].seq = lastSeq[creation[c].counter]
        /\ creation[c].pc = "numbered" =>
              \/ Counters = {} /\ creation[c].seq = FirstNumber
              \/ /\ creation[c].counter \in Counters
                 /\ creation[c].seq = lastSeq[creation[c].counter] + 1
NumberedAlone == ~overlapped => OneTransaction /\ OneCounter /\ ReadStillTrue

NumberingInv ==
    /\ NumberingTypeOK
    /\ NumbersKnown
    /\ NumberedAlone
    /\ NumberingSound

LEMMA NumberingInitInv == NumberingInit => NumberingInv
<1> SUFFICES ASSUME NumberingInit PROVE NumberingInv
    OBVIOUS
<1>1. NumberingTypeOK
    BY DEF NumberingInit, NumberingTypeOK, NotBegun, Found
<1>2. /\ \A c \in Creations : creation[c] = NotBegun /\ given[c] = 0 /\ lastSeq[c] = 0
      /\ Counters = {}
    BY DEF NumberingInit, NotBegun, Counters
<1>3. NumbersKnown
    BY <1>2 DEF NumbersKnown, NotBegun
<1>4. NumberedAlone
    BY <1>2 DEF NumberedAlone, OneTransaction, OneCounter, ReadStillTrue, NotBegun, Open
<1>5. NumberingSound
    BY <1>2 DEF NumberingSound, NoGaps, UniqueWithoutOverlap, FirstNumber
<1> QED BY <1>1, <1>3, <1>4, <1>5 DEF NumberingInv

LEMMA NumberingStepType == NumberingTypeOK /\ [NumberingNext]_numberingVars => NumberingTypeOK'
<1> SUFFICES ASSUME NumberingTypeOK, NumberingNext PROVE NumberingTypeOK'
    BY DEF NumberingTypeOK, numberingVars
<1> PICK c \in Creations : \/ FindCounter(c) \/ InsertCounter(c) \/ UpdateCounter(c)
                           \/ Commit(c) \/ RollBack(c)
    BY DEF NumberingNext
<1>1. CASE FindCounter(c)
    BY <1>1 DEF FindCounter, NumberingTypeOK, Found, Counters
<1>2. CASE InsertCounter(c)
    BY <1>2 DEF InsertCounter, NumberingTypeOK, Found, FirstNumber
<1>3. CASE UpdateCounter(c)
    BY <1>3 DEF UpdateCounter, NumberingTypeOK, Found, NextSeq
<1>4. CASE Commit(c)
    BY <1>4 DEF Commit, NumberingTypeOK, Found, Written
<1>5. CASE RollBack(c)
    BY <1>5 DEF RollBack, NumberingTypeOK, Found
<1> QED BY <1>1, <1>2, <1>3, <1>4, <1>5

LEMMA FindCounterInv ==
    ASSUME NumberingInv, NumberingTypeOK', NEW c \in Creations, FindCounter(c)
    PROVE  NumbersKnown' /\ NumberedAlone' /\ NumberingSound'
<1> USE DEF NumberingInv
<1>1. given' = given /\ lastSeq' = lastSeq /\ Counters' = Counters
    BY DEF FindCounter, Counters
<1>2. /\ \A e \in Creations : e # c => creation'[e] = creation[e]
      /\ creation[c].pc = "idle" /\ creation'[c].pc = "found"
      /\ overlapped' = (overlapped \/ \E e \in Creations \ {c} : Open(e))
    BY DEF FindCounter, NumberingTypeOK, Found, Counters
<1>3. \/ Counters = {} /\ creation'[c].counter = NoCreation
      \/ creation'[c].counter \in Counters /\ creation'[c].seq = lastSeq[creation'[c].counter]
  <2>1. creation[c].counter = NoCreation
      BY <1>2 DEF NumbersKnown
  <2>2. CASE Counters = {} /\ creation' = [creation EXCEPT ![c].pc = "found"]
      BY <2>1, <2>2 DEF NumberingTypeOK, Found
  <2>3. CASE \E r \in Counters : creation' = [creation EXCEPT ![c] =
                            [pc |-> "found", counter |-> r, seq |-> lastSeq[r]]]
      BY <2>3 DEF NumberingTypeOK, Found
  <2> QED BY <2>2, <2>3 DEF FindCounter
<1>4. Counters \subseteq Creations /\ \A r \in Counters : lastSeq[r] > 0
    BY DEF Counters
<1>5. NumbersKnown'
    BY <1>1, <1>2, <1>3, <1>4, NoCreationAssumption DEF NumbersKnown
<1>6. NumberedAlone'
  <2> SUFFICES ASSUME ~overlapped' PROVE (OneTransaction /\ OneCounter /\ ReadStillTrue)'
      BY DEF NumberedAlone
  <2>1. ~overlapped /\ \A e \in Creations : e # c => ~Open(e) /\ ~Open(e)'
      BY <1>2 DEF Open
  <2>2. OneTransaction'
      BY <2>1 DEF OneTransaction
  <2>3. OneCounter'
      BY <1>1, <2>1 DEF NumberedAlone, OneCounter
  <2>4. ReadStillTrue'
      BY <1>1, <1>2, <1>3, <1>4, <2>1, NoCreationAssumption DEF ReadStillTrue, Open
  <2> QED BY <2>2, <2>3, <2>4
<1>7. NumberingSound'
    BY <1>1, <1>2 DEF NumberingSound, NoGaps, UniqueWithoutOverlap
<1> QED BY <1>5, <1>6, <1>7

LEMMA InsertCounterInv ==
    ASSUME NumberingInv, NumberingTypeOK', NEW c \in Creations,
           InsertCounter(c) \/ UpdateCounter(c)
    PROVE  NumbersKnown' /\ NumberedAlone' /\ NumberingSound'
<1> USE DEF NumberingInv
<1>1. given' = given /\ lastSeq' = lastSeq /\ Counters' = Counters /\ overlapped' = overlapped
    BY DEF InsertCounter, UpdateCounter, Counters
<1>2. /\ \A e \in Creations : e # c => creation'[e] = creation[e]
      /\ creation[c].pc = "found" /\ creation'[c].pc = "numbered"
    BY DEF InsertCounter, UpdateCounter, NumberingTypeOK, Found
<1>3. \/ /\ creation[c].counter = NoCreation
         /\ creation'[c].counter = c /\ creation'[c].seq = FirstNumber
      \/ /\ creation[c].counter # NoCreation /\ creation'[c].counter = creation[c].counter
         /\ creation'[c].seq = creation[c].seq + 1
    BY DEF InsertCounter, UpdateCounter, NumberingTypeOK, Found, NextSeq
<1>4. creation[c].counter \in Creations \cup {NoCreation} /\ creation[c].seq \in Nat
    BY DEF NumberingTypeOK, Found
<1>5. NumbersKnown'
    BY <1>1, <1>2, <1>3, <1>4 DEF NumbersKnown, FirstNumber
<1>6. NumberedAlone'
  <2> SUFFICES ASSUME ~overlapped' PROVE (OneTransaction /\ OneCounter /\ ReadStillTrue)'
      BY DEF NumberedAlone
  <2>1. OneTransaction /\ OneCounter /\ ReadStillTrue
      BY <1>1 DEF NumberedAlone
  <2>2. OneTransaction'
      BY <1>2, <2>1 DEF OneTransaction, Open
  <2>3. OneCounter'
      BY <1>1, <2>1 DEF OneCounter
  <2>4. ReadStillTrue'
      BY <1>1, <1>2, <1>3, <2>1 DEF ReadStillTrue
  <2> QED BY <2>2, <2>3, <2>4
<1>7. NumberingSound'
    BY <1>1 DEF NumberingSound, NoGaps, UniqueWithoutOverlap
<1> QED BY <1>5, <1>6, <1>7

LEMMA CommitInv ==
    ASSUME NumberingInv, NumberingTypeOK', NEW c \in Creations, Commit(c)
    PROVE  NumbersKnown' /\ NumberedAlone' /\ NumberingSound'
<1> USE DEF NumberingInv
<1> PICK r : r = creation[c].counter
    OBVIOUS
<1> PICK n : n = creation[c].seq
    OBVIOUS
<1>1. /\ creation[c].pc = "numbered" /\ r \in Creations /\ n \in Nat
      /\ n # FirstNumber => \E e \in Creations : given[e] + 1 = n
      /\ given[c] = 0 /\ n > 0
    BY DEF Commit, NumbersKnown, NumberingTypeOK, Found
<1>2. /\ \A e \in Creations : e # c => creation'[e] = creation[e]
      /\ creation'[c].pc = "done"
      /\ \A e \in Creations : e # c => given'[e] = given[e]
      /\ given'[c] = n
      /\ \A q \in Creations : q # r => lastSeq'[q] = lastSeq[q]
      /\ lastSeq'[r] = n /\ overlapped' = overlapped
    BY <1>1 DEF Commit, NumberingTypeOK, Found, Written
<1> HIDE DEF NumberingInv
<1>3. Counters' = Counters \cup {r}
    BY <1>1, <1>2 DEF Counters, NumberingInv, NumberingTypeOK
<1>4. \A e \in Creations : given[e] \in Nat /\ lastSeq[e] \in Nat
    BY DEF NumberingInv, NumberingTypeOK
<1>5. NumbersKnown'
  <2>1. \A e \in Creations : given[e] > 0 => given'[e] = given[e]
      BY <1>1, <1>2
  <2>2. (\A e \in Creations : creation[e].pc = "idle" => creation[e].counter = NoCreation)'
      BY <1>2 DEF NumberingInv, NumbersKnown
  <2>3. (\A e \in Creations : creation[e].pc # "done" => given[e] = 0)'
      BY <1>2 DEF NumberingInv, NumbersKnown
  <2>4. (\A q \in Creations : lastSeq[q] > 0 => \E e \in Creations : given[e] = lastSeq[q])'
      BY <1>2, <1>4, <2>1 DEF NumberingInv, NumbersKnown
  <2>5. ASSUME NEW e \in Creations, creation'[e].pc = "found", creation'[e].counter # NoCreation
        PROVE  creation'[e].seq > 0 /\ \E d \in Creations : given'[d] = creation'[e].seq
    <3>1. e # c /\ creation'[e] = creation[e]
        BY <1>2, <2>5
    <3>2. PICK d \in Creations : given[d] = creation[e].seq /\ creation[e].seq > 0
        BY <2>5, <3>1 DEF NumberingInv, NumbersKnown
    <3> QED BY <2>1, <3>1, <3>2
  <2>6. ASSUME NEW e \in Creations, creation'[e].pc = "numbered"
        PROVE  /\ creation'[e].counter \in Creations /\ creation'[e].seq > 0
               /\ creation'[e].seq # FirstNumber
                     => \E d \in Creations : given'[d] + 1 = creation'[e].seq
    <3>1. e # c /\ creation'[e] = creation[e]
        BY <1>2, <2>6
    <3>2. creation[e].seq \in Nat
        BY DEF NumberingInv, NumberingTypeOK, Found
    <3>3. creation[e].counter \in Creations /\ creation[e].seq > 0
        BY <2>6, <3>1 DEF NumberingInv, NumbersKnown
    <3>4. ASSUME creation[e].seq # FirstNumber
          PROVE  \E d \in Creations : given'[d] + 1 = creation[e].seq
      <4>1. PICK d \in Creations : given[d] + 1 = creation[e].seq
          BY <2>6, <3>1, <3>4 DEF NumberingInv, NumbersKnown
      <4> QED BY <1>4, <2>1, <3>2, <3>3, <3>4, <4>1 DEF FirstNumber
    <3> QED BY <3>1, <3>3, <3>4
  <2> QED BY <2>2, <2>3, <2>4, <2>5, <2>6 DEF NumbersKnown
<1>6. NoGaps'
  <2> SUFFICES ASSUME NEW e \in Creations, given'[e] > FirstNumber
               PROVE  \E d \in Creations : given'[d] + 1 = given'[e]
      BY DEF NoGaps
  <2>1. \A d \in Creations : given[d] > 0 => given'[d] = given[d]
      BY <1>1, <1>2
  <2>2. \E d \in Creations : given[d] + 1 = given'[e]
      BY <1>1, <1>2 DEF NumberingInv, NumberingSound, NoGaps, FirstNumber
  <2> QED BY <1>4, <2>1, <2>2 DEF FirstNumber
<1>7. ASSUME ~overlapped'
      PROVE  /\ (OneTransaction /\ OneCounter /\ ReadStillTrue)'
             /\ \A d, e \in Creations : d # e /\ given'[d] > 0 => given'[d] # given'[e]
  <2>1. OneTransaction /\ OneCounter /\ ReadStillTrue
      BY <1>2, <1>7 DEF NumberingInv, NumberedAlone
  <2>2. \A e \in Creations : ~Open(e)'
      BY <1>1, <1>2, <2>1 DEF OneTransaction, Open
  <2>3. OneTransaction' /\ ReadStillTrue'
      BY <2>2 DEF OneTransaction, ReadStillTrue, Open
  <2>4. /\ Counters = {} \/ r \in Counters
        /\ \A e \in Creations : given[e] < n
    <3>1. \/ Counters = {} /\ n = FirstNumber
          \/ r \in Counters /\ n = lastSeq[r] + 1
        BY <1>1, <2>1 DEF ReadStillTrue
    <3>2. \A e \in Creations : given[e] = 0 \/ \E q \in Counters : given[e] <= lastSeq[q]
        BY <1>4, <2>1 DEF OneCounter
    <3>3. CASE Counters = {}
        BY <1>1, <3>2, <3>3
    <3>4. CASE r \in Counters /\ n = lastSeq[r] + 1
      <4>1. \A q \in Counters : q = r
          BY <2>1, <3>4 DEF OneCounter
      <4> QED BY <1>1, <1>4, <3>2, <3>4, <4>1
    <3> QED BY <3>1, <3>3, <3>4
  <2>5. \A q \in Counters' : q = r
      BY <1>3, <2>1, <2>4 DEF OneCounter
  <2>6. OneCounter'
    <3>1. \A e \in Creations : given'[e] <= lastSeq'[r]
        BY <1>1, <1>2, <1>4, <2>4
    <3> QED BY <1>3, <2>5, <3>1 DEF OneCounter
  <2>7. \A d, e \in Creations : d # e /\ given'[d] > 0 => given'[d] # given'[e]
    <3>1. UniqueWithoutOverlap /\ ~overlapped
        BY <1>2, <1>7 DEF NumberingInv, NumberingSound
    <3> QED BY <1>1, <1>2, <1>4, <2>4, <3>1 DEF UniqueWithoutOverlap
  <2> QED BY <2>3, <2>6, <2>7
<1> QED BY <1>5, <1>6, <1>7 DEF NumberedAlone, NumberingSound, UniqueWithoutOverlap

LEMMA RollBackInv ==
    ASSUME NumberingInv, NumberingTypeOK', NEW c \in Creations, RollBack(c)
    PROVE  NumbersKnown' /\ NumberedAlone' /\ NumberingSound'
<1> USE DEF NumberingInv
<1>1. given' = given /\ lastSeq' = lastSeq /\ Counters' = Counters /\ overlapped' = overlapped
    BY DEF RollBack, Counters
<1>2. /\ \A e \in Creations : e # c => creation'[e] = creation[e]
      /\ creation'[c].pc = "done"
    BY DEF RollBack, NumberingTypeOK, Found
<1>3. NumbersKnown'
    BY <1>1, <1>2 DEF NumbersKnown
<1>4. NumberedAlone'
  <2>1. OneTransaction => OneTransaction'
      BY <1>2 DEF OneTransaction, Open
  <2>2. OneCounter => OneCounter'
      BY <1>1 DEF OneCounter
  <2>3. ReadStillTrue => ReadStillTrue'
      BY <1>1, <1>2 DEF ReadStillTrue
  <2> QED BY <1>1, <2>1, <2>2, <2>3 DEF NumberedAlone
<1>5. NumberingSound'
    BY <1>1 DEF NumberingSound, NoGaps, UniqueWithoutOverlap
<1> QED BY <1>3, <1>4, <1>5

\* No step of numbering breaks the invariant.
LEMMA NumberingNextInv == NumberingInv /\ [NumberingNext]_numberingVars => NumberingInv'
<1> SUFFICES ASSUME NumberingInv, [NumberingNext]_numberingVars PROVE NumberingInv'
    OBVIOUS
<1>1. NumberingTypeOK'
    BY NumberingStepType DEF NumberingInv
<1>2. CASE UNCHANGED numberingVars
    BY <1>2 DEF numberingVars, NumberingInv, NumberingTypeOK, NumbersKnown, NumberedAlone,
                OneTransaction, OneCounter, ReadStillTrue, Counters, Open, NumberingSound,
                NoGaps, UniqueWithoutOverlap
<1>3. ASSUME NEW c \in Creations, \/ FindCounter(c) \/ InsertCounter(c) \/ UpdateCounter(c)
                                  \/ Commit(c) \/ RollBack(c)
      PROVE  NumberingInv'
    BY <1>1, <1>3, FindCounterInv, InsertCounterInv, CommitInv, RollBackInv DEF NumberingInv
<1> QED BY <1>2, <1>3 DEF NumberingNext

\* NumberingSound (tasks.service.ts, getNextIdentifier): for any number of creations and
\* however they overlap or are rolled back, a task with a number above the first follows
\* one that exists, and no number is given twice while no two creations were open at once.
THEOREM NumberingSoundHolds == NumberingSpec => []NumberingSound
<1>1. NumberingInv => NumberingSound
    BY DEF NumberingInv
<1> QED BY <1>1, NumberingInitInv, NumberingNextInv, PTL DEF NumberingSpec

-----------------------------------------------------------------------------
(* TaskDados.                                                              *)

\* Unless an edit replaced the sessions, no copy of a row has two open; and what a writer
\* is to do fits its copy.
CopiesSingle ==
    /\ ~replaced => \A s, t \in dados.open : s = t
    /\ \A w \in Writers :
          /\ ~replaced => \A s, t \in writer[w].copy.open : s = t
          /\ writer[w].op = "start" => writer[w].copy.open = {}
          /\ writer[w].op \in {"start", "close"} => writer[w].session \in Sessions
          /\ writer[w].op = "close" => writer[w].session \in writer[w].copy.open
          /\ writer[w].op = "status" => Allowed(writer[w].copy.state, writer[w].to)

\* While writers take turns the copy is the row, and the column agrees with it unless the
\* last write of the state left it apart.
TakingTurns ==
    ~raced =>
        /\ \A w, v \in Writers : writer[w].op # "idle" /\ writer[v].op # "idle" => w = v
        /\ \A w \in Writers : writer[w].op # "idle" => writer[w].copy = dados
        /\ ~apart => dados.state = idStatus

DadosInv == DadosTypeOK /\ CopiesSingle /\ TakingTurns

LEMMA DadosInitInv == DadosInit => DadosInv
<1> SUFFICES ASSUME DadosInit PROVE DadosInv
    OBVIOUS
<1>1. NewRow \in Rows /\ NoWrite \in Writes
    BY DadosAssumption DEF NewRow, Rows, NoWrite, Writes, Columns
<1>2. DadosTypeOK
    BY <1>1, DadosAssumption DEF DadosInit, DadosTypeOK
<1>3. CopiesSingle /\ TakingTurns
    BY DEF DadosInit, CopiesSingle, TakingTurns, NewRow, NoWrite
<1> QED BY <1>2, <1>3 DEF DadosInv

\* A writer that begins takes a copy of the row.
LEMMA ReadsInv ==
    ASSUME DadosInv, NEW w \in Writers, NEW op, NEW to \in Statuses,
           NEW col \in Columns, NEW s \in Sessions \cup {NoSession},
           Reads(w, op, to, col, s),
           op \in {"status", "cascade", "start", "close", "update", "replace"},
           op = "start" => dados.open = {} /\ s \in Sessions,
           op = "close" => s \in dados.open /\ s \in Sessions,
           op = "status" => Allowed(dados.state, to)
    PROVE  DadosInv' /\ UNCHANGED <<dados, replaced>>
<1> DEFINE q == [op |-> op, to |-> to, column |-> col, session |-> s, copy |-> dados]
<1>1. /\ \A v \in Writers : v # w => writer'[v] = writer[v]
      /\ writer[w].op = "idle" /\ writer'[w] = q
      /\ UNCHANGED <<dados, idStatus, replaced, apart>>
      /\ raced' = (raced \/ \E o \in Writers \ {w} : writer[o].op # "idle")
    BY DEF Reads, DadosInv, DadosTypeOK
<1>2. q.op = op /\ q.to = to /\ q.session = s /\ q.copy = dados
    OBVIOUS
<1>3. DadosTypeOK'
    BY DEF Reads, DadosInv, DadosTypeOK, Writes, Columns
<1> HIDE DEF q
<1>4. CopiesSingle'
    BY <1>1, <1>2 DEF DadosInv, CopiesSingle
<1>5. TakingTurns'
  <2> SUFFICES ASSUME ~raced'
               PROVE  /\ \A o, v \in Writers : writer'[o].op # "idle" /\ writer'[v].op # "idle" => o = v
                      /\ \A v \in Writers : writer'[v].op # "idle" => writer'[v].copy = dados'
                      /\ ~apart' => dados'.state = idStatus'
      BY DEF TakingTurns
  <2>1. ~raced /\ \A o \in Writers : o # w => writer[o].op = "idle"
      BY <1>1
  <2> QED BY <1>1, <1>2, <2>1 DEF DadosInv, TakingTurns
<1> QED BY <1>1, <1>3, <1>4, <1>5 DEF DadosInv

\* What a writer makes of its copy is a row that keeps what the copy had, with one open
\* session at most if the copy had no more.
LEMMA RewrittenIs ==
    ASSUME DadosInv, NEW w \in Writers, writer[w].op \notin {"idle", "replace"},
           NEW q, q = writer[w], NEW written, written = Rewritten(q)
    PROVE  /\ written \in Rows
           /\ ~replaced => \A s, t \in written.open : s = t
           /\ q.copy.open \subseteq written.open \cup written.closed
           /\ q.copy.closed \subseteq written.closed
           /\ q.op \in StateWrites => written.state = q.to
           /\ q.op \notin StateWrites => written.state = q.copy.state
<1>1. q \in Writes /\ q.copy \in Rows
    BY DEF DadosInv, DadosTypeOK, Writes
<1>2. /\ ~replaced => \A s, t \in q.copy.open : s = t
      /\ q.op = "start" => q.copy.open = {}
      /\ q.op \in {"start", "close"} => q.session \in Sessions
      /\ q.op = "close" => q.session \in q.copy.open
    BY DEF DadosInv, CopiesSingle
<1> USE DEF StateWrites
<1>3. CASE q.op \in {"status", "cascade"}
  <2>1. written = [q.copy EXCEPT !.state = q.to]
      BY <1>3 DEF Rewritten, StatusWritten
  <2> QED BY <1>1, <1>2, <1>3, <2>1 DEF Writes, Rows
<1>4. CASE q.op = "start"
  <2>1. written = [q.copy EXCEPT !.open = @ \cup {q.session}]
      BY <1>4 DEF Rewritten
  <2> QED BY <1>1, <1>2, <1>4, <2>1 DEF Writes, Rows
<1>5. CASE q.op = "close"
  <2>1. written = [q.copy EXCEPT !.open = @ \ {q.session}, !.closed = @ \cup {q.session}]
      BY <1>5 DEF Rewritten
  <2>2. /\ written.state = q.copy.state /\ written.open = q.copy.open \ {q.session}
        /\ written.closed = q.copy.closed \cup {q.session}
        /\ written = [state |-> written.state, open |-> written.open, closed |-> written.closed]
      BY <1>1, <2>1 DEF Rows
  <2>3. q.copy.state \in Statuses /\ q.copy.open \subseteq Sessions
        /\ q.copy.closed \subseteq Sessions /\ q.session \in Sessions
      BY <1>1, <1>2, <1>5 DEF Rows
  <2>4. written \in Rows
      BY <2>2, <2>3 DEF Rows
  <2> QED BY <1>2, <1>5, <2>2, <2>4
<1>6. CASE q.op = "update"
  <2>1. written = q.copy
      BY <1>6 DEF Rewritten
  <2> QED BY <1>1, <1>2, <1>6, <2>1
<1> QED BY <1>1, <1>3, <1>4, <1>5, <1>6 DEF Writes

LEMMA WriteBackInv ==
    ASSUME DadosInv, NEW w \in Writers, WriteBack(w)
    PROVE  /\ DadosInv' /\ NothingLostAlone
           /\ ~replaced' => \A s, t \in dados'.open : s = t
<1> PICK q : q = writer[w]
    OBVIOUS
<1> PICK written : written = Rewritten(q)
    OBVIOUS
<1>1. /\ \A v \in Writers : v # w => writer'[v] = writer[v]
      /\ q.op # "idle" /\ writer'[w] = NoWrite
      /\ q.op = "replace" => dados' \in Rows
      /\ q.op # "replace" => dados' = written
      /\ idStatus' = ColumnWritten(q)
      /\ replaced' = (replaced \/ q.op = "replace")
      /\ apart' = IF q.op \in StateWrites THEN q.column # q.to
                  ELSE (apart \/ q.op = "replace")
      /\ raced' = raced
    BY DEF WriteBack, DadosInv, DadosTypeOK
<1>2. q.op # "replace" =>
        /\ written \in Rows
        /\ ~replaced => \A s, t \in written.open : s = t
        /\ q.copy.open \subseteq written.open \cup written.closed
        /\ q.copy.closed \subseteq written.closed
        /\ q.op \in StateWrites => written.state = q.to
        /\ q.op \notin StateWrites => written.state = q.copy.state
    BY <1>1, RewrittenIs
<1>3. NoWrite \in Writes /\ NoWrite.op = "idle" /\ NoWrite.copy.open = {}
    BY DadosAssumption DEF NoWrite, NewRow, Writes, Rows, Columns
<1>4. DadosTypeOK'
  <2>1. q \in Writes
      BY DEF DadosInv, DadosTypeOK
  <2>2. idStatus' \in Columns
      BY <1>1, <2>1 DEF DadosInv, DadosTypeOK, Writes, ColumnWritten
  <2>3. writer' \in [Writers -> Writes]
      BY <1>3 DEF WriteBack, DadosInv, DadosTypeOK
  <2>4. raced' \in BOOLEAN /\ replaced' \in BOOLEAN /\ apart' \in BOOLEAN
      BY <1>1 DEF DadosInv, DadosTypeOK
  <2> QED BY <1>1, <1>2, <2>2, <2>3, <2>4 DEF DadosInv, DadosTypeOK
<1>5. CopiesSingle'
  <2>1. ~replaced' => ~replaced /\ q.op # "replace"
      BY <1>1
  <2>2. ~replaced' => \A s, t \in dados'.open : s = t
      BY <1>1, <1>2, <2>1
  <2>3. ASSUME NEW v \in Writers, v # w
        PROVE  /\ ~replaced' => \A s, t \in writer'[v].copy.open : s = t
               /\ writer'[v].op = "start" => writer'[v].copy.open = {}
               /\ writer'[v].op \in {"start", "close"} => writer'[v].session \in Sessions
               /\ writer'[v].op = "close" => writer'[v].session \in writer'[v].copy.open
               /\ writer'[v].op = "status" => Allowed(writer'[v].copy.state, writer'[v].to)
      BY <1>1, <2>1, <2>3 DEF DadosInv, CopiesSingle
  <2> QED BY <1>1, <1>3, <2>2, <2>3 DEF CopiesSingle
\* The state that is written goes with its column, or the write is named apart.
<1>6. ASSUME ~raced', ~apart' PROVE dados'.state = idStatus'
  <2>1. CASE q.op \in StateWrites
    <3>1. q.column = q.to
        BY <1>1, <1>6, <2>1
    <3>2. q.to # NoStatus
        BY DadosAssumption DEF DadosInv, DadosTypeOK, Writes
    <3>3. idStatus' = q.to
        BY <1>1, <2>1, <3>1, <3>2 DEF ColumnWritten, StateWrites
    <3> QED BY <1>1, <1>2, <2>1, <3>3 DEF StateWrites
  <2>2. CASE q.op \notin StateWrites
    <3>1. ~apart /\ q.op # "replace"
        BY <1>1, <1>6, <2>2
    <3>2. q.copy = dados /\ dados.state = idStatus /\ idStatus' = idStatus
        BY <1>1, <1>6, <2>2, <3>1 DEF DadosInv, TakingTurns, ColumnWritten, StateWrites
    <3> QED BY <1>1, <1>2, <2>2, <3>1, <3>2
  <2> QED BY <2>1, <2>2
<1>7. TakingTurns'
    BY <1>1, <1>3, <1>6 DEF DadosInv, TakingTurns
<1>8. ASSUME ~raced', ~replaced'
      PROVE  /\ dados.open \subseteq dados'.open \cup dados'.closed
             /\ dados.closed \subseteq dados'.closed
             /\ dados.state = Validated /\ dados'.state # Validated =>
                   \E v \in Writers : writer[v].op = "cascade"
  <2>1. q.op # "replace" /\ q.copy = dados
      BY <1>1, <1>8 DEF DadosInv, TakingTurns
  <2>2. q.op = "status" => dados.state # Validated
      BY <2>1 DEF DadosInv, CopiesSingle, Allowed
  <2> QED BY <1>1, <1>2, <2>1, <2>2 DEF StateWrites
<1>9. ~replaced' => \A s, t \in dados'.open : s = t
    BY <1>5 DEF CopiesSingle
<1> QED BY <1>4, <1>5, <1>6, <1>7, <1>8, <1>9 DEF DadosInv, NothingLostAlone

\* A step that leaves the row alone loses nothing.
LEMMA NothingLostUnchanged ==
    ASSUME DadosInv', UNCHANGED dados
    PROVE  NothingLostAlone /\ (~replaced' => \A s, t \in dados'.open : s = t)
BY DEF DadosInv, CopiesSingle, TakingTurns, NothingLostAlone

LEMMA DadosNextInv ==
    ASSUME DadosInv, [DadosNext]_dadosVars
    PROVE  /\ DadosInv' /\ NothingLostAlone
           /\ ~replaced' => \A s, t \in dados'.open : s = t
<1>1. CASE UNCHANGED dadosVars
  <2>1. DadosInv'
      BY <1>1 DEF dadosVars, DadosInv, DadosTypeOK, CopiesSingle, TakingTurns
  <2> QED BY <1>1, <2>1, NothingLostUnchanged DEF dadosVars
<1>2. CASE DadosNext
  <2> PICK w \in Writers :
        \/ StatusRead(w) \/ CascadeRead(w) \/ UpdateRead(w)
        \/ StartRead(w) \/ CloseRead(w) \/ WriteBack(w) \/ GivesUp(w)
      BY <1>2 DEF DadosNext
  <2>1. CASE StatusRead(w)
    <3>1. PICK to \in Statuses : \E col \in {to, idStatus} :
             Allowed(dados.state, to) /\ Reads(w, "status", to, col, NoSession)
        BY <2>1 DEF StatusRead
    <3>2. PICK col \in Columns : Reads(w, "status", to, col, NoSession)
        BY <3>1 DEF DadosInv, DadosTypeOK, Columns
    <3> QED BY <3>1, <3>2, ReadsInv, NothingLostUnchanged
  <2>2. CASE CascadeRead(w)
      BY <2>2, ReadsInv, NothingLostUnchanged DEF CascadeRead
  <2> NoStatus \in Columns
      BY DEF Columns
  <2>3. CASE UpdateRead(w)
      BY <2>3, ReadsInv, NothingLostUnchanged, DadosAssumption DEF UpdateRead
  <2>4. CASE StartRead(w)
      BY <2>4, ReadsInv, NothingLostUnchanged, DadosAssumption DEF StartRead, NoneOpen
  <2>5. CASE CloseRead(w)
    <3>1. dados.open \subseteq Sessions
        BY DEF DadosInv, DadosTypeOK, Rows
    <3> QED BY <2>5, <3>1, ReadsInv, NothingLostUnchanged, DadosAssumption DEF CloseRead
  <2>6. CASE WriteBack(w)
      BY <2>6, WriteBackInv
  <2>7. CASE GivesUp(w)
    <3>1. /\ \A v \in Writers : v # w => writer'[v] = writer[v]
          /\ writer'[w] = NoWrite
          /\ UNCHANGED <<dados, idStatus, raced, replaced, apart>>
        BY <2>7 DEF GivesUp, DadosInv, DadosTypeOK
    <3>2. NoWrite \in Writes /\ NoWrite.op = "idle" /\ NoWrite.copy.open = {}
        BY DadosAssumption DEF NoWrite, NewRow, Writes, Rows, Columns
    <3>3. DadosTypeOK'
        BY <2>7, <3>2 DEF GivesUp, DadosInv, DadosTypeOK
    <3>4. CopiesSingle' /\ TakingTurns'
        BY <3>1, <3>2 DEF DadosInv, CopiesSingle, TakingTurns
    <3> QED BY <3>1, <3>3, <3>4, NothingLostUnchanged DEF DadosInv
  <2> QED BY <2>1, <2>2, <2>3, <2>4, <2>5, <2>6, <2>7
<1> QED BY <1>1, <1>2

\* DadosSound (task-timer.service.ts, tasks.service.ts): for any number of writers, states
\* and sessions and however stale the copies written back, no row gets two open sessions
\* unless an edit replaced the telemetry; and nothing is lost, reopened or disagrees while
\* the writers take turns, but for the named edits and writes that found no status row.
THEOREM DadosSoundHolds == DadosSpec => DadosSound
<1>1. DadosInv /\ [DadosNext]_dadosVars => DadosInv'
    BY DadosNextInv
<1>2. DadosInv /\ DadosInv' /\ [DadosNext]_dadosVars
        => [/\ ~replaced' => \A s, t \in dados'.open : s = t
            /\ NothingLostAlone]_dadosVars
    BY DadosNextInv
<1> QED BY <1>1, <1>2, DadosInitInv, PTL DEF DadosSpec, DadosSound

-----------------------------------------------------------------------------
(* TemplateCopy.                                                           *)

\* A node has a chave that was given, and a parent of its class with one.
ParentsKnown ==
    /\ \A k \in Keys : node[k].state # "unborn" => k <= born
    /\ \A k \in Keys : node[k].idPai # 0 =>
          node[k].idPai <= born /\ node[node[k].idPai].class = node[k].class
    /\ \A k \in Keys : k > born => node[k] = Unborn

\* A parent is older than its children as long as nothing was moved below a younger one.
ParentsOlder == "below younger" \notin edited => \A k \in Keys : node[k].idPai < k

\* Between the reads the copies are those of the phases read, and they lie in no block.
CopiesOfPhases ==
    /\ copyAt = "before" => clone = [k \in Keys |-> NoClone] /\ phasesRead = {}
    /\ copyAt = "between" =>
          /\ \A k \in Keys : clone[k].there <=> k \in phasesRead
          /\ \A k \in Keys \ phasesRead : clone[k] = NoClone
          /\ \A k \in phasesRead : node[k].class = "phase" /\ clone[k].idBloco = 0
                                   /\ clone[k].idPai \in phasesRead \cup {0}

\* They are still what would be read, unless something was changed between the reads.
PhasesFresh ==
    copyAt = "between" /\ "between" \notin edited =>
        /\ phasesRead = LiveNodes("phase")
        /\ \A k \in phasesRead : clone[k].idPai = ParentCopy(k, phasesRead)

CopyInv ==
    /\ CopyTypeOK
    /\ ParentsKnown
    /\ ParentsOlder
    /\ CopiesOfPhases
    /\ PhasesFresh
    /\ CopySound

LEMMA NodeRecords == Unborn \in Nodes /\ NoClone \in Clones
BY CopyAssumption DEF Unborn, Nodes, NoClone, Clones

LEMMA CopyInitInv == CopyInit => CopyInv
<1> SUFFICES ASSUME CopyInit PROVE CopyInv
    OBVIOUS
<1>1. CopyTypeOK
    BY CopyAssumption, NodeRecords DEF CopyInit, CopyTypeOK
<1>2. \A k \in Keys : /\ node[k] = Unborn /\ Unborn.idPai = 0 /\ Unborn.state = "unborn"
                      /\ clone[k] = NoClone /\ ~NoClone.there
                      /\ NoClone.idPai = 0 /\ NoClone.idBloco = 0
    BY DEF CopyInit, Unborn, NoClone
<1>3. Keys \subseteq Nat \ {0}
    BY CopyAssumption DEF Keys
<1>4. ParentsKnown /\ ParentsOlder
    BY <1>2, <1>3 DEF CopyInit, ParentsKnown, ParentsOlder
<1>5. CopiesOfPhases /\ PhasesFresh
    BY <1>2 DEF CopyInit, CopiesOfPhases, PhasesFresh
<1>6. SameShape /\ SameBlock
    BY DEF CopyInit, SameShape, SameBlock
<1>7. CopyClosed
    BY <1>2 DEF CopyClosed
<1> QED BY <1>1, <1>4, <1>5, <1>6, <1>7 DEF CopyInv, CopySound

\* What a move does: the new parent is a live node of the class of the one that moves.
MovesTo(k, p, what) ==
    /\ k \in Keys /\ node[k].state = "live" /\ p # k
    /\ p = 0 \/ (p \in Keys /\ node[p].state = "live" /\ node[p].class = node[k].class)
    /\ node' = [node EXCEPT ![k].idPai = p] /\ born' = born
    /\ p > k => "below younger" \in what
    /\ what \subseteq {"below younger"}

LEMMA MoveNodeIs ==
    ASSUME MoveNode PROVE \E k, p, what : MovesTo(k, p, what) /\ Edit(what)
<1>1. PICK k \in Keys : \E p \in LiveNodes(node[k].class) \cup {0} :
        /\ node[k].state = "live" /\ p # k
        /\ node' = [node EXCEPT ![k].idPai = p] /\ born' = born
        /\ Edit({e \in {"below younger"} : p > k})
    BY DEF MoveNode
<1> PICK class : class = node[k].class
    OBVIOUS
<1>2. PICK p \in LiveNodes(class) \cup {0} :
        /\ node[k].state = "live" /\ p # k
        /\ node' = [node EXCEPT ![k].idPai = p] /\ born' = born
        /\ Edit({e \in {"below younger"} : p > k})
    BY <1>1
<1> DEFINE what == {e \in {"below younger"} : p > k}
<1>3. what \subseteq {"below younger"} /\ (p > k => "below younger" \in what)
    OBVIOUS
<1>4. Edit(what)
    BY <1>2
<1>5. p = 0 \/ (p \in Keys /\ node[p].state = "live" /\ node[p].class = class)
    BY DEF LiveNodes
<1> HIDE DEF what
<1>6. MovesTo(k, p, what)
    BY <1>2, <1>3, <1>5 DEF MovesTo
<1> QED BY <1>4, <1>6

LEMMA CopyStepType == CopyTypeOK /\ [CopyNext]_copyVars => CopyTypeOK'
<1> SUFFICES ASSUME CopyTypeOK, CopyNext PROVE CopyTypeOK'
    BY DEF CopyTypeOK, copyVars
<1>0. MaxNodes \in Nat /\ Keys = 1..MaxNodes
    BY CopyAssumption DEF Keys
<1>1. CASE CreateNode
  <2> PICK class \in {"phase", "task"}, b \in LiveNodes("phase") \cup {0} :
      \E p \in LiveNodes(class) \cup {0} :
        /\ born < MaxNodes
        /\ class = "phase" => b = 0
        /\ born' = born + 1
        /\ node' = [node EXCEPT ![born + 1] = [class |-> class, idPai |-> p, idBloco |-> b,
                                               state |-> "live"]]
        /\ Edit({})
      BY <1>1 DEF CreateNode
  <2> PICK p \in LiveNodes(class) \cup {0} :
        /\ born < MaxNodes
        /\ born' = born + 1
        /\ node' = [node EXCEPT ![born + 1] = [class |-> class, idPai |-> p, idBloco |-> b,
                                               state |-> "live"]]
        /\ Edit({})
      OBVIOUS
  <2>1. p \in 0..MaxNodes /\ b \in 0..MaxNodes
      BY <1>0 DEF LiveNodes
  <2>2. [class |-> class, idPai |-> p, idBloco |-> b, state |-> "live"] \in Nodes
      BY <2>1 DEF Nodes
  <2>3. born' \in 0..MaxNodes /\ node' \in [Keys -> Nodes]
      BY <1>0, <2>2 DEF CopyTypeOK
  <2> QED BY <2>3 DEF Edit, CopyTypeOK, Edits
<1>2. CASE MoveNode
  <2>1. PICK k, p, what : MovesTo(k, p, what) /\ Edit(what)
      BY <1>2, MoveNodeIs
  <2>2. k \in Keys /\ (p = 0 \/ p \in Keys)
      BY <2>1 DEF MovesTo
  <2>3. /\ node' = [node EXCEPT ![k].idPai = p] /\ born' = born
        /\ what \subseteq {"below younger"}
      BY <2>1 DEF MovesTo
  <2>4. p \in 0..MaxNodes
      BY <1>0, <2>2
  <2>5. [node[k] EXCEPT !.idPai = p] \in Nodes
      BY <2>2, <2>4 DEF CopyTypeOK, Nodes
  <2>6. node' \in [Keys -> Nodes]
      BY <2>2, <2>3, <2>5 DEF CopyTypeOK
  <2> QED BY <2>1, <2>3, <2>6 DEF Edit, CopyTypeOK, Edits
<1>3. CASE DeleteNode
  <2>1. node' \in [Keys -> Nodes]
      BY <1>3 DEF DeleteNode, CopyTypeOK, Nodes
  <2> QED BY <1>3, <2>1 DEF DeleteNode, Edit, CopyTypeOK, Edits
<1>4. \A k \in Keys : \A S : ParentCopy(k, S) \in 0..MaxNodes
    BY <1>0 DEF ParentCopy, CopyTypeOK, Nodes
<1>5. CASE CopyPhases
  <2>1. clone' \in [Keys -> Clones]
      BY <1>0, <1>4, <1>5, NodeRecords DEF CopyPhases, Clones
  <2> QED BY <1>5, <2>1 DEF CopyPhases, CopyTypeOK, LiveNodes
<1>6. CASE CopyTasks
  <2>1. \A k \in Keys : BlockCopy(k) \in 0..MaxNodes
      BY <1>0 DEF BlockCopy, CopyTypeOK, Nodes
  <2>2. \A k \in Keys : [there |-> TRUE, idPai |-> ParentCopy(k, LiveNodes("task")),
                         idBloco |-> BlockCopy(k)] \in Clones
      BY <1>4, <2>1 DEF Clones
  <2>3. clone' \in [Keys -> Clones]
      BY <1>6, <2>2 DEF CopyTasks, CopyTypeOK
  <2> QED BY <1>6, <2>3 DEF CopyTasks, CopyTypeOK
<1> QED BY <1>1, <1>2, <1>3, <1>5, <1>6 DEF CopyNext

\* The nodes read come in an order: of some of them one has no other before it.
LEMMA FirstRead ==
    ASSUME CopyTypeOK, NEW S, S \subseteq Keys, S # {}
    PROVE  \E k \in S : \A j \in S : ~ComesBefore(j, k)
<1>0. S \subseteq Nat /\ \A k \in S : node[k].idPai \in Nat
    BY CopyAssumption DEF Keys, CopyTypeOK, Nodes
<1>1. IsWellFoundedOn(OpToRel(<, Nat), Nat)
    BY NatLessThanWellFounded
<1>2. ASSUME NEW T, T \subseteq Nat, T # {} PROVE \E i \in T : \A j \in T : ~(j < i)
  <2>1. PICK i \in T : \A j \in T : ~(<<j, i>> \in OpToRel(<, Nat))
      BY <1>1, <1>2, WFMin, Zenon
  <2> QED BY <1>2, <2>1 DEF OpToRel
<1> DEFINE T == {node[k].idPai : k \in S}
<1>3. PICK i \in T : \A j \in T : ~(j < i)
  <2>1. T \subseteq Nat /\ T # {}
      BY <1>0
  <2> HIDE DEF T
  <2> QED BY <1>2, <2>1
<1> DEFINE U == {k \in S : node[k].idPai = i}
<1>4. PICK k \in U : \A j \in U : ~(j < k)
  <2>1. U \subseteq Nat /\ U # {}
      BY <1>0, <1>3
  <2> HIDE DEF U
  <2> QED BY <1>2, <2>1
<1>5. ASSUME NEW j \in S, ComesBefore(j, k) PROVE FALSE
    BY <1>0, <1>3, <1>4, <1>5 DEF ComesBefore
<1> QED BY <1>4, <1>5

\* The parents the copies point to are copied, and without a cycle.
LEMMA ParentCopies ==
    ASSUME CopyTypeOK, NEW R, R \subseteq Keys
    PROVE  /\ \A k \in R : ParentCopy(k, R) \in R \cup {0}
           /\ \A S \in SUBSET R : S # {} => \E k \in S : ParentCopy(k, R) \notin S
<1>1. \A k \in R : ParentCopy(k, R) \in R \cup {0}
    BY DEF ParentCopy
<1>2. ASSUME NEW S \in SUBSET R, S # {} PROVE \E k \in S : ParentCopy(k, R) \notin S
  <2>1. PICK k \in S : \A j \in S : ~ComesBefore(j, k)
      BY <1>2, FirstRead
  <2>2. 0 \notin S
      BY CopyAssumption DEF Keys
  <2> QED BY <2>1, <2>2 DEF ParentCopy
<1> QED BY <1>1, <1>2

\* While a parent is older than its child, it is read before it.
LEMMA ParentReadBefore ==
    ASSUME CopyTypeOK, ParentsKnown, \A i \in Keys : node[i].idPai < i,
           NEW R, R \subseteq Keys, NEW k \in R
    PROVE  ParentCopy(k, R) = IF node[k].idPai \in R THEN node[k].idPai ELSE 0
<1> PICK p : p = node[k].idPai
    OBVIOUS
<1>1. CASE p \in R
  <2>1. p \in Nat /\ node[p].idPai \in Nat /\ node[p].idPai < p
      BY <1>1, CopyAssumption DEF Keys, CopyTypeOK, Nodes
  <2> QED BY <1>1, <2>1 DEF ParentCopy, ComesBefore
<1>2. CASE p \notin R
    BY <1>2 DEF ParentCopy
<1> QED BY <1>1, <1>2

\* An edit that keeps the parents in order leaves the copies as they are.
LEMMA EditInv ==
    ASSUME CopyInv, CopyTypeOK', NEW what, Edit(what), ParentsKnown', ParentsOlder',
           \A k \in phasesRead : node'[k].class = node[k].class
    PROVE  CopyInv'
<1>1. /\ copyAt # "done" /\ UNCHANGED <<copyAt, phasesRead, clone>>
      /\ copyAt = "between" => "between" \in edited'
    BY DEF Edit
<1>2. CopiesOfPhases'
    BY <1>1 DEF CopyInv, CopiesOfPhases, CopyTypeOK
<1>3. PhasesFresh'
    BY <1>1 DEF PhasesFresh
<1>4. SameShape' /\ SameBlock'
    BY <1>1 DEF SameShape, SameBlock
<1>5. CopyClosed'
    BY <1>1 DEF CopyInv, CopySound, CopyClosed
<1> QED BY <1>2, <1>3, <1>4, <1>5 DEF CopyInv, CopySound

LEMMA CreateNodeInv ==
    ASSUME CopyInv, CopyTypeOK', CreateNode PROVE CopyInv'
<1> PICK class \in {"phase", "task"}, b \in LiveNodes("phase") \cup {0} :
      \E p \in LiveNodes(class) \cup {0} :
        /\ born < MaxNodes
        /\ born' = born + 1
        /\ node' = [node EXCEPT ![born + 1] = [class |-> class, idPai |-> p, idBloco |-> b,
                                               state |-> "live"]]
        /\ Edit({})
    BY DEF CreateNode
<1> PICK p \in LiveNodes(class) \cup {0} :
        /\ born < MaxNodes
        /\ born' = born + 1
        /\ node' = [node EXCEPT ![born + 1] = [class |-> class, idPai |-> p, idBloco |-> b,
                                               state |-> "live"]]
        /\ Edit({})
    OBVIOUS
<1> PICK new : new = born + 1
    OBVIOUS
<1>1. CopyTypeOK /\ ParentsKnown /\ ParentsOlder /\ CopiesOfPhases
    BY DEF CopyInv
<1>2. /\ MaxNodes \in Nat /\ Keys = 1..MaxNodes /\ born \in Nat /\ new \in Keys
      /\ \A k \in Keys : k \in Nat /\ k # 0
    BY <1>1, CopyAssumption DEF Keys, CopyTypeOK
<1>3. /\ \A k \in Keys : k # new => node'[k] = node[k]
      /\ node'[new].class = class /\ node'[new].idPai = p /\ node'[new].state = "live"
    BY <1>1, <1>2 DEF CopyTypeOK
<1>4. /\ p # 0 => p \in Keys /\ p <= born /\ node[p].class = class /\ p # new
      /\ p < new
    BY <1>1, <1>2 DEF LiveNodes, ParentsKnown
<1>5. \A k \in Keys : node[k].idPai \in 0..MaxNodes
    BY <1>1 DEF CopyTypeOK, Nodes
<1>6. ParentsKnown'
  <2>1. \A k \in Keys : node'[k].state # "unborn" => k <= born'
      BY <1>1, <1>2, <1>3 DEF ParentsKnown
  <2>2. ASSUME NEW k \in Keys, node'[k].idPai # 0
        PROVE  node'[k].idPai <= born' /\ node'[node'[k].idPai].class = node'[k].class
    <3>1. CASE k = new
      <4>1. CASE p # 0
          BY <1>2, <1>3, <1>4, <3>1, <4>1
      <4> QED BY <1>3, <2>2, <3>1, <4>1
    <3>2. CASE k # new
      <4> PICK i : i = node[k].idPai
          OBVIOUS
      <4>1. i <= born /\ node[i].class = node[k].class /\ i \in Keys /\ i # new
          BY <1>1, <1>2, <1>3, <1>5, <2>2, <3>2 DEF ParentsKnown
      <4> QED BY <1>2, <1>3, <3>2, <4>1
    <3> QED BY <3>1, <3>2
  <2>3. \A k \in Keys : k > born' => node'[k] = Unborn
      BY <1>1, <1>2, <1>3 DEF ParentsKnown
  <2> QED BY <2>1, <2>2, <2>3 DEF ParentsKnown
<1>7. ParentsOlder'
  <2>1. "below younger" \notin edited' => "below younger" \notin edited
      BY DEF Edit
  <2> QED BY <1>1, <1>3, <1>4, <2>1 DEF ParentsOlder
<1>8. \A k \in phasesRead : node'[k].class = node[k].class
  <2>1. node[new].class = "task"
      BY <1>1, <1>2 DEF ParentsKnown, Unborn
  <2>2. \A k \in phasesRead : k # new
    <3>1. copyAt = "before" => phasesRead = {}
        BY <1>1 DEF CopiesOfPhases
    <3>2. copyAt = "between" => \A k \in phasesRead : node[k].class = "phase"
        BY <1>1 DEF CopiesOfPhases
    <3> QED BY <1>1, <2>1, <3>1, <3>2 DEF CopyTypeOK, Edit
  <2> QED BY <1>1, <1>3, <2>2 DEF CopyTypeOK
<1> QED BY <1>6, <1>7, <1>8, EditInv

LEMMA NotAbove == \A i, j \in Nat : i # j /\ ~(i > j) => i < j
OBVIOUS

LEMMA MoveNodeInv ==
    ASSUME CopyInv, CopyTypeOK', MoveNode PROVE CopyInv'
<1>0. PICK k, p, what : MovesTo(k, p, what) /\ Edit(what)
    BY MoveNodeIs
<1>1. CopyTypeOK /\ ParentsKnown /\ ParentsOlder
    BY DEF CopyInv
<1>a. /\ k \in Keys /\ node[k].state = "live"
      /\ node' = [node EXCEPT ![k].idPai = p] /\ born' = born
      /\ p = 0 \/ (p \in Keys /\ node[p].state = "live" /\ node[p].class = node[k].class)
      /\ p # k
    BY <1>0 DEF MovesTo
<1>2. /\ born \in Nat /\ k \in Nat /\ k # 0 /\ k <= born
      /\ \A i \in Keys : i \in Nat /\ i # 0
    BY <1>1, <1>a, CopyAssumption DEF Keys, CopyTypeOK, ParentsKnown
<1>3. /\ \A i \in Keys : i # k => node'[i] = node[i]
      /\ node'[k].class = node[k].class /\ node'[k].idPai = p /\ node'[k].state = "live"
    BY <1>1, <1>a DEF CopyTypeOK, Nodes
<1>4. /\ p # 0 => p \in Keys /\ p <= born /\ node[p].class = node[k].class
      /\ p \in Nat
    BY <1>1, <1>2, <1>a DEF ParentsKnown
<1>5. \A i \in Keys : node'[i].class = node[i].class
    BY <1>3
<1>6. ParentsKnown'
  <2>1. \A i \in Keys : node'[i].state # "unborn" => i <= born'
      BY <1>1, <1>2, <1>3, <1>a DEF ParentsKnown
  <2>2. ASSUME NEW i \in Keys, node'[i].idPai # 0
        PROVE  node'[i].idPai <= born' /\ node'[node'[i].idPai].class = node'[i].class
    <3>1. CASE i = k
        BY <1>2, <1>3, <1>4, <1>5, <1>a, <2>2, <3>1
    <3>2. CASE i # k
      <4>1. node[i].idPai \in Keys
          BY <1>1, <1>3, <2>2, <3>2, CopyAssumption DEF CopyTypeOK, Nodes, Keys
      <4> QED BY <1>1, <1>3, <1>5, <1>a, <2>2, <3>2, <4>1 DEF ParentsKnown
    <3> QED BY <3>1, <3>2
  <2>3. \A i \in Keys : i > born' => node'[i] = Unborn
      BY <1>1, <1>2, <1>3, <1>a DEF ParentsKnown
  <2> QED BY <2>1, <2>2, <2>3 DEF ParentsKnown
<1>7. ParentsOlder'
  <2> SUFFICES ASSUME "below younger" \notin edited' PROVE \A i \in Keys : node'[i].idPai < i
      BY DEF ParentsOlder
  <2>1. "below younger" \notin edited /\ ~(p > k)
      BY <1>0 DEF Edit, MovesTo
  <2>2. p # k /\ p \in Nat /\ k \in Nat
      BY <1>2, <1>4, <1>a
  <2>3. ~(p > k)
      BY <2>1
  <2>4. p < k
      BY <2>2, <2>3, NotAbove, Zenon
  <2> QED BY <1>1, <1>3, <2>1, <2>4 DEF ParentsOlder
<1> QED BY <1>0, <1>1, <1>5, <1>6, <1>7, EditInv DEF CopyTypeOK

LEMMA DeleteNodeInv ==
    ASSUME CopyInv, CopyTypeOK', DeleteNode PROVE CopyInv'
<1> PICK k \in Keys :
        /\ node[k].state = "live"
        /\ node' = [node EXCEPT ![k].state = "deleted"]
        /\ born' = born
        /\ Edit({})
    BY DEF DeleteNode
<1>1. CopyTypeOK /\ ParentsKnown /\ ParentsOlder
    BY DEF CopyInv
<1>2. \A i \in Keys : /\ node'[i].class = node[i].class /\ node'[i].idPai = node[i].idPai
                      /\ i # k => node'[i] = node[i]
    BY <1>1 DEF CopyTypeOK, Nodes
<1>3. k <= born /\ born \in Nat /\ \A i \in Keys : i \in Nat
    BY <1>1, CopyAssumption DEF ParentsKnown, CopyTypeOK, Keys
<1>4. ParentsKnown'
  <2>1. \A i \in Keys : node'[i].state # "unborn" => i <= born'
      BY <1>1, <1>2, <1>3 DEF ParentsKnown
  <2>2. ASSUME NEW i \in Keys, node'[i].idPai # 0
        PROVE  node'[i].idPai <= born' /\ node'[node'[i].idPai].class = node'[i].class
    <3>1. node[i].idPai \in Keys
        BY <1>1, <1>2, <2>2, CopyAssumption DEF CopyTypeOK, Nodes, Keys
    <3> QED BY <1>1, <1>2, <2>2, <3>1 DEF ParentsKnown
  <2>3. \A i \in Keys : i > born' => node'[i] = Unborn
      BY <1>1, <1>2, <1>3 DEF ParentsKnown
  <2> QED BY <2>1, <2>2, <2>3 DEF ParentsKnown
<1>5. ParentsOlder'
  <2>1. "below younger" \notin edited' => "below younger" \notin edited
      BY DEF Edit
  <2> QED BY <1>1, <1>2, <2>1 DEF ParentsOlder
<1> QED BY <1>1, <1>2, <1>4, <1>5, EditInv DEF CopyTypeOK

LEMMA CopyPhasesInv ==
    ASSUME CopyInv, CopyTypeOK', CopyPhases PROVE CopyInv'
<1> PICK R : R = LiveNodes("phase")
    OBVIOUS
<1>1. CopyTypeOK /\ ParentsKnown /\ ParentsOlder
    BY DEF CopyInv
<1>2. /\ UNCHANGED <<node, born, edited>> /\ copyAt' = "between" /\ phasesRead' = R
      /\ R \subseteq Keys
      /\ \A k \in R : node[k].class = "phase"
      /\ LiveNodes("phase")' = R
    BY DEF CopyPhases, LiveNodes
<1>3. /\ \A k \in R : /\ clone'[k].there /\ clone'[k].idPai = ParentCopy(k, R)
                      /\ clone'[k].idBloco = 0
      /\ \A k \in Keys \ R : clone'[k] = NoClone
    BY <1>2 DEF CopyPhases
<1>4. ~NoClone.there /\ NoClone.idPai = 0 /\ NoClone.idBloco = 0
    BY DEF NoClone
<1>5. \A k \in R : ParentCopy(k, R) \in R \cup {0}
    BY <1>1, <1>2, ParentCopies
<1>6. ParentsKnown' /\ ParentsOlder'
    BY <1>1, <1>2 DEF ParentsKnown, ParentsOlder
<1>7. CopiesOfPhases'
    BY <1>2, <1>3, <1>4, <1>5 DEF CopiesOfPhases
<1>8. PhasesFresh'
  <2>1. \A k \in R : ParentCopy(k, R)' = ParentCopy(k, R)
      BY <1>2 DEF ParentCopy, ComesBefore
  <2> QED BY <1>2, <1>3, <2>1 DEF PhasesFresh
<1>9. SameShape' /\ SameBlock'
    BY <1>2 DEF SameShape, SameBlock
<1>10. CopyClosed'
  <2>1. 0 \notin Keys
      BY CopyAssumption DEF Keys
  <2>2. (\A k \in Keys : clone[k].idPai # 0 => clone[k].there /\ clone[clone[k].idPai].there)'
      BY <1>2, <1>3, <1>4, <1>5
  <2>3. (\A k \in Keys : clone[k].idBloco # 0 => clone[clone[k].idBloco].there)'
      BY <1>3, <1>4
  <2>4. ASSUME NEW S \in SUBSET {k \in Keys : clone'[k].there}, S # {}
        PROVE  \E k \in S : clone'[k].idPai \notin S
    <3>1. S \subseteq R
        BY <1>3, <1>4
    <3>2. \E k \in S : ParentCopy(k, R) \notin S
        BY <1>1, <1>2, <2>4, <3>1, ParentCopies
    <3> QED BY <1>3, <3>1, <3>2
  <2> QED BY <2>2, <2>3, <2>4 DEF CopyClosed
<1> QED BY <1>6, <1>7, <1>8, <1>9, <1>10 DEF CopyInv, CopySound

LEMMA CopyTasksInv ==
    ASSUME CopyInv, CopyTypeOK', CopyTasks PROVE CopyInv'
<1> PICK R : R = LiveNodes("task")
    OBVIOUS
<1>1. CopyTypeOK /\ ParentsKnown /\ ParentsOlder /\ CopiesOfPhases /\ PhasesFresh /\ CopyClosed
    BY DEF CopyInv, CopySound
<1>2. /\ UNCHANGED <<node, born, phasesRead, edited>> /\ copyAt = "between" /\ copyAt' = "done"
      /\ R \subseteq Keys
      /\ \A k \in R : node[k].class = "task" /\ node[k].state = "live"
      /\ LiveNodes("task")' = R /\ LiveNodes("phase")' = LiveNodes("phase")
    BY DEF CopyTasks, LiveNodes
<1>3. /\ \A k \in R : /\ clone'[k].there /\ clone'[k].idPai = ParentCopy(k, R)
                      /\ clone'[k].idBloco = BlockCopy(k)
      /\ \A k \in Keys \ R : clone'[k] = clone[k]
    BY <1>2 DEF CopyTasks
<1>4. ~NoClone.there /\ NoClone.idPai = 0 /\ NoClone.idBloco = 0
    BY DEF NoClone
<1>5. \A k \in R : ParentCopy(k, R) \in R \cup {0}
    BY <1>1, <1>2, ParentCopies
<1>6. ParentsKnown' /\ ParentsOlder'
    BY <1>1, <1>2 DEF ParentsKnown, ParentsOlder
<1>7. CopiesOfPhases' /\ PhasesFresh'
    BY <1>2 DEF CopiesOfPhases, PhasesFresh
<1>8. /\ phasesRead \subseteq Keys \ R
      /\ \A k \in Keys : clone[k].there <=> k \in phasesRead
      /\ \A k \in Keys \ phasesRead : clone[k] = NoClone
      /\ \A k \in phasesRead : clone[k].idBloco = 0 /\ clone[k].idPai \in phasesRead \cup {0}
    BY <1>1, <1>2 DEF CopiesOfPhases, CopyTypeOK
<1>9. CopyClosed'
  <2>1. 0 \notin Keys
      BY CopyAssumption DEF Keys
  <2>2. \A k \in Keys : clone'[k].there <=> k \in R \cup phasesRead
      BY <1>3, <1>8
  <2>3. (\A k \in Keys : clone[k].idPai # 0 => clone[k].there /\ clone[clone[k].idPai].there)'
      BY <1>2, <1>3, <1>4, <1>5, <1>8, <2>2
  <2>4. (\A k \in Keys : clone[k].idBloco # 0 => clone[clone[k].idBloco].there)'
    <3>1. \A k \in R : BlockCopy(k) \in phasesRead \cup {0}
        BY DEF BlockCopy
    <3> QED BY <1>3, <1>4, <1>8, <2>2, <3>1
  <2>5. ASSUME NEW S \in SUBSET {k \in Keys : clone'[k].there}, S # {}
        PROVE  \E k \in S : clone'[k].idPai \notin S
    <3>1. S \subseteq R \cup phasesRead
        BY <2>2
    <3>2. CASE S \subseteq R
      <4>1. \E k \in S : ParentCopy(k, R) \notin S
          BY <1>1, <1>2, <2>5, <3>2, ParentCopies
      <4> QED BY <1>3, <3>2, <4>1
    <3>3. CASE ~(S \subseteq R)
      <4> PICK U : U = S \cap phasesRead
          OBVIOUS
      <4>1. U # {} /\ U \in SUBSET {k \in Keys : clone[k].there}
          BY <1>8, <3>1, <3>3
      <4>2. PICK k \in U : clone[k].idPai \notin U
          BY <1>1, <4>1 DEF CopyClosed
      <4>3. clone'[k].idPai \in phasesRead \cup {0} /\ clone'[k].idPai \notin U
          BY <1>3, <1>8, <4>2
      <4> QED BY <2>1, <4>3
    <3> QED BY <3>2, <3>3
  <2> QED BY <2>3, <2>4, <2>5 DEF CopyClosed
<1>10. SameBlock'
  <2> SUFFICES ASSUME "between" \notin edited
               PROVE  \A k \in R : clone'[k].idBloco = (IF node[k].idBloco \in LiveNodes("phase")
                                                        THEN node[k].idBloco ELSE 0)
      BY <1>2 DEF SameBlock
  <2>1. phasesRead = LiveNodes("phase")
      BY <1>1, <1>2 DEF PhasesFresh
  <2> QED BY <1>3, <2>1 DEF BlockCopy
<1>11. SameShape'
  <2> SUFFICES ASSUME edited = {}, NEW k \in Keys, node[k].state = "live"
               PROVE  clone'[k].idPai = (IF node[k].idPai # 0
                                            /\ node[node[k].idPai].state = "live"
                                         THEN node[k].idPai ELSE 0)
      BY <1>2 DEF SameShape
  <2> PICK p : p = node[k].idPai
      OBVIOUS
  <2>1. \A i \in Keys : node[i].idPai < i
      BY <1>1 DEF ParentsOlder
  <2>2. p # 0 => p \in Keys /\ node[p].class = node[k].class
    <3>1. p \in 0..MaxNodes
        BY <1>1 DEF CopyTypeOK, Nodes
    <3>2. p # 0 => p \in Keys
        BY <3>1, CopyAssumption DEF Keys
    <3> QED BY <1>1, <3>2 DEF ParentsKnown
  <2>3. 0 \notin Keys
      BY CopyAssumption DEF Keys
  <2>4. CASE node[k].class = "task"
    <3>1. k \in R /\ (p \in R <=> p # 0 /\ node[p].state = "live")
        BY <2>2, <2>3, <2>4 DEF LiveNodes
    <3>2. ParentCopy(k, R) = IF p \in R THEN p ELSE 0
        BY <1>1, <1>2, <2>1, <3>1, ParentReadBefore
    <3> QED BY <1>3, <3>1, <3>2
  <2>5. CASE node[k].class = "phase"
    <3>1. /\ k \in phasesRead /\ (p \in phasesRead <=> p # 0 /\ node[p].state = "live")
          /\ clone[k].idPai = ParentCopy(k, phasesRead)
        BY <1>1, <1>2, <2>2, <2>3, <2>5 DEF PhasesFresh, LiveNodes
    <3>2. ParentCopy(k, phasesRead) = IF p \in phasesRead THEN p ELSE 0
        BY <1>1, <1>8, <2>1, <3>1, ParentReadBefore
    <3> QED BY <1>3, <1>8, <3>1, <3>2
  <2> QED BY <1>1, <2>4, <2>5 DEF CopyTypeOK, Nodes
<1> QED BY <1>6, <1>7, <1>9, <1>10, <1>11 DEF CopyInv, CopySound

\* No step of the copy or of those who work in the source breaks the invariant.
LEMMA CopyNextInv == CopyInv /\ [CopyNext]_copyVars => CopyInv'
<1> SUFFICES ASSUME CopyInv, [CopyNext]_copyVars PROVE CopyInv'
    OBVIOUS
<1>1. CopyTypeOK'
    BY CopyStepType DEF CopyInv
<1>2. CASE UNCHANGED copyVars
    BY <1>2 DEF copyVars, CopyInv, CopyTypeOK, ParentsKnown, ParentsOlder, CopiesOfPhases,
                PhasesFresh, ParentCopy, ComesBefore, LiveNodes, CopySound, SameShape,
                SameBlock, CopyClosed
<1>3. CASE CopyNext
    BY <1>1, <1>3, CreateNodeInv, MoveNodeInv, DeleteNodeInv, CopyPhasesInv, CopyTasksInv
       DEF CopyNext
<1> QED BY <1>2, <1>3

\* CopySound (projects.service.ts, cloneTree): for a list of any size, whatever is created,
\* moved and deleted in it around the two reads, the copy is closed and has no cycle; its
\* phases and tasks lie as those of the source do unless something was changed between the
\* reads, or moved below a younger node.
THEOREM CopySoundHolds == CopySpec => []CopySound
<1>1. CopyInv => CopySound
    BY DEF CopyInv
<1> QED BY <1>1, CopyInitInv, CopyNextInv, PTL DEF CopySpec

-----------------------------------------------------------------------------
(* FlowHistory.                                                            *)

\* The events of a task up to the end of a part: those on their way, and those recorded.
OnItsWay(t, p) == {i \in DOMAIN emitted : emitted[i].task = t /\ emitted[i].at <= p}
Recorded(t, p) == {i \in DOMAIN journal : journal[i].task = t /\ journal[i].criadoEm <= p}
IsLast(i, S)   == i \in S /\ \A j \in S : j <= i

\* The last event of a task on its way, else the last recorded, else its creation, tells
\* the status the task had at the end of a part.
TellsOn(t, p) ==
    /\ \A i \in DOMAIN emitted : IsLast(i, OnItsWay(t, p)) => columnAt[t][p] = emitted[i].to
    /\ OnItsWay(t, p) = {} =>
          /\ \A i \in DOMAIN journal : IsLast(i, Recorded(t, p)) => columnAt[t][p] = journal[i].to
          /\ Recorded(t, p) = {} => columnAt[t][p] = InboxStatus
EventsTell ==
    \A t \in FlowTasks \ strayed : column[t] # "unborn" =>
        \A day \in 0..LastDay : bornAt[t] <= DayEnd(day) => TellsOn(t, DayEnd(day))

\* A task has a status from its creation on, and events only since.
BirthKnown ==
    /\ columnAt \in [FlowTasks -> [Parts -> FlowStatuses \cup {"unborn"}]]
    /\ \A t \in FlowTasks :
          /\ column[t] = "unborn" => /\ \A i \in DOMAIN emitted : emitted[i].task # t
                                     /\ \A i \in DOMAIN journal : journal[i].task # t
                                     /\ \A p \in Parts : columnAt[t][p] = "unborn"
          /\ column[t] # "unborn" => /\ bornAt[t] \in 0..clock
                                     /\ \A p \in Parts : columnAt[t][p] = "unborn" <=> p < bornAt[t]
    /\ \A i \in DOMAIN emitted : emitted[i].at <= clock

FlowInv == FlowTypeOK /\ BirthKnown /\ EventsTell

\* Parts and the ends of the days are numbers.
LEMMA PartsAre ==
    /\ \A p \in Parts : p \in Int /\ p >= 0
    /\ \A day \in 0..LastDay : DayEnd(day) = 2 * day + 1 /\ DayEnd(day) \in Parts
    /\ NoPart \notin Parts /\ NoPart \in Int
BY FlowAssumption DEF Parts, DayEnd, NoPart

\* Up to the end of a day of UTC there is as much of it in one of its parts as in the other.
LEMMA SameDay ==
    ASSUME NEW p \in Parts, NEW q \in Parts, p <= q, ~(p \div 2 < q \div 2), NEW day \in 0..LastDay
    PROVE  p <= DayEnd(day) <=> q <= DayEnd(day)
BY FlowAssumption DEF Parts, DayEnd

LEMMA GreatestOf ==
    ASSUME NEW n \in Nat, NEW S \in SUBSET (1..n), S # {}
    PROVE  \E i \in S : \A j \in S : j <= i
<1> DEFINE T == {k \in 0..n : \A j \in S : j <= k}
<1>1. n \in T
    OBVIOUS
<1>2. PICK k \in T : \A m \in T : k <= m
  <2>1. \A m \in T : m \in Nat
      OBVIOUS
  <2>2. T \in SUBSET Nat /\ T # {}
      BY <1>1, <2>1
  <2> HIDE DEF T
  <2>3. \E k \in T : \A m \in T : <<m, k>> \notin OpToRel(<, Nat)
      BY <2>2, NatLessThanWellFounded, WFMin, Zenon
  <2>4. PICK k \in T : \A m \in T : <<m, k>> \notin OpToRel(<, Nat)
      BY <2>3
  <2>5. \A m \in T : ~(m < k)
      BY <2>1, <2>4 DEF OpToRel
  <2> QED BY <2>1, <2>5
<1>3. k \in S
  <2> SUFFICES ASSUME k \notin S PROVE FALSE
      OBVIOUS
  <2>1. PICK i \in S : TRUE
      OBVIOUS
  <2>2. \A j \in S : j <= k - 1
      OBVIOUS
  <2>3. k - 1 \in T
      BY <2>1, <2>2
  <2> QED BY <1>2, <2>3
<1> QED BY <1>3

LEMMA LastOfRows ==
    ASSUME NEW S \in SUBSET DOMAIN journal, journal \in Seq(Entry), S # {}
    PROVE  IsLast(CHOOSE i \in S : \A j \in S : j <= i, S)
<1>1. Len(journal) \in Nat /\ S \in SUBSET (1..Len(journal))
    OBVIOUS
<1>2. \E i \in S : \A j \in S : j <= i
    BY <1>1, GreatestOf
<1> QED BY <1>2 DEF IsLast

\* The events on their way without one of them.
LEMMA WithoutIs ==
    ASSUME emitted \in Seq(Change), NEW i \in DOMAIN emitted
    PROVE  /\ Without(i) \in Seq(Change)
           /\ DOMAIN Without(i) = 1..Len(emitted) - 1
           /\ \A j \in 1..Len(emitted) - 1 :
                 Without(i)[j] = IF j < i THEN emitted[j] ELSE emitted[j + 1]
<1>1. \A j \in 1..Len(emitted) - 1 : j \in DOMAIN emitted /\ j + 1 \in DOMAIN emitted
    OBVIOUS
<1>2. Len(emitted) - 1 \in Nat
    OBVIOUS
<1>3. \A j \in 1..Len(emitted) - 1 :
         /\ Without(i)[j] = IF j < i THEN emitted[j] ELSE emitted[j + 1]
         /\ Without(i)[j] \in Change
    BY <1>1 DEF Without
<1>4. DOMAIN Without(i) = 1..Len(emitted) - 1
    BY DEF Without
<1>5. Without(i) \in [1..Len(emitted) - 1 -> Change]
    BY <1>3 DEF Without
<1>6. Without(i) \in Seq(Change)
    BY <1>2, <1>5
<1> QED BY <1>3, <1>4, <1>6

\* The last event on its way stays the last when another goes that is of another task, or
\* the first of its own.
LEMMA WithoutTells ==
    ASSUME FlowTypeOK, NEW i \in DOMAIN emitted, emitted' = Without(i),
           NEW t, NEW p \in Parts, emitted[i].task = t => ~Overtakes(i)
    PROVE  /\ \A j \in DOMAIN emitted' : IsLast(j, OnItsWay(t, p)') =>
                 \E k \in DOMAIN emitted : IsLast(k, OnItsWay(t, p)) /\ emitted[k] = emitted'[j]
           /\ OnItsWay(t, p)' = {} => OnItsWay(t, p) \subseteq {i}
<1>1. /\ emitted \in Seq(Change) /\ DOMAIN emitted = 1..Len(emitted) /\ Len(emitted) \in Nat
      /\ i \in 1..Len(emitted) /\ i \in Int
    BY DEF FlowTypeOK
<1>2. /\ DOMAIN emitted' = 1..Len(emitted) - 1
      /\ \A j \in 1..Len(emitted) - 1 :
            emitted'[j] = IF j < i THEN emitted[j] ELSE emitted[j + 1]
    BY <1>1, WithoutIs
<1>3. \A k \in DOMAIN emitted : k # i =>
         \E j \in DOMAIN emitted' : /\ emitted'[j] = emitted[k]
                                    /\ k = IF j < i THEN j ELSE j + 1
  <2> SUFFICES ASSUME NEW k \in DOMAIN emitted, k # i
               PROVE  \E j \in DOMAIN emitted' : /\ emitted'[j] = emitted[k]
                                                 /\ k = IF j < i THEN j ELSE j + 1
      OBVIOUS
  <2>1. CASE k < i
    <3>1. k \in 1..Len(emitted) - 1
        BY <1>1, <2>1
    <3> QED BY <1>2, <2>1, <3>1
  <2>2. CASE k > i
    <3>1. k - 1 \in 1..Len(emitted) - 1 /\ ~(k - 1 < i) /\ (k - 1) + 1 = k
        BY <1>1, <2>2
    <3> QED BY <1>2, <3>1
  <2> QED BY <1>1, <2>1, <2>2
<1>4. ASSUME NEW j \in DOMAIN emitted', IsLast(j, OnItsWay(t, p)')
      PROVE  \E k \in DOMAIN emitted : IsLast(k, OnItsWay(t, p)) /\ emitted[k] = emitted'[j]
  <2> PICK k : k = IF j < i THEN j ELSE j + 1
      OBVIOUS
  <2>1. k \in DOMAIN emitted /\ emitted'[j] = emitted[k] /\ j \in Int /\ k \in Int
      BY <1>1, <1>2
  <2>2. k \in OnItsWay(t, p)
      BY <1>4, <2>1 DEF IsLast, OnItsWay
  <2>3. ASSUME NEW m \in OnItsWay(t, p) PROVE m <= k
    <3>1. m \in DOMAIN emitted /\ m \in Int /\ emitted[m].task = t /\ emitted[m].at <= p
        BY <1>1 DEF OnItsWay
    <3>2. CASE m = i
      <4>1. ~Overtakes(i)
          BY <3>1, <3>2
      <4>2. k \notin 1..i - 1
          BY <2>2, <3>1, <3>2, <4>1 DEF Overtakes, OnItsWay
      <4> QED BY <1>1, <2>1, <3>2, <4>2
    <3>3. CASE m # i
      <4>1. PICK l \in DOMAIN emitted' : emitted'[l] = emitted[m] /\ m = IF l < i THEN l ELSE l + 1
          BY <1>3, <3>1, <3>3
      <4>2. l \in OnItsWay(t, p)'
          BY <3>1, <4>1 DEF OnItsWay
      <4>3. l <= j /\ l \in Int
          BY <1>2, <1>4, <4>2 DEF IsLast
      <4> QED BY <1>1, <2>1, <4>1, <4>3
    <3> QED BY <3>2, <3>3
  <2> QED BY <2>1, <2>2, <2>3 DEF IsLast
<1>5. ASSUME OnItsWay(t, p)' = {}, NEW m \in OnItsWay(t, p) PROVE m = i
  <2>1. m \in DOMAIN emitted /\ emitted[m].task = t /\ emitted[m].at <= p
      BY DEF OnItsWay
  <2> SUFFICES ASSUME m # i PROVE FALSE
      OBVIOUS
  <2>2. PICK l \in DOMAIN emitted' : emitted'[l] = emitted[m]
      BY <1>3, <2>1
  <2>3. l \in OnItsWay(t, p)'
      BY <2>1, <2>2 DEF OnItsWay
  <2> QED BY <1>5, <2>3
<1> QED BY <1>4, <1>5

\* What is true of the events on their way is true without one of them.
LEMMA WithoutKnown ==
    ASSUME FlowTypeOK, BirthKnown, NEW i \in DOMAIN emitted, emitted' = Without(i)
    PROVE  \A j \in DOMAIN emitted' :
              /\ emitted'[j].at <= clock
              /\ \E k \in DOMAIN emitted : emitted'[j] = emitted[k]
<1>1. /\ emitted \in Seq(Change) /\ DOMAIN emitted = 1..Len(emitted) /\ Len(emitted) \in Nat
    BY DEF FlowTypeOK
<1>2. /\ DOMAIN emitted' = 1..Len(emitted) - 1
      /\ \A j \in 1..Len(emitted) - 1 :
            emitted'[j] = IF j < i THEN emitted[j] ELSE emitted[j + 1]
    BY <1>1, WithoutIs
<1>3. ASSUME NEW j \in DOMAIN emitted' PROVE \E k \in DOMAIN emitted : emitted'[j] = emitted[k]
  <2>1. j \in DOMAIN emitted /\ j + 1 \in DOMAIN emitted
      BY <1>1, <1>2
  <2> QED BY <1>2, <2>1
<1> QED BY <1>3 DEF BirthKnown

\* A status written now is the task's from this part on.
LEMMA ColumnIs ==
    ASSUME FlowTypeOK, BirthKnown, NEW t \in FlowTasks, NEW s \in FlowStatuses, Column(t, s)
    PROVE  /\ column' \in [FlowTasks -> FlowStatuses \cup {"unborn", "deleted"}]
           /\ columnAt' \in [FlowTasks -> [Parts -> FlowStatuses \cup {"unborn"}]]
           /\ column'[t] = s
           /\ \A p \in Parts : columnAt'[t][p] = IF p >= clock THEN s ELSE columnAt[t][p]
           /\ \A u \in FlowTasks : u # t => column'[u] = column[u] /\ columnAt'[u] = columnAt[u]
<1>1. columnAt \in [FlowTasks -> [Parts -> FlowStatuses \cup {"unborn"}]]
    BY DEF BirthKnown
<1>2. [p \in Parts |-> IF p >= clock THEN s ELSE columnAt[t][p]]
         \in [Parts -> FlowStatuses \cup {"unborn"}]
    BY <1>1
<1>3. columnAt' = [columnAt EXCEPT ![t] = [p \in Parts |-> IF p >= clock THEN s ELSE columnAt[t][p]]]
    BY DEF Column
<1>4. columnAt'[t] = [p \in Parts |-> IF p >= clock THEN s ELSE columnAt[t][p]]
    BY <1>1, <1>3
<1> QED BY <1>1, <1>2, <1>3, <1>4 DEF Column, FlowTypeOK

\* A step that adds no event of the task and leaves its statuses leaves its story.
LEMMA TellsKept ==
    ASSUME FlowTypeOK, NEW t, NEW p, TellsOn(t, p), columnAt'[t][p] = columnAt[t][p],
           OnItsWay(t, p)' = OnItsWay(t, p), Recorded(t, p)' = Recorded(t, p),
           \A i \in OnItsWay(t, p) : i \in DOMAIN emitted /\ emitted'[i] = emitted[i],
           \A i \in Recorded(t, p) : i \in DOMAIN journal /\ journal'[i] = journal[i]
    PROVE  TellsOn(t, p)'
BY DEF TellsOn, IsLast

LEMMA FlowInitInv == FlowInit => FlowInv
<1> SUFFICES ASSUME FlowInit PROVE FlowInv
    OBVIOUS
<1>1. 0 \in Parts /\ 0 \in 0..MaxFlowChanges
    BY FlowAssumption DEF Parts
<1>2. \A t \in FlowTasks : /\ column[t] = "unborn" /\ columnAt[t] = [p \in Parts |-> "unborn"]
    BY DEF FlowInit
<1>3. FlowTypeOK
    BY <1>1 DEF FlowInit, FlowTypeOK
<1>4. BirthKnown
  <2>1. columnAt \in [FlowTasks -> [Parts -> FlowStatuses \cup {"unborn"}]]
      BY DEF FlowInit
  <2> QED BY <1>2, <2>1 DEF FlowInit, BirthKnown
<1>5. EventsTell
    BY <1>2 DEF EventsTell
<1> QED BY <1>3, <1>4, <1>5 DEF FlowInv

LEMMA CreateFlowTaskInv ==
    ASSUME FlowInv, NEW t \in FlowTasks, CreateFlowTask(t)
    PROVE  FlowInv'
<1>1. FlowTypeOK /\ BirthKnown /\ EventsTell /\ InboxStatus \in FlowStatuses
      /\ "unborn" \notin FlowStatuses
    BY FlowAssumption DEF FlowInv
<1>2. /\ column[t] = "unborn" /\ clock \in Parts /\ clock \in Int /\ clock >= 0
      /\ bornAt'[t] = clock /\ \A u \in FlowTasks : u # t => bornAt'[u] = bornAt[u]
      /\ UNCHANGED <<clock, emitted, journal, strayed, flowChanges>>
      /\ bornAt' \in [FlowTasks -> Parts \cup {NoPart}]
    BY <1>1, PartsAre DEF CreateFlowTask, FlowTypeOK
<1>3. /\ column' \in [FlowTasks -> FlowStatuses \cup {"unborn", "deleted"}]
      /\ columnAt' \in [FlowTasks -> [Parts -> FlowStatuses \cup {"unborn"}]]
      /\ column'[t] = InboxStatus
      /\ \A p \in Parts : columnAt'[t][p] = IF p >= clock THEN InboxStatus ELSE columnAt[t][p]
      /\ \A u \in FlowTasks : u # t => column'[u] = column[u] /\ columnAt'[u] = columnAt[u]
    BY <1>1, ColumnIs DEF CreateFlowTask
<1>4. FlowTypeOK'
    BY <1>1, <1>2, <1>3 DEF FlowTypeOK
<1>5. /\ \A i \in DOMAIN emitted : emitted[i].task # t
      /\ \A i \in DOMAIN journal : journal[i].task # t
      /\ \A p \in Parts : columnAt[t][p] = "unborn"
    BY <1>1, <1>2 DEF BirthKnown
<1>6. BirthKnown'
  <2>1. \A p \in Parts : columnAt'[t][p] = "unborn" <=> p < clock
      BY <1>1, <1>2, <1>3, <1>5, PartsAre
  <2> QED BY <1>1, <1>2, <1>3, <2>1 DEF BirthKnown
<1>7. ASSUME NEW u \in FlowTasks \ strayed', column'[u] # "unborn", NEW day \in 0..LastDay,
             bornAt'[u] <= DayEnd(day)
      PROVE  TellsOn(u, DayEnd(day))'
  <2> PICK p \in Parts : p = DayEnd(day)
      BY PartsAre
  <2>1. CASE u = t
    <3>1. OnItsWay(t, p)' = {} /\ Recorded(t, p)' = {} /\ columnAt'[t][p] = InboxStatus
        BY <1>2, <1>3, <1>5, <1>7, <2>1, PartsAre DEF OnItsWay, Recorded
    <3>2. TellsOn(t, p)'
        BY <3>1 DEF TellsOn, IsLast
    <3> QED BY <2>1, <3>2 DEF DayEnd
  <2>2. CASE u # t
    <3>1. TellsOn(u, p)
        BY <1>1, <1>2, <1>3, <1>7, <2>2 DEF EventsTell
    <3>2. OnItsWay(u, p)' = OnItsWay(u, p) /\ Recorded(u, p)' = Recorded(u, p)
        BY <1>2 DEF OnItsWay, Recorded
    <3>3. \A i : i \in OnItsWay(u, p) => i \in DOMAIN emitted
        BY DEF OnItsWay
    <3>4. \A i : i \in Recorded(u, p) => i \in DOMAIN journal
        BY DEF Recorded
    <3>5. TellsOn(u, p)'
        BY <1>1, <1>2, <1>3, <2>2, <3>1, <3>2, <3>3, <3>4, TellsKept
    <3> QED BY <3>5 DEF DayEnd
  <2> QED BY <2>1, <2>2
<1> QED BY <1>4, <1>6, <1>7 DEF FlowInv, EventsTell

LEMMA ChangeStatusInv ==
    ASSUME FlowInv, NEW t \in FlowTasks, ChangeStatus(t)
    PROVE  FlowInv'
<1>1. FlowTypeOK /\ BirthKnown /\ EventsTell /\ {"unborn", "deleted"} \cap FlowStatuses = {}
    BY FlowAssumption DEF FlowInv
<1> PICK s \in FlowStatuses \ {column[t]} :
    /\ column[t] \in FlowStatuses \ {FinalStatus}
    /\ flowChanges < MaxFlowChanges /\ flowChanges' = flowChanges + 1
    /\ Column(t, s)
    /\ emitted' = Append(emitted, [task |-> t, to |-> s, at |-> clock])
    /\ UNCHANGED <<clock, bornAt, journal, strayed>>
    BY DEF ChangeStatus
<1> PICK last : last = Len(emitted) + 1
    OBVIOUS
<1>2. /\ clock \in Parts /\ clock \in Int /\ emitted \in Seq(Change)
      /\ [task |-> t, to |-> s, at |-> clock] \in Change
      /\ flowChanges' \in 0..MaxFlowChanges
    BY <1>1, PartsAre, FlowAssumption DEF FlowTypeOK, Change
<1>3. /\ emitted' \in Seq(Change) /\ DOMAIN emitted' = 1..last /\ last \in Int
      /\ DOMAIN emitted = 1..last - 1 /\ last \in DOMAIN emitted' /\ last >= 1
      /\ \A i \in DOMAIN emitted : i \in DOMAIN emitted' /\ emitted'[i] = emitted[i]
      /\ emitted'[last].task = t /\ emitted'[last].to = s /\ emitted'[last].at = clock
    BY <1>2
<1>4. /\ column' \in [FlowTasks -> FlowStatuses \cup {"unborn", "deleted"}]
      /\ columnAt' \in [FlowTasks -> [Parts -> FlowStatuses \cup {"unborn"}]]
      /\ column'[t] = s /\ column[t] # "unborn"
      /\ \A p \in Parts : columnAt'[t][p] = IF p >= clock THEN s ELSE columnAt[t][p]
      /\ \A u \in FlowTasks : u # t => column'[u] = column[u] /\ columnAt'[u] = columnAt[u]
    BY <1>1, ColumnIs
<1>5. FlowTypeOK'
    BY <1>1, <1>2, <1>3, <1>4 DEF FlowTypeOK
<1>6. \A i \in DOMAIN emitted' : i = last \/ i \in DOMAIN emitted
    BY <1>3
<1>7. BirthKnown'
  <2>1. \A p \in Parts : columnAt'[t][p] = "unborn" <=> p < bornAt[t]
    <3>1. /\ bornAt[t] \in 0..clock /\ s # "unborn"
          /\ \A p \in Parts : columnAt[t][p] = "unborn" <=> p < bornAt[t]
        BY <1>1, <1>4 DEF BirthKnown
    <3>2. clock \in Parts /\ Parts \subseteq Nat
        BY <1>2, PartsAre
    <3>3. \A p \in Parts : p >= clock => columnAt'[t][p] # "unborn" /\ ~(p < bornAt[t])
      <4>1. bornAt[t] \in Int /\ bornAt[t] <= clock
          BY <3>1, <3>2
      <4>2. ASSUME NEW p \in Parts, p >= clock PROVE ~(p < bornAt[t])
          BY <3>2, <4>1, <4>2
      <4> QED BY <1>4, <3>1, <4>2
    <3>4. \A p \in Parts : ~(p >= clock) => columnAt'[t][p] = columnAt[t][p]
        BY <1>4
    <3> QED BY <3>1, <3>3, <3>4
  <2>2. \A i \in DOMAIN emitted' : emitted'[i].at <= clock
      BY <1>1, <1>2, <1>3, <1>6 DEF BirthKnown
  <2>3. ASSUME NEW u \in FlowTasks, column'[u] = "unborn"
        PROVE  /\ \A i \in DOMAIN emitted' : emitted'[i].task # u
               /\ \A i \in DOMAIN journal' : journal'[i].task # u
               /\ \A p \in Parts : columnAt'[u][p] = "unborn"
    <3>1. u # t /\ column[u] = "unborn"
        BY <1>1, <1>4, <2>3
    <3> QED BY <1>1, <1>3, <1>4, <1>6, <3>1 DEF BirthKnown
  <2>4. ASSUME NEW u \in FlowTasks, column'[u] # "unborn"
        PROVE  /\ bornAt'[u] \in 0..clock
               /\ \A p \in Parts : columnAt'[u][p] = "unborn" <=> p < bornAt'[u]
      BY <1>1, <1>4, <2>1, <2>4 DEF BirthKnown
  <2> QED BY <1>4, <2>2, <2>3, <2>4 DEF BirthKnown
<1>8. ASSUME NEW u \in FlowTasks \ strayed', column'[u] # "unborn", NEW day \in 0..LastDay,
             bornAt'[u] <= DayEnd(day)
      PROVE  TellsOn(u, DayEnd(day))'
  <2> PICK p \in Parts : p = DayEnd(day)
      BY PartsAre
  <2>1. TellsOn(u, p) /\ p \in Int
      BY <1>1, <1>4, <1>8, PartsAre DEF EventsTell
  <2>2. CASE u = t /\ p >= clock
    <3>1. last \in OnItsWay(t, p)' /\ columnAt'[t][p] = s
        BY <1>3, <1>4, <2>2 DEF OnItsWay
    <3>2. \A i \in DOMAIN emitted' : IsLast(i, OnItsWay(t, p)') => i = last
        BY <1>3, <3>1 DEF IsLast
    <3>3. TellsOn(t, p)'
        BY <1>3, <3>1, <3>2 DEF TellsOn
    <3> QED BY <2>2, <3>3 DEF DayEnd
  <2>3. CASE ~(u = t /\ p >= clock)
    <3>1. last \notin OnItsWay(u, p)'
        BY <1>2, <1>3, <2>1, <2>3 DEF OnItsWay
    <3>2. OnItsWay(u, p)' = OnItsWay(u, p)
        BY <1>3, <1>6, <3>1 DEF OnItsWay
    <3>3. Recorded(u, p)' = Recorded(u, p) /\ columnAt'[u][p] = columnAt[u][p]
        BY <1>4, <2>3 DEF Recorded
    <3>4. \A i : i \in OnItsWay(u, p) => i \in DOMAIN emitted
        BY DEF OnItsWay
    <3>5. \A i : i \in Recorded(u, p) => i \in DOMAIN journal
        BY DEF Recorded
    <3>6. TellsOn(u, p)'
        BY <1>1, <1>3, <2>1, <3>2, <3>3, <3>4, <3>5, TellsKept
    <3> QED BY <3>6 DEF DayEnd
  <2> QED BY <2>2, <2>3
<1> QED BY <1>5, <1>7, <1>8 DEF FlowInv, EventsTell

\* A cascade emits nothing: what the events of the task tell no longer counts.
LEMMA CascadeReachesInv ==
    ASSUME FlowInv, NEW t \in FlowTasks, CascadeReaches(t)
    PROVE  FlowInv'
<1>1. FlowTypeOK /\ BirthKnown /\ EventsTell /\ {"unborn", "deleted"} \cap FlowStatuses = {}
    BY FlowAssumption DEF FlowInv
<1> PICK s \in FlowStatuses \ {column[t]} :
    /\ column[t] \in FlowStatuses
    /\ flowChanges < MaxFlowChanges /\ flowChanges' = flowChanges + 1
    /\ Column(t, s)
    /\ strayed' = strayed \cup {t}
    /\ UNCHANGED <<clock, bornAt, emitted, journal>>
    BY DEF CascadeReaches
<1>2. clock \in Parts /\ clock \in Int /\ flowChanges' \in 0..MaxFlowChanges
    BY <1>1, PartsAre, FlowAssumption DEF FlowTypeOK
<1>3. /\ column' \in [FlowTasks -> FlowStatuses \cup {"unborn", "deleted"}]
      /\ columnAt' \in [FlowTasks -> [Parts -> FlowStatuses \cup {"unborn"}]]
      /\ column'[t] = s /\ column[t] # "unborn" /\ s # "unborn"
      /\ \A p \in Parts : columnAt'[t][p] = IF p >= clock THEN s ELSE columnAt[t][p]
      /\ \A u \in FlowTasks : u # t => column'[u] = column[u] /\ columnAt'[u] = columnAt[u]
    BY <1>1, ColumnIs
<1>4. FlowTypeOK'
    BY <1>1, <1>2, <1>3 DEF FlowTypeOK
<1>5. BirthKnown'
  <2>1. \A p \in Parts : columnAt'[t][p] = "unborn" <=> p < bornAt[t]
    <3>1. /\ bornAt[t] \in 0..clock
          /\ \A p \in Parts : columnAt[t][p] = "unborn" <=> p < bornAt[t]
        BY <1>1, <1>3 DEF BirthKnown
    <3> QED BY <1>2, <1>3, <3>1, PartsAre
  <2> QED BY <1>1, <1>3, <2>1 DEF BirthKnown
<1>6. ASSUME NEW u \in FlowTasks \ strayed', column'[u] # "unborn", NEW day \in 0..LastDay,
             bornAt'[u] <= DayEnd(day)
      PROVE  TellsOn(u, DayEnd(day))'
  <2> PICK p \in Parts : p = DayEnd(day)
      BY PartsAre
  <2>1. TellsOn(u, p) /\ columnAt'[u] = columnAt[u]
      BY <1>1, <1>3, <1>6 DEF EventsTell
  <2>2. TellsOn(u, p)'
      BY <2>1 DEF TellsOn, OnItsWay, Recorded
  <2> QED BY <2>2 DEF DayEnd
<1> QED BY <1>4, <1>5, <1>6 DEF FlowInv, EventsTell

LEMMA DeleteFlowTaskInv ==
    ASSUME FlowInv, NEW t \in FlowTasks, DeleteFlowTask(t)
    PROVE  FlowInv'
<1>1. FlowTypeOK /\ BirthKnown /\ EventsTell /\ {"unborn", "deleted"} \cap FlowStatuses = {}
    BY FlowAssumption DEF FlowInv
<1>2. /\ column[t] # "unborn" /\ column'[t] = "deleted"
      /\ \A u \in FlowTasks : u # t => column'[u] = column[u]
      /\ column' \in [FlowTasks -> FlowStatuses \cup {"unborn", "deleted"}]
      /\ UNCHANGED <<clock, bornAt, emitted, journal, columnAt, strayed, flowChanges>>
    BY <1>1 DEF DeleteFlowTask, FlowTypeOK
<1>3. FlowTypeOK'
    BY <1>1, <1>2 DEF FlowTypeOK
<1>4. \A u \in FlowTasks : column'[u] = "unborn" <=> column[u] = "unborn"
    BY <1>2
<1>5. BirthKnown'
    BY <1>1, <1>2, <1>4 DEF BirthKnown
<1>6. EventsTell'
    BY <1>1, <1>2, <1>4 DEF EventsTell, TellsOn, OnItsWay, Recorded, DayEnd
<1> QED BY <1>3, <1>5, <1>6 DEF FlowInv

LEMMA TimePassesInv ==
    ASSUME FlowInv, TimePasses
    PROVE  FlowInv'
<1>1. FlowTypeOK /\ BirthKnown /\ EventsTell /\ clock \in Int
    BY PartsAre DEF FlowInv, FlowTypeOK
<1>2. /\ clock' = clock + 1 /\ clock' \in Parts
      /\ UNCHANGED <<column, bornAt, emitted, journal, columnAt, strayed, flowChanges>>
    BY DEF TimePasses
<1>3. FlowTypeOK'
    BY <1>1, <1>2 DEF FlowTypeOK
<1>4. \A i \in DOMAIN emitted : emitted[i].at \in Int
  <2>1. \A i \in DOMAIN emitted : emitted[i] \in Change
      BY <1>1 DEF FlowTypeOK
  <2> QED BY <2>1, PartsAre DEF Change
<1>5. BirthKnown'
  <2>1. \A i \in DOMAIN emitted' : emitted'[i].at <= clock'
      BY <1>1, <1>2, <1>4 DEF BirthKnown
  <2>2. \A u \in FlowTasks : column[u] # "unborn" => bornAt[u] \in 0..clock'
      BY <1>1, <1>2 DEF BirthKnown
  <2> QED BY <1>1, <1>2, <2>1, <2>2 DEF BirthKnown
<1>6. EventsTell'
    BY <1>1, <1>2 DEF EventsTell, TellsOn, OnItsWay, Recorded, DayEnd
<1> QED BY <1>3, <1>5, <1>6 DEF FlowInv

\* One event less on its way, whose task has strayed.
LEMMA LoseChangeInv ==
    ASSUME FlowInv, LoseChange
    PROVE  FlowInv'
<1>1. FlowTypeOK /\ BirthKnown /\ EventsTell /\ emitted \in Seq(Change)
    BY DEF FlowInv, FlowTypeOK
<1> PICK i \in DOMAIN emitted :
    /\ emitted' = Without(i)
    /\ strayed' = strayed \cup {emitted[i].task}
    /\ UNCHANGED <<clock, column, bornAt, journal, columnAt, flowChanges>>
    BY DEF LoseChange
<1>2. emitted[i] \in Change /\ emitted[i].task \in FlowTasks
  <2>1. emitted[i] \in Change
      BY <1>1
  <2> QED BY <2>1 DEF Change
<1>3. emitted' \in Seq(Change)
    BY <1>1, WithoutIs
<1>4. FlowTypeOK'
    BY <1>1, <1>2, <1>3 DEF FlowTypeOK
<1>5. BirthKnown'
  <2>1. \A j \in DOMAIN emitted' : /\ emitted'[j].at <= clock
                                   /\ \E k \in DOMAIN emitted : emitted'[j] = emitted[k]
      BY <1>1, WithoutKnown
  <2> QED BY <1>1, <2>1 DEF BirthKnown
<1>6. ASSUME NEW u \in FlowTasks \ strayed', column'[u] # "unborn", NEW day \in 0..LastDay,
             bornAt'[u] <= DayEnd(day)
      PROVE  TellsOn(u, DayEnd(day))'
  <2> PICK p \in Parts : p = DayEnd(day)
      BY PartsAre
  <2>1. TellsOn(u, p) /\ emitted[i].task # u
      BY <1>1, <1>6 DEF EventsTell
  <2>2. Recorded(u, p)' = Recorded(u, p)
      BY DEF Recorded
  <2>3. /\ \A j \in DOMAIN emitted' : IsLast(j, OnItsWay(u, p)') =>
              \E k \in DOMAIN emitted : IsLast(k, OnItsWay(u, p)) /\ emitted[k] = emitted'[j]
        /\ OnItsWay(u, p)' = {} => OnItsWay(u, p) \subseteq {i}
      BY <1>1, <2>1, WithoutTells
  <2>4. i \notin OnItsWay(u, p)
      BY <2>1 DEF OnItsWay
  <2>5. TellsOn(u, p)'
      BY <2>1, <2>2, <2>3, <2>4 DEF TellsOn
  <2> QED BY <2>5 DEF DayEnd
<1> QED BY <1>4, <1>5, <1>6 DEF FlowInv, EventsTell

\* The event that is recorded, in order and on its day, takes its place among the recorded
\* ones for the end of every day.
LEMMA RecordChangeInv ==
    ASSUME FlowInv, RecordChange
    PROVE  FlowInv'
<1>1. /\ FlowTypeOK /\ BirthKnown /\ EventsTell /\ emitted \in Seq(Change)
      /\ journal \in Seq(Entry) /\ clock \in Parts /\ clock \in Int
    BY PartsAre DEF FlowInv, FlowTypeOK
<1> DEFINE W(i) == strayed' = strayed \cup {t \in {emitted[i].task} : Overtakes(i) \/ Late(i)}
<1>2. PICK i \in DOMAIN emitted :
    /\ journal' = Append(journal, [task |-> emitted[i].task, to |-> emitted[i].to,
                                   criadoEm |-> clock])
    /\ emitted' = Without(i)
    /\ W(i)
    /\ UNCHANGED <<clock, column, bornAt, columnAt, flowChanges>>
    BY DEF RecordChange
<1> PICK last : last = Len(journal) + 1
    OBVIOUS
<1>3. /\ emitted[i] \in Change /\ emitted[i].task \in FlowTasks /\ emitted[i].to \in FlowStatuses
      /\ emitted[i].at \in Parts
  <2>1. emitted[i] \in Change
      BY <1>1
  <2> QED BY <2>1 DEF Change
<1>4. /\ strayed' \subseteq FlowTasks /\ strayed \subseteq strayed'
      /\ emitted[i].task \notin strayed' => ~Overtakes(i) /\ ~Late(i)
    BY <1>1, <1>2, <1>3 DEF FlowTypeOK
<1> HIDE DEF W
<1>5. [task |-> emitted[i].task, to |-> emitted[i].to, criadoEm |-> clock] \in Entry
    BY <1>1, <1>3 DEF Entry
<1>6. /\ journal' \in Seq(Entry) /\ DOMAIN journal' = 1..last /\ last \in Int
      /\ DOMAIN journal = 1..last - 1 /\ last \in DOMAIN journal' /\ last >= 1
      /\ \A j \in DOMAIN journal : j \in DOMAIN journal' /\ journal'[j] = journal[j]
      /\ journal'[last].task = emitted[i].task /\ journal'[last].to = emitted[i].to
      /\ journal'[last].criadoEm = clock
    BY <1>1, <1>2, <1>5
<1>7. \A j \in DOMAIN journal' : j = last \/ j \in DOMAIN journal
    BY <1>6
<1>8. emitted' \in Seq(Change)
    BY <1>1, <1>2, WithoutIs
<1>9. FlowTypeOK'
    BY <1>1, <1>2, <1>4, <1>6, <1>8 DEF FlowTypeOK
<1>10. BirthKnown'
  <2>1. \A j \in DOMAIN emitted' : /\ emitted'[j].at <= clock
                                   /\ \E k \in DOMAIN emitted : emitted'[j] = emitted[k]
      BY <1>1, <1>2, WithoutKnown
  <2>2. column[emitted[i].task] # "unborn"
      BY <1>1, <1>3 DEF BirthKnown
  <2>3. ASSUME NEW u \in FlowTasks, column'[u] = "unborn"
        PROVE  \A j \in DOMAIN journal' : journal'[j].task # u
      BY <1>1, <1>2, <1>6, <1>7, <2>2, <2>3 DEF BirthKnown
  <2> QED BY <1>1, <1>2, <2>1, <2>3 DEF BirthKnown
<1>11. ASSUME NEW u \in FlowTasks \ strayed', column'[u] # "unborn", NEW day \in 0..LastDay,
             bornAt'[u] <= DayEnd(day)
      PROVE  TellsOn(u, DayEnd(day))'
  <2> PICK p \in Parts : p = DayEnd(day)
      BY PartsAre
  <2>1. TellsOn(u, p) /\ p \in Int
      BY <1>1, <1>2, <1>4, <1>11, PartsAre DEF EventsTell
  <2>2. emitted[i].task = u => ~Overtakes(i) /\ (emitted[i].at <= p <=> clock <= p)
    <3> SUFFICES ASSUME emitted[i].task = u
                 PROVE  ~Overtakes(i) /\ (emitted[i].at <= p <=> clock <= p)
        OBVIOUS
    <3>1. ~Overtakes(i) /\ ~Late(i) /\ emitted[i].at <= clock
        BY <1>1, <1>4 DEF BirthKnown
    <3>2. ~(emitted[i].at \div 2 < clock \div 2)
        BY <3>1 DEF Late
    <3> QED BY <1>1, <1>3, <3>1, <3>2, SameDay
  <2>3. /\ \A j \in DOMAIN emitted' : IsLast(j, OnItsWay(u, p)') =>
              \E k \in DOMAIN emitted : IsLast(k, OnItsWay(u, p)) /\ emitted[k] = emitted'[j]
        /\ OnItsWay(u, p)' = {} => OnItsWay(u, p) \subseteq {i}
      BY <1>1, <1>2, <2>2, WithoutTells
  <2>4. columnAt'[u][p] = columnAt[u][p]
      BY <1>2
  <2>5. CASE emitted[i].task = u /\ clock <= p
    <3>1. last \in Recorded(u, p)'
        BY <1>6, <2>5 DEF Recorded
    <3>2. \A j \in DOMAIN journal' : IsLast(j, Recorded(u, p)') => j = last
        BY <1>6, <3>1 DEF IsLast
    <3>3. i \in OnItsWay(u, p)
        BY <2>2, <2>5 DEF OnItsWay
    <3>4. OnItsWay(u, p)' = {} => columnAt[u][p] = emitted[i].to
      <4> SUFFICES ASSUME OnItsWay(u, p)' = {} PROVE columnAt[u][p] = emitted[i].to
          OBVIOUS
      <4>1. OnItsWay(u, p) = {i} /\ i \in Int /\ i <= i
          BY <1>1, <2>3, <3>3
      <4>2. IsLast(i, OnItsWay(u, p))
          BY <4>1 DEF IsLast
      <4> QED BY <2>1, <4>2 DEF TellsOn
    <3> QED BY <1>6, <2>1, <2>3, <2>4, <3>1, <3>2, <3>4 DEF TellsOn
  <2>6. CASE ~(emitted[i].task = u /\ clock <= p)
    <3>1. last \notin Recorded(u, p)'
        BY <1>6, <2>6 DEF Recorded
    <3>2. Recorded(u, p)' = Recorded(u, p)
        BY <1>6, <1>7, <3>1 DEF Recorded
    <3>3. i \notin OnItsWay(u, p)
        BY <2>2, <2>6 DEF OnItsWay
    <3>4. OnItsWay(u, p)' = {} => OnItsWay(u, p) = {}
        BY <2>3, <3>3
    <3>5. \A j : IsLast(j, Recorded(u, p)) => j \in DOMAIN journal
        BY DEF IsLast, Recorded
    <3> QED BY <1>6, <2>1, <2>3, <2>4, <3>2, <3>4, <3>5 DEF TellsOn
  <2>7. TellsOn(u, p)'
      BY <2>5, <2>6
  <2> QED BY <2>7 DEF DayEnd
<1> QED BY <1>9, <1>10, <1>11 DEF FlowInv, EventsTell

LEMMA FlowNextInv == FlowInv /\ [FlowNext]_flowVars => FlowInv'
<1> SUFFICES ASSUME FlowInv, [FlowNext]_flowVars PROVE FlowInv'
    OBVIOUS
<1>1. ASSUME NEW t \in FlowTasks,
             CreateFlowTask(t) \/ ChangeStatus(t) \/ CascadeReaches(t) \/ DeleteFlowTask(t)
      PROVE  FlowInv'
    BY <1>1, CreateFlowTaskInv, ChangeStatusInv, CascadeReachesInv, DeleteFlowTaskInv
<1>2. CASE RecordChange \/ LoseChange \/ TimePasses
    BY <1>2, RecordChangeInv, LoseChangeInv, TimePassesInv
<1>3. CASE UNCHANGED flowVars
  <2>1. UNCHANGED <<clock, column, bornAt, emitted, journal, columnAt, strayed, flowChanges>>
      BY <1>3 DEF flowVars
  <2>2. FlowTypeOK'
      BY <2>1 DEF FlowInv, FlowTypeOK
  <2>3. BirthKnown'
      BY <2>1 DEF FlowInv, BirthKnown
  <2>4. EventsTell'
      BY <2>1 DEF FlowInv, EventsTell, TellsOn, OnItsWay, Recorded, DayEnd
  <2> QED BY <2>2, <2>3, <2>4 DEF FlowInv
<1> QED BY <1>1, <1>2, <1>3 DEF FlowNext

\* The replay gives the status of a task that did not stray, for every period that ends
\* with the day or later.
LEMMA StatusTold ==
    ASSUME FlowInv, NEW t \in FlowTasks \ strayed, NEW b \in 0..LastDay, NEW day \in 0..b,
           Settled(day), ExistedOn(t, day)
    PROVE  StatusOn(t, day, b) = columnAt[t][DayEnd(day)]
<1>1. day \in 0..LastDay /\ day \in Int /\ b \in Int /\ day <= b
    BY FlowAssumption
<1>2. PICK p \in Parts : p = DayEnd(day)
    BY <1>1, PartsAre
<1>3. p \in Int /\ p <= PeriodEnd(b) /\ PeriodEnd(b) \in Int
    BY <1>1, <1>2, PartsAre DEF PeriodEnd
<1>4. TellsOn(t, p) /\ column[t] # "deleted"
    BY <1>1, <1>2 DEF ExistedOn, FlowInv, EventsTell
<1>5. journal \in Seq(Entry) /\ emitted \in Seq(Change)
    BY DEF FlowInv, FlowTypeOK
<1>6. \A i \in DOMAIN emitted : emitted[i].at \in Int
  <2>1. \A i \in DOMAIN emitted : emitted[i] \in Change
      BY <1>5
  <2> QED BY <2>1, PartsAre DEF Change
<1>7. \A i \in DOMAIN journal : journal[i].criadoEm \in Int
  <2>1. \A i \in DOMAIN journal : journal[i] \in Entry
      BY <1>5
  <2> QED BY <2>1, PartsAre DEF Entry
<1>8. OnItsWay(t, p) = {}
    BY <1>2, <1>3, <1>6 DEF OnItsWay, Settled
<1>9. RowsUntil(t, day, b) = Recorded(t, p)
  <2>1. ASSUME NEW i \in DOMAIN journal, journal[i].task = t, journal[i].criadoEm <= p
        PROVE  i \in Replayed(b)
      BY <1>3, <1>4, <1>7, <2>1 DEF Replayed
  <2> QED BY <1>2, <2>1 DEF RowsUntil, Recorded, Replayed
<1>10. CASE Recorded(t, p) = {}
    BY <1>2, <1>4, <1>8, <1>9, <1>10 DEF TellsOn, StatusOn, InitialStatus
<1>11. CASE Recorded(t, p) # {}
  <2> PICK S : S = Recorded(t, p)
      OBVIOUS
  <2> PICK i : i = CHOOSE m \in S : \A j \in S : j <= m
      OBVIOUS
  <2>1. S \in SUBSET DOMAIN journal /\ S # {}
      BY <1>11 DEF Recorded
  <2>2. IsLast(i, S)
      BY <1>5, <2>1, LastOfRows
  <2>3. columnAt[t][p] = journal[i].to
      BY <1>4, <1>8, <2>1, <2>2 DEF TellsOn, IsLast
  <2>4. StatusOn(t, day, b) = journal[i].to
      BY <1>9, <2>1 DEF StatusOn
  <2> QED BY <1>2, <2>3, <2>4
<1> QED BY <1>10, <1>11

LEMMA FlowInvSound == FlowInv => FlowSound
<1> SUFFICES ASSUME FlowInv PROVE DiagramTruthful /\ OthersUntouched
    BY DEF FlowSound
<1>1. ASSUME NEW b \in 0..LastDay, NEW a \in 0..b, NEW day \in DaysOf(a, b) \ {b + 1},
             Settled(day), strayed = {}, NEW s \in FlowStatuses
      PROVE  CountOn(s, day, b) =
                Cardinality({t \in FlowTasks : column[t] # "deleted" /\ columnAt[t][DayEnd(day)] = s})
  <2>1. day \in 0..b /\ day \in 0..LastDay /\ s # "unborn"
      BY <1>1, FlowAssumption DEF DaysOf
  <2>2. PICK p \in Parts : p = DayEnd(day)
      BY <2>1, PartsAre
  <2>3. ASSUME NEW t \in FlowTasks
        PROVE  ExistedOn(t, day) /\ StatusOn(t, day, b) = s
               <=> column[t] # "deleted" /\ columnAt[t][p] = s
    <3>1. CASE ExistedOn(t, day)
      <4>1. StatusOn(t, day, b) = columnAt[t][p]
          BY <1>1, <2>1, <2>2, <3>1, StatusTold
      <4> QED BY <3>1, <4>1 DEF ExistedOn
    <3>2. CASE ~ExistedOn(t, day)
      <4>1. CASE column[t] = "unborn"
          BY <2>1, <3>2, <4>1 DEF FlowInv, BirthKnown
      <4>2. CASE column[t] # "unborn" /\ column[t] # "deleted"
        <5>1. /\ bornAt[t] \in 0..clock /\ clock \in Int
              /\ columnAt[t][p] = "unborn" <=> p < bornAt[t]
            BY <4>2, PartsAre DEF FlowInv, FlowTypeOK, BirthKnown
        <5>2. ~(bornAt[t] <= p)
            BY <2>2, <3>2, <4>2 DEF ExistedOn
        <5> QED BY <2>1, <3>2, <5>1, <5>2, PartsAre
      <4> QED BY <3>2, <4>1, <4>2
    <3> QED BY <3>1, <3>2
  <2>4. {t \in FlowTasks : ExistedOn(t, day) /\ StatusOn(t, day, b) = s}
           = {t \in FlowTasks : column[t] # "deleted" /\ columnAt[t][DayEnd(day)] = s}
      BY <2>2, <2>3
  <2> QED BY <2>4 DEF CountOn
<1>2. ASSUME NEW day \in 0..LastDay, NEW t \in FlowTasks \ strayed, Settled(day), ExistedOn(t, day)
      PROVE  StatusOn(t, day, day) = columnAt[t][DayEnd(day)]
  <2>1. day \in 0..day
      OBVIOUS
  <2> QED BY <1>2, <2>1, StatusTold
<1> QED BY <1>1, <1>2 DEF DiagramTruthful, OthersUntouched

\* On every day of every period the diagram counts the tasks by the status they had at its
\* end, once their events are recorded, unless a cascade, a lost, late or overtaken event
\* made a task stray; and a task that strays does not falsify the others.
THEOREM FlowSoundHolds == FlowSpec => []FlowSound
<1>1. FlowInv => FlowSound
    BY FlowInvSound
<1> QED BY <1>1, FlowInitInv, FlowNextInv, PTL DEF FlowSpec

-----------------------------------------------------------------------------
(* TaskTree.                                                               *)

\* A request has what its place in its handler needs.
Serves(r) ==
    LET q == req[r] IN
    /\ q.op = "none" <=> q.pc = "idle"
    /\ q.op # "none" => q.task \in Tasks /\ q.to # q.task
    /\ q.op = "create" => /\ q.pc \in {"climb", "write"}
                          /\ life[q.task] = "unborn" /\ q.project \in Projects
                          /\ q.to # NoTask => life[q.to] # "unborn" /\ idProject[q.to] = q.project
    /\ q.op = "move" => /\ q.pc \in {"climb", "project", "write"}
                        /\ life[q.task] # "unborn"
                        /\ q.to # NoTask /\ (q.depth > 0 \/ q.pc # "climb") => life[q.to] # "unborn"
                        /\ q.to # NoTask /\ q.pc = "write" => idProject[q.to] = idProject[q.task]
    /\ q.op = "delete" => q.pc \in {"cascade", "unlink"} /\ life[q.task] # "unborn"
    /\ q.pc = "climb" => q.to \in Tasks /\ q.at \in Tasks /\ (q.depth = 0 => q.at = q.to)
    /\ q.pc = "project" => q.to \in Tasks
    /\ q.op \in {"create", "move"} /\ q.pc \in {"project", "write"} => q.at = NoTask

\* A parent was created before, and a task is created once.
BirthsKnown ==
    \A t \in Tasks : /\ life[t] = "unborn" => idPai[t] = NoTask
                     /\ idPai[t] # NoTask => life[idPai[t]] # "unborn"
CreatedOnce ==
    \A r, o \in TreeRequests :
        req[r].op = "create" /\ req[o].op = "create" /\ req[r].task = req[o].task => r = o
TasksKnown == BirthsKnown /\ CreatedOnce /\ \A r \in TreeRequests : Serves(r)

\* S is what a move has climbed: the ancestors of the new parent up to the next one it
\* reads.  With one move at a time they stay so, and the task is not among them.
ClimbedBy(r, S) ==
    /\ req[r].task \notin S /\ req[r].to \in S \cup {req[r].at}
    /\ \A s \in S : life[s] # "unborn" /\ idPai[s] \in S \cup {req[r].at}
OneMover   == \A r, o \in TreeRequests : req[r].op = "move" /\ req[o].op = "move" => r = o
Climbs     == \A r \in TreeRequests : req[r].op = "move" => \E S \in SUBSET Tasks : ClimbedBy(r, S)
MovesApart == "moves" \notin seen => OneMover /\ Climbs

\* While requests come one at a time, no child is kept on purpose and no subtree moves,
\* live tasks have live parents, at levels the cascade reaches, and the counter of a climb
\* agrees with them.
LevelsOf(f) ==
    \A t \in Tasks : life[t] = "live" =>
        /\ idPai[t] = NoTask => f[t] = 0
        /\ idPai[t] # NoTask => life[idPai[t]] = "live" /\ f[t] = f[idPai[t]] + 1
Counts(f, r) ==
    /\ req[r].pc = "climb" /\ req[r].depth > 0
          => /\ life[req[r].to] = "live" /\ life[req[r].at] = "live"
             /\ f[req[r].to] = f[req[r].at] + req[r].depth
    /\ req[r].pc \in {"project", "write"} /\ req[r].to # NoTask
          => life[req[r].to] = "live" /\ f[req[r].to] < MaxDepth
Calm       == seen \cap {"overlap", "unlinked", "subtree"} = {}
OneAtATime == \A r, o \in TreeRequests : req[r].op # "none" /\ req[o].op # "none" => r = o
CalmLevels ==
    Calm => /\ OneAtATime
            /\ \E f \in [Tasks -> 0..MaxDepth] :
                  LevelsOf(f) /\ \A r \in TreeRequests : Counts(f, r)

TreeInv == TreeTypeOK /\ TasksKnown /\ SameProject /\ MovesApart /\ ForestUnlessMovesRace /\ CalmLevels

LEMMA TreeInvSound == TreeInv => TreeSound
<1> SUFFICES ASSUME TreeInv PROVE OrphansExplained
    BY DEF TreeInv, TreeSound
<1> SUFFICES ASSUME NEW t \in Tasks, life[t] = "live", idPai[t] # NoTask, life[idPai[t]] = "deleted"
             PROVE  seen \cap {"overlap", "unlinked", "subtree"} # {}
    BY DEF OrphansExplained
<1> QED BY DEF TreeInv, CalmLevels, Calm, LevelsOf

LEMMA NoReqIs ==
    /\ NoReq \in TreeReqs
    /\ NoReq.op = "none" /\ NoReq.pc = "idle" /\ NoReq.to = NoTask
BY TreeAssumption DEF NoReq, TreeReqs, Parents

LEMMA TreeInitInv == TreeInit => TreeInv
<1> SUFFICES ASSUME TreeInit PROVE TreeInv
    OBVIOUS
<1>1. \A r \in TreeRequests : req[r] = NoReq
    BY DEF TreeInit
<1>2. TreeTypeOK
    BY NoReqIs DEF TreeInit, TreeTypeOK, Parents
<1>3. TasksKnown /\ SameProject /\ MovesApart
    BY <1>1, NoReqIs DEF TreeInit, TasksKnown, BirthsKnown, CreatedOnce, Serves, SameProject,
                         MovesApart, OneMover, Climbs
<1>4. ForestUnlessMovesRace
    BY TreeAssumption DEF TreeInit, ForestUnlessMovesRace, Forest, ClosesACycle
<1>5. CalmLevels
  <2> DEFINE f == [t \in Tasks |-> 0]
  <2>1. f \in [Tasks -> 0..MaxDepth]
      BY TreeAssumption
  <2>2. LevelsOf(f) /\ \A r \in TreeRequests : Counts(f, r)
      BY <1>1, NoReqIs DEF TreeInit, LevelsOf, Counts
  <2> QED BY <1>1, <2>1, <2>2, NoReqIs DEF CalmLevels, OneAtATime
<1> QED BY <1>2, <1>3, <1>4, <1>5 DEF TreeInv

\* What is read of the tree stays while tasks are created, and are deleted, elsewhere.
LEMMA ClimbKept ==
    ASSUME NEW r \in TreeRequests, NEW S \in SUBSET Tasks, ClimbedBy(r, S), req'[r] = req[r],
           \A s \in Tasks : life[s] # "unborn" => life'[s] # "unborn" /\ idPai'[s] = idPai[s]
    PROVE  ClimbedBy(r, S)'
BY DEF ClimbedBy

\* The tree does not change: neither do its cycles.
LEMMA TreeUntouched ==
    ASSUME TreeInv, UNCHANGED <<life, idPai, idProject>>, seen \subseteq seen'
    PROVE  SameProject' /\ ForestUnlessMovesRace' /\ BirthsKnown'
BY DEF TreeInv, SameProject, ForestUnlessMovesRace, Forest, ClosesACycle, TasksKnown, BirthsKnown

\* A request that enters has read what its handler needs of the tree.
LEMMA EntersInv ==
    ASSUME TreeInv, NEW r \in TreeRequests, NEW op \in {"create", "move", "delete"},
           NEW pc \in {"climb", "write", "cascade", "unlink"}, NEW t \in Tasks,
           NEW j \in Projects \cup {NoProject}, NEW p \in Parents, Enters(r, op, pc, t, j, p),
           p # t, op = "delete" <=> pc \in {"cascade", "unlink"}, op = "delete" => p = NoTask,
           pc = "climb" <=> p # NoTask,
           op = "create" => /\ life[t] = "unborn" /\ j \in Projects
                            /\ \A o \in Busy({"create"}) : req[o].task # t
                            /\ p # NoTask => life[p] # "unborn" /\ idProject[p] = j,
           op # "create" => life[t] # "unborn"
    PROVE  TreeInv'
<1> DEFINE q == [op |-> op, pc |-> pc, task |-> t, project |-> j, to |-> p, at |-> p, depth |-> 0]
<1>1. TreeTypeOK /\ TasksKnown /\ MovesApart /\ CalmLevels
    BY DEF TreeInv
<1>2. /\ q \in TreeReqs
      /\ q.op = op /\ q.pc = pc /\ q.task = t /\ q.project = j /\ q.to = p /\ q.at = p /\ q.depth = 0
    BY TreeAssumption DEF TreeReqs, Parents
<1>3. /\ req'[r] = q /\ \A o \in TreeRequests : o # r => req'[o] = req[o]
      /\ req' \in [TreeRequests -> TreeReqs] /\ req[r].pc = "idle"
      /\ UNCHANGED <<life, idPai, idProject>>
    BY <1>1, <1>2 DEF Enters, TreeTypeOK
<1> HIDE DEF q
<1>4. /\ seen' \subseteq Marks /\ seen \subseteq seen'
      /\ "overlap" \notin seen' => Busy({"create", "move", "delete"}) = {}
      /\ "moves" \notin seen' /\ op = "move" => Busy({"move"}) = {}
    BY <1>1 DEF Enters, TreeTypeOK, Marks
<1>5. TreeTypeOK'
    BY <1>1, <1>3, <1>4 DEF TreeTypeOK
<1>6. Serves(r)'
    BY <1>2, <1>3, TreeAssumption DEF Serves, Parents
<1>7. \A o \in TreeRequests : o # r => Serves(o)'
    BY <1>1, <1>3 DEF TasksKnown, Serves
<1>8. CreatedOnce'
    BY <1>1, <1>2, <1>3 DEF TasksKnown, CreatedOnce, Busy
<1>9. BirthsKnown' /\ SameProject' /\ ForestUnlessMovesRace'
    BY <1>3, <1>4, TreeUntouched
<1>10. MovesApart'
  <2> SUFFICES ASSUME "moves" \notin seen' PROVE OneMover' /\ Climbs'
      BY DEF MovesApart
  <2>1. OneMover /\ Climbs
      BY <1>1, <1>4 DEF MovesApart
  <2>2. OneMover'
      BY <1>2, <1>3, <1>4, <2>1 DEF OneMover, Busy
  <2>3. ASSUME NEW o \in TreeRequests, req'[o].op = "move"
        PROVE  \E S \in SUBSET Tasks : ClimbedBy(o, S)'
    <3>1. CASE o = r
      <4>1. ClimbedBy(r, {})'
          BY <1>2, <1>3 DEF ClimbedBy
      <4> QED BY <3>1, <4>1
    <3>2. CASE o # r
      <4>1. PICK S \in SUBSET Tasks : ClimbedBy(o, S)
          BY <1>3, <2>1, <2>3, <3>2 DEF Climbs
      <4>2. ClimbedBy(o, S)'
          BY <1>3, <3>2, <4>1, ClimbKept
      <4> QED BY <4>2
    <3> QED BY <3>1, <3>2
  <2> QED BY <2>2, <2>3 DEF Climbs
<1>11. CalmLevels'
  <2> SUFFICES ASSUME Calm'
               PROVE  /\ OneAtATime'
                      /\ \E f \in [Tasks -> 0..MaxDepth] :
                            LevelsOf(f)' /\ \A o \in TreeRequests : Counts(f, o)'
      BY DEF CalmLevels
  <2>1. /\ Calm /\ \A o \in TreeRequests : req[o].op \notin {"create", "move", "delete"}
      BY <1>4 DEF Calm, Busy
  <2>2. \A o \in TreeRequests : o # r => req'[o].op = "none" /\ req'[o].pc = "idle"
    <3>1. \A o \in TreeRequests : req[o].op \in {"none", "create", "move", "delete"}
        BY <1>1 DEF TreeTypeOK, TreeReqs
    <3> QED BY <1>1, <1>3, <2>1, <3>1 DEF TasksKnown, Serves
  <2>3. PICK f \in [Tasks -> 0..MaxDepth] : LevelsOf(f)
      BY <1>1, <2>1 DEF CalmLevels
  <2>4. LevelsOf(f)' /\ \A o \in TreeRequests : Counts(f, o)'
      BY <1>2, <1>3, <2>2, <2>3 DEF LevelsOf, Counts
  <2> QED BY <2>2, <2>3, <2>4 DEF OneAtATime
<1> QED BY <1>5, <1>6, <1>7, <1>8, <1>9, <1>10, <1>11 DEF TreeInv, TasksKnown

LEMMA CreateBeginInv == ASSUME TreeInv, NEW r \in TreeRequests, CreateBegin(r) PROVE TreeInv'
<1>1. PICK t \in Tasks, j \in Projects :
        /\ life[t] = "unborn"
        /\ \A o \in Busy({"create"}) : req[o].task # t
        /\ \/ Enters(r, "create", "write", t, j, NoTask)
           \/ \E p \in Tasks : /\ ParentAllowed(t, j, p)
                               /\ Enters(r, "create", "climb", t, j, p)
    BY DEF CreateBegin
<1>2. CASE Enters(r, "create", "write", t, j, NoTask)
  <2>1. NoTask # t /\ NoTask \in Parents
      BY TreeAssumption DEF Parents
  <2> QED BY <1>1, <1>2, <2>1, EntersInv
<1>3. ASSUME NEW p \in Tasks, ParentAllowed(t, j, p), Enters(r, "create", "climb", t, j, p)
      PROVE  TreeInv'
  <2>1. p # t /\ p # NoTask /\ p \in Parents /\ life[p] # "unborn" /\ idProject[p] = j
      BY <1>1, <1>3, TreeAssumption DEF ParentAllowed, Parents
  <2> QED BY <1>1, <1>3, <2>1, EntersInv
<1> QED BY <1>1, <1>2, <1>3

LEMMA MoveBeginInv == ASSUME TreeInv, NEW r \in TreeRequests, MoveBegin(r) PROVE TreeInv'
<1>1. PICK t \in Tasks :
        /\ life[t] = "live"
        /\ \/ Enters(r, "move", "write", t, idProject[t], NoTask)
           \/ \E p \in Tasks \ {t} : Enters(r, "move", "climb", t, idProject[t], p)
    BY DEF MoveBegin
<1>2. idProject[t] \in Projects \cup {NoProject} /\ life[t] # "unborn"
    BY <1>1 DEF TreeInv, TreeTypeOK
<1>3. CASE Enters(r, "move", "write", t, idProject[t], NoTask)
  <2>1. NoTask # t /\ NoTask \in Parents
      BY TreeAssumption DEF Parents
  <2> QED BY <1>2, <1>3, <2>1, EntersInv
<1>4. ASSUME NEW p \in Tasks \ {t}, Enters(r, "move", "climb", t, idProject[t], p)
      PROVE  TreeInv'
  <2>1. p # t /\ p # NoTask /\ p \in Parents
      BY TreeAssumption DEF Parents
  <2> QED BY <1>2, <1>4, <2>1, EntersInv
<1> QED BY <1>1, <1>3, <1>4

LEMMA DeleteBeginInv == ASSUME TreeInv, NEW r \in TreeRequests, DeleteBegin(r) PROVE TreeInv'
<1>1. PICK t \in Tasks, how \in {"cascade", "unlink"} :
        /\ life[t] = "live"
        /\ Enters(r, "delete", how, t, idProject[t], NoTask)
    BY DEF DeleteBegin
<1>2. /\ idProject[t] \in Projects \cup {NoProject} /\ life[t] # "unborn"
      /\ NoTask # t /\ NoTask \in Parents
    BY <1>1, TreeAssumption DEF TreeInv, TreeTypeOK, Parents
<1> QED BY <1>1, <1>2, EntersInv

\* One more step of a request that has entered, or its end, without a write.
LEMMA TurnsInv ==
    ASSUME TreeInv, NEW r \in TreeRequests, NEW q \in TreeReqs, req' = [req EXCEPT ![r] = q],
           UNCHANGED <<life, idPai, idProject, seen>>,
           q.op \in {req[r].op, "none"}, q.op # "none" => q.task = req[r].task, Serves(r)',
           q.op = "move" => \A S \in SUBSET Tasks :
                                ClimbedBy(r, S) => \E Z \in SUBSET Tasks : ClimbedBy(r, Z)',
           \A f \in [Tasks -> 0..MaxDepth] : LevelsOf(f) /\ Counts(f, r) => Counts(f, r)'
    PROVE  TreeInv'
<1>1. TreeTypeOK /\ TasksKnown /\ MovesApart /\ CalmLevels
    BY DEF TreeInv
<1>2. /\ req'[r] = q /\ \A o \in TreeRequests : o # r => req'[o] = req[o]
      /\ req' \in [TreeRequests -> TreeReqs]
    BY <1>1 DEF TreeTypeOK
<1>3. TreeTypeOK'
    BY <1>1, <1>2 DEF TreeTypeOK
<1>4. BirthsKnown' /\ SameProject' /\ ForestUnlessMovesRace'
    BY TreeUntouched
<1>5. CreatedOnce'
    BY <1>1, <1>2 DEF TasksKnown, CreatedOnce
<1>6. \A o \in TreeRequests : Serves(o)'
    BY <1>1, <1>2 DEF TasksKnown, Serves
<1>7. MovesApart'
  <2> SUFFICES ASSUME "moves" \notin seen' PROVE OneMover' /\ Climbs'
      BY DEF MovesApart
  <2>1. OneMover /\ Climbs
      BY <1>1 DEF MovesApart
  <2>2. OneMover'
      BY <1>2, <2>1 DEF OneMover
  <2>3. ASSUME NEW o \in TreeRequests, req'[o].op = "move"
        PROVE  \E S \in SUBSET Tasks : ClimbedBy(o, S)'
    <3>1. PICK S \in SUBSET Tasks : ClimbedBy(o, S)
        BY <1>2, <2>1, <2>3 DEF Climbs
    <3>2. CASE o = r
        BY <1>2, <2>3, <3>1, <3>2
    <3>3. CASE o # r
      <4>1. ClimbedBy(o, S)'
          BY <1>2, <3>1, <3>3, ClimbKept
      <4> QED BY <4>1
    <3> QED BY <3>2, <3>3
  <2> QED BY <2>2, <2>3 DEF Climbs
<1>8. CalmLevels'
  <2> SUFFICES ASSUME Calm'
               PROVE  /\ OneAtATime'
                      /\ \E f \in [Tasks -> 0..MaxDepth] :
                            LevelsOf(f)' /\ \A o \in TreeRequests : Counts(f, o)'
      BY DEF CalmLevels
  <2>1. OneAtATime
      BY <1>1 DEF CalmLevels, Calm
  <2>2. OneAtATime'
      BY <1>2, <2>1 DEF OneAtATime
  <2>3. PICK f \in [Tasks -> 0..MaxDepth] : LevelsOf(f) /\ \A o \in TreeRequests : Counts(f, o)
      BY <1>1 DEF CalmLevels, Calm
  <2>4. LevelsOf(f)'
      BY <2>3 DEF LevelsOf
  <2>5. Counts(f, r)'
      BY <2>3
  <2>6. \A o \in TreeRequests : o # r => Counts(f, o)'
      BY <1>2, <2>3 DEF Counts
  <2> QED BY <2>2, <2>4, <2>5, <2>6
<1> QED BY <1>3, <1>4, <1>5, <1>6, <1>7, <1>8 DEF TreeInv, TasksKnown

LEMMA EndsInv ==
    ASSUME TreeInv, NEW r \in TreeRequests, Ends(r), UNCHANGED <<life, idPai, idProject, seen>>
    PROVE  TreeInv'
<1>1. req'[r] = NoReq /\ NoReq \in TreeReqs
    BY NoReqIs DEF Ends, TreeInv, TreeTypeOK
<1>2. Serves(r)'
    BY <1>1, NoReqIs DEF Serves
<1>3. \A f \in [Tasks -> 0..MaxDepth] : Counts(f, r)'
    BY <1>1, NoReqIs DEF Counts
<1> QED BY <1>1, <1>2, <1>3, NoReqIs, TurnsInv DEF Ends

LEMMA CheckProjectInv == ASSUME TreeInv, NEW r \in TreeRequests, CheckProject(r) PROVE TreeInv'
<1>1. TreeTypeOK /\ Serves(r) /\ req[r] \in TreeReqs
    BY DEF TreeInv, TasksKnown, TreeTypeOK
<1>2. req[r].op = "move" /\ req[r].task \in Tasks /\ req[r].to \in Tasks /\ req[r].at = NoTask
  <2>1. req[r].op \in {"none", "create", "move", "delete"} /\ req[r].pc = "project"
      BY <1>1 DEF CheckProject, TreeReqs
  <2> QED BY <1>1, <2>1 DEF Serves
<1>3. CASE SameProjectRequired(req[r].task, req[r].to)
  <2> DEFINE q == [req[r] EXCEPT !.pc = "write"]
  <2>1. /\ q \in TreeReqs /\ q.op = "move" /\ q.pc = "write" /\ q.task = req[r].task
        /\ q.to = req[r].to /\ q.at = NoTask
      BY <1>1, <1>2 DEF TreeReqs
  <2>2. req' = [req EXCEPT ![r] = q] /\ req'[r] = q
      BY <1>1, <1>3 DEF CheckProject, TreeTypeOK
  <2>3. UNCHANGED <<life, idPai, idProject, seen>> /\ req[r].pc = "project"
      BY DEF CheckProject
  <2> HIDE DEF q
  <2>4. Serves(r)'
      BY <1>1, <1>2, <1>3, <2>1, <2>2, <2>3 DEF Serves, SameProjectRequired
  <2>5. \A S \in SUBSET Tasks : ClimbedBy(r, S) => ClimbedBy(r, S)'
      BY <1>2, <2>1, <2>2, <2>3 DEF ClimbedBy
  <2>6. \A f \in [Tasks -> 0..MaxDepth] : Counts(f, r) => Counts(f, r)'
      BY <2>1, <2>2, <2>3 DEF Counts
  <2> QED BY <1>2, <2>1, <2>2, <2>3, <2>4, <2>5, <2>6, TurnsInv
<1>4. CASE ~SameProjectRequired(req[r].task, req[r].to)
    BY <1>4, EndsInv DEF CheckProject
<1> QED BY <1>3, <1>4

\* validateNoCycle climbs one ancestor: it is not the task, and is added to what was climbed.
LEMMA ClimbInv == ASSUME TreeInv, NEW r \in TreeRequests, Climb(r) PROVE TreeInv'
<1> DEFINE a == req[r].at
           goes == NoCycleHere(req[r]) /\ life[a] = "live" /\ DepthAllowed(req[r].depth)
<1>1. TreeTypeOK /\ Serves(r) /\ req[r] \in TreeReqs
    BY DEF TreeInv, TasksKnown, TreeTypeOK
<1>2. /\ req[r].op \in {"create", "move"} /\ req[r].pc = "climb"
      /\ req[r].task \in Tasks /\ req[r].to \in Tasks /\ a \in Tasks
  <2>1. req[r].op \in {"none", "create", "move", "delete"} /\ req[r].pc = "climb"
      BY <1>1 DEF Climb, TreeReqs
  <2> QED BY <1>1, <2>1 DEF Serves
<1>3. CASE goes
  <2> DEFINE pc == IF idPai[a] # NoTask THEN "climb" ELSE IF req[r].op = "move" THEN "project"
                   ELSE "write"
             q  == [req[r] EXCEPT !.at = idPai[a], !.depth = req[r].depth + 1, !.pc = pc]
  <2>1. idPai[a] \in Parents /\ req[r].depth \in 0..MaxDepth /\ req[r].depth + 1 \in 0..MaxDepth
      BY <1>1, <1>2, <1>3, TreeAssumption DEF TreeTypeOK, TreeReqs, DepthAllowed
  <2>2. pc \in {"climb", "project", "write"}
      OBVIOUS
  <2>3. /\ q \in TreeReqs /\ q.op = req[r].op /\ q.task = req[r].task /\ q.to = req[r].to
        /\ q.pc = pc /\ q.at = idPai[a] /\ q.depth = req[r].depth + 1
      BY <1>1, <2>1, <2>2 DEF TreeReqs
  <2>4. req' = [req EXCEPT ![r] = q] /\ req'[r] = q
      BY <1>1, <1>3 DEF Climb, TreeTypeOK
  <2>5. /\ UNCHANGED <<life, idPai, idProject, seen>>
        /\ req[r].task # a /\ life[a] = "live"
      BY <1>3 DEF Climb, NoCycleHere
  <2>6. /\ pc = "climb" <=> idPai[a] # NoTask
        /\ pc = "project" => req[r].op = "move"
        /\ pc = "write" => req[r].op = "create"
      BY <1>2
  <2>7. req[r].depth + 1 > 0 /\ req[r].depth + 1 # 0
      BY <2>1
  <2> HIDE DEF q, pc
  <2>8. Serves(r)'
    <3>1. life[req[r].to] # "unborn"
      <4>1. CASE req[r].depth = 0
          BY <1>1, <1>2, <2>5, <4>1 DEF Serves
      <4>2. CASE req[r].depth > 0
        <5>1. req[r].to # NoTask
            BY <1>2, TreeAssumption
        <5> QED BY <1>1, <1>2, <4>2, <5>1 DEF Serves
      <4> QED BY <2>1, <4>1, <4>2
    <3>2. q.op # "none" /\ q.to # q.task /\ q.pc # "idle" /\ (q.op = "create" => q.pc # "project")
        BY <1>1, <1>2, <2>2, <2>3, <2>6 DEF Serves
    <3>3. q.pc = "climb" => q.at \in Tasks
        BY <2>1, <2>3, <2>6 DEF Parents
    <3>4. q.op = "create" => life[q.task] = "unborn" /\ q.project \in Projects /\ idProject[q.to] = q.project
      <4>1. q.project = req[r].project /\ req[r].to # NoTask
          BY <1>2, <2>3, TreeAssumption DEF q, TreeReqs
      <4> QED BY <1>1, <1>2, <2>3, <4>1 DEF Serves
    <3>5. q.op = "move" => life[q.task] # "unborn"
        BY <1>1, <1>2, <2>3 DEF Serves
    <3> QED BY <1>2, <2>2, <2>3, <2>4, <2>5, <2>6, <2>7, <3>1, <3>2, <3>3, <3>4, <3>5 DEF Serves
  <2>9. ASSUME NEW S \in SUBSET Tasks, ClimbedBy(r, S)
        PROVE  \E Z \in SUBSET Tasks : ClimbedBy(r, Z)'
    <3>1. PICK b \in Tasks : b = a
        BY <1>2
    <3>2. ClimbedBy(r, S \cup {b})'
        BY <1>2, <2>3, <2>4, <2>5, <2>9, <3>1 DEF ClimbedBy
    <3>3. S \cup {b} \in SUBSET Tasks
        BY <3>1
    <3> QED BY <3>2, <3>3
  <2>10. ASSUME NEW f \in [Tasks -> 0..MaxDepth], LevelsOf(f), Counts(f, r)
         PROVE  Counts(f, r)'
    <3>1. /\ life[req[r].to] = "live" /\ f[req[r].to] = f[a] + req[r].depth
      <4>1. CASE req[r].depth = 0
        <5>1. req[r].to = a /\ f[a] \in Nat
            BY <1>1, <1>2, <4>1 DEF Serves
        <5> QED BY <2>5, <4>1, <5>1
      <4>2. CASE req[r].depth > 0
          BY <1>2, <2>10, <4>2 DEF Counts
      <4> QED BY <2>1, <4>1, <4>2
    <3>2. CASE idPai[a] # NoTask
      <4>1. /\ life[idPai[a]] = "live" /\ f[a] = f[idPai[a]] + 1 /\ idPai[a] \in Tasks
          BY <1>2, <2>1, <2>5, <2>10, <3>2 DEF LevelsOf, Parents
      <4>2. f[req[r].to] = f[idPai[a]] + (req[r].depth + 1)
        <5>1. f[idPai[a]] \in Nat /\ f[a] \in Nat
            BY <1>2, <4>1
        <5> QED BY <2>1, <3>1, <4>1, <5>1
      <4>3. q.pc = "climb"
          BY <2>3, <2>6, <3>2
      <4> QED BY <2>3, <2>4, <2>5, <3>1, <4>1, <4>2, <4>3 DEF Counts
    <3>3. CASE idPai[a] = NoTask
      <4>1. f[a] = 0 /\ f[req[r].to] = req[r].depth
          BY <1>2, <2>1, <2>5, <2>10, <3>1, <3>3 DEF LevelsOf
      <4>2. f[req[r].to] < MaxDepth
          BY <2>1, <4>1, TreeAssumption
      <4>3. q.pc # "climb"
          BY <2>3, <2>6, <3>3
      <4> QED BY <2>3, <2>4, <2>5, <3>1, <4>2, <4>3 DEF Counts
    <3> QED BY <3>2, <3>3
  <2> QED BY <1>2, <2>3, <2>4, <2>5, <2>8, <2>9, <2>10, TurnsInv
<1>4. CASE ~goes
  <2>1. Ends(r) /\ UNCHANGED <<life, idPai, idProject, seen>>
      BY <1>4 DEF Climb
  <2> QED BY <2>1, EndsInv
<1> QED BY <1>3, <1>4

\* The row of a new task: nothing is below it, so no cycle goes through it.
LEMMA CreateWriteInv == ASSUME TreeInv, NEW r \in TreeRequests, CreateWrite(r) PROVE TreeInv'
<1>1. PICK t, p, j : t = req[r].task /\ p = req[r].to /\ j = req[r].project
    OBVIOUS
<1>2. TreeTypeOK /\ TasksKnown /\ SameProject /\ MovesApart /\ ForestUnlessMovesRace /\ CalmLevels
    BY DEF TreeInv
<1>3. /\ t \in Tasks /\ p \in Parents /\ p # t /\ j \in Projects
      /\ life[t] = "unborn" /\ idPai[t] = NoTask
      /\ p # NoTask => p \in Tasks /\ life[p] # "unborn" /\ idProject[p] = j
  <2>1. req[r].op = "create" /\ req[r].pc = "write" /\ Serves(r) /\ req[r] \in TreeReqs
      BY <1>2 DEF CreateWrite, TasksKnown, TreeTypeOK
  <2>2. t \in Tasks /\ p \in Parents
      BY <1>1, <2>1 DEF Serves, TreeReqs
  <2> QED BY <1>1, <1>2, <2>1, <2>2 DEF Serves, TasksKnown, BirthsKnown, Parents
<1>4. \A x \in Tasks : idPai[x] # t
    BY <1>2, <1>3, TreeAssumption DEF TasksKnown, BirthsKnown
<1>5. /\ life' = [life EXCEPT ![t] = "live"] /\ idPai' = [idPai EXCEPT ![t] = p]
      /\ idProject' = [idProject EXCEPT ![t] = j]
      /\ req' = [req EXCEPT ![r] = NoReq] /\ seen' = seen
    BY <1>1 DEF CreateWrite, Ends
<1>6. /\ life'[t] = "live" /\ idPai'[t] = p /\ idProject'[t] = j
      /\ \A x \in Tasks : x # t => life'[x] = life[x] /\ idPai'[x] = idPai[x] /\ idProject'[x] = idProject[x]
      /\ req'[r] = NoReq /\ \A o \in TreeRequests : o # r => req'[o] = req[o]
    BY <1>2, <1>3, <1>5 DEF TreeTypeOK
<1>7. TreeTypeOK'
    BY <1>2, <1>3, <1>5, NoReqIs DEF TreeTypeOK
<1>8. BirthsKnown' /\ CreatedOnce' /\ SameProject'
  <2>1. BirthsKnown'
      BY <1>2, <1>3, <1>4, <1>6 DEF TasksKnown, BirthsKnown, TreeTypeOK, Parents
  <2>2. CreatedOnce'
      BY <1>2, <1>6, NoReqIs DEF TasksKnown, CreatedOnce
  <2>3. SameProject'
      BY <1>2, <1>3, <1>4, <1>6 DEF SameProject, TreeTypeOK, Parents
  <2> QED BY <2>1, <2>2, <2>3
<1>9. ASSUME NEW o \in TreeRequests PROVE Serves(o)'
  <2>1. CASE o = r
      BY <1>6, <2>1, NoReqIs DEF Serves
  <2>2. CASE o # r
    <3>1. Serves(o) /\ req'[o] = req[o] /\ req[o] \in TreeReqs
        BY <1>2, <1>6, <2>2 DEF TasksKnown, TreeTypeOK
    <3>2. req[o].op = "create" => req[o].task # t
        BY <1>1, <1>2, <2>2 DEF TasksKnown, CreatedOnce, CreateWrite
    <3>3. req[o].to # NoTask => req[o].to \in Tasks
        BY <3>1 DEF TreeReqs, Parents
    <3> QED BY <1>3, <1>6, <3>1, <3>2, <3>3 DEF Serves
  <2> QED BY <2>1, <2>2
<1>10. MovesApart'
  <2> SUFFICES ASSUME "moves" \notin seen' PROVE OneMover' /\ Climbs'
      BY DEF MovesApart
  <2>1. OneMover /\ Climbs
      BY <1>2, <1>5 DEF MovesApart
  <2>2. \A o \in TreeRequests : req'[o].op = "move" => o # r
      BY <1>6, NoReqIs
  <2>3. ASSUME NEW o \in TreeRequests, req'[o].op = "move"
        PROVE  \E S \in SUBSET Tasks : ClimbedBy(o, S)'
    <3>1. PICK S \in SUBSET Tasks : ClimbedBy(o, S)
        BY <1>6, <2>1, <2>2, <2>3 DEF Climbs
    <3>2. \A s \in Tasks : life[s] # "unborn" => life'[s] # "unborn" /\ idPai'[s] = idPai[s]
        BY <1>3, <1>6
    <3>3. ClimbedBy(o, S)'
        BY <1>6, <2>2, <2>3, <3>1, <3>2 DEF ClimbedBy
    <3> QED BY <3>3
  <2> QED BY <1>6, <2>1, <2>2, <2>3 DEF OneMover, Climbs
<1>11. ForestUnlessMovesRace'
  <2> SUFFICES ASSUME "moves" \notin seen, NEW C \in SUBSET Tasks, ClosesACycle(C)' PROVE FALSE
      BY <1>5 DEF ForestUnlessMovesRace, Forest
  <2>1. C # {} /\ \A x \in C : idPai'[x] \in C
      BY DEF ClosesACycle
  <2>2. C \ {t} # {}
      BY <1>3, <1>6, <2>1
  <2>3. \A x \in C \ {t} : idPai[x] \in C \ {t}
      BY <1>4, <1>6, <2>1
  <2> QED BY <1>2, <2>2, <2>3 DEF ForestUnlessMovesRace, Forest, ClosesACycle
<1>12. CalmLevels'
  <2> SUFFICES ASSUME Calm'
               PROVE  /\ OneAtATime'
                      /\ \E f \in [Tasks -> 0..MaxDepth] :
                            LevelsOf(f)' /\ \A o \in TreeRequests : Counts(f, o)'
      BY DEF CalmLevels
  <2>1. PICK f \in [Tasks -> 0..MaxDepth] : LevelsOf(f) /\ Counts(f, r)
      BY <1>2, <1>5 DEF CalmLevels, Calm
  <2>2. OneAtATime /\ \A o \in TreeRequests : o # r => req[o].op = "none" /\ req[o].pc = "idle"
    <3>1. OneAtATime /\ req[r].op # "none"
        BY <1>2, <1>5 DEF CalmLevels, Calm, CreateWrite
    <3> QED BY <1>2, <3>1 DEF OneAtATime, TasksKnown, Serves
  <2>3. PICK n : n = IF p = NoTask THEN 0 ELSE f[p] + 1
      OBVIOUS
  <2>4. /\ n \in 0..MaxDepth
        /\ p = NoTask => n = 0
        /\ p # NoTask => life[p] = "live" /\ n = f[p] + 1
    <3>1. CASE p = NoTask
        BY <2>3, <3>1, TreeAssumption
    <3>2. CASE p # NoTask
      <4>1. life[p] = "live" /\ f[p] < MaxDepth
          BY <1>1, <2>1, <3>2 DEF Counts, CreateWrite
      <4>2. f[p] \in 0..MaxDepth
          BY <1>3, <3>2
      <4> QED BY <2>3, <3>2, <4>1, <4>2, TreeAssumption
    <3> QED BY <3>1, <3>2
  <2> DEFINE g == [f EXCEPT ![t] = n]
  <2>5. g \in [Tasks -> 0..MaxDepth] /\ g[t] = n /\ \A x \in Tasks : x # t => g[x] = f[x]
      BY <1>3, <2>1, <2>4
  <2> HIDE DEF g
  <2>6. PICK h : h = g
      OBVIOUS
  <2>7. LevelsOf(h)'
    <3> SUFFICES ASSUME NEW x \in Tasks, life'[x] = "live"
                 PROVE  /\ idPai'[x] = NoTask => h[x] = 0
                        /\ idPai'[x] # NoTask => life'[idPai'[x]] = "live" /\ h[x] = h[idPai'[x]] + 1
        BY DEF LevelsOf
    <3>1. CASE x = t
        BY <1>3, <1>6, <2>4, <2>5, <2>6, <3>1
    <3>2. CASE x # t
      <4>1. idPai[x] # NoTask => idPai[x] \in Tasks
          BY <1>2 DEF TreeTypeOK, Parents
      <4> QED BY <1>4, <1>6, <2>1, <2>5, <2>6, <3>2, <4>1 DEF LevelsOf
    <3> QED BY <3>1, <3>2
  <2>8. \A o \in TreeRequests : req'[o].op = "none" /\ req'[o].pc = "idle"
      BY <1>6, <2>2, NoReqIs
  <2>9. OneAtATime' /\ \A o \in TreeRequests : Counts(h, o)'
      BY <2>8 DEF OneAtATime, Counts
  <2> QED BY <2>5, <2>6, <2>7, <2>9
<1> QED BY <1>7, <1>8, <1>9, <1>10, <1>11, <1>12 DEF TreeInv, TasksKnown

\* The parent that a move writes is the one its climb began with: a new cycle through the
\* task would leave one among the ancestors it climbed.
LEMMA MoveWriteInv == ASSUME TreeInv, NEW r \in TreeRequests, MoveWrite(r) PROVE TreeInv'
<1>1. PICK t, p : t = req[r].task /\ p = req[r].to
    OBVIOUS
<1>2. TreeTypeOK /\ TasksKnown /\ SameProject /\ MovesApart /\ ForestUnlessMovesRace /\ CalmLevels
    BY DEF TreeInv
<1>3. /\ t \in Tasks /\ p \in Parents /\ p # t /\ life[t] # "unborn"
      /\ p # NoTask => p \in Tasks /\ life[p] # "unborn" /\ idProject[p] = idProject[t]
      /\ req[r].at = NoTask
  <2>1. req[r].op = "move" /\ req[r].pc = "write" /\ Serves(r) /\ req[r] \in TreeReqs
      BY <1>2 DEF MoveWrite, TasksKnown, TreeTypeOK
  <2>2. t \in Tasks /\ p \in Parents
      BY <1>1, <2>1 DEF Serves, TreeReqs
  <2> QED BY <1>1, <2>1, <2>2 DEF Serves, Parents
<1>4. /\ idPai' = [idPai EXCEPT ![t] = p] /\ UNCHANGED <<life, idProject>>
      /\ req' = [req EXCEPT ![r] = NoReq]
      /\ seen \subseteq seen' /\ seen' \subseteq seen \cup {"subtree"}
      /\ "subtree" \notin seen' => \A c \in Tasks : idPai[c] # t
    BY <1>1 DEF MoveWrite, Ends
<1>5. /\ idPai'[t] = p /\ \A x \in Tasks : x # t => idPai'[x] = idPai[x]
      /\ req'[r] = NoReq /\ \A o \in TreeRequests : o # r => req'[o] = req[o]
    BY <1>2, <1>3, <1>4 DEF TreeTypeOK
<1>6. TreeTypeOK'
    BY <1>2, <1>3, <1>4, NoReqIs DEF TreeTypeOK, Marks
<1>7. BirthsKnown' /\ CreatedOnce' /\ SameProject'
  <2>1. BirthsKnown'
      BY <1>2, <1>3, <1>4, <1>5 DEF TasksKnown, BirthsKnown
  <2>2. CreatedOnce'
      BY <1>2, <1>5, NoReqIs DEF TasksKnown, CreatedOnce
  <2>3. SameProject'
      BY <1>2, <1>3, <1>4, <1>5 DEF SameProject
  <2> QED BY <2>1, <2>2, <2>3
<1>8. ASSUME NEW o \in TreeRequests PROVE Serves(o)'
  <2>1. CASE o = r
      BY <1>5, <2>1, NoReqIs DEF Serves
  <2>2. CASE o # r
      BY <1>2, <1>4, <1>5, <2>2 DEF TasksKnown, Serves
  <2> QED BY <2>1, <2>2
<1>9. MovesApart'
  <2> SUFFICES ASSUME "moves" \notin seen' PROVE OneMover' /\ Climbs'
      BY DEF MovesApart
  <2>1. OneMover
      BY <1>2, <1>4 DEF MovesApart
  <2>2. \A o \in TreeRequests : req'[o].op # "move"
      BY <1>5, <2>1, NoReqIs DEF OneMover, MoveWrite
  <2> QED BY <2>2 DEF OneMover, Climbs
<1>10. ForestUnlessMovesRace'
  <2> SUFFICES ASSUME "moves" \notin seen, NEW C \in SUBSET Tasks, ClosesACycle(C)' PROVE FALSE
      BY <1>4 DEF ForestUnlessMovesRace, Forest
  <2>1. C # {} /\ \A x \in C : idPai'[x] \in C
      BY DEF ClosesACycle
  <2>2. Forest
      BY <1>2 DEF ForestUnlessMovesRace
  <2>3. t \in C
      BY <1>5, <2>1, <2>2 DEF Forest, ClosesACycle
  <2>4. PICK S \in SUBSET Tasks : ClimbedBy(r, S)
      BY <1>2 DEF MovesApart, Climbs, MoveWrite
  <2>5. t \notin S /\ p \in S \cup {NoTask} /\ \A s \in S : idPai[s] \in S \cup {NoTask}
      BY <1>1, <1>3, <2>4 DEF ClimbedBy
  <2>6. p \in C /\ p \in S
      BY <1>5, <2>1, <2>3, <2>5, TreeAssumption
  <2>7. \A x \in C \cap S : idPai[x] \in C \cap S
      BY <1>5, <2>1, <2>5, TreeAssumption
  <2> QED BY <2>2, <2>6, <2>7 DEF Forest, ClosesACycle
<1>11. CalmLevels'
  <2> SUFFICES ASSUME Calm'
               PROVE  /\ OneAtATime'
                      /\ \E f \in [Tasks -> 0..MaxDepth] :
                            LevelsOf(f)' /\ \A o \in TreeRequests : Counts(f, o)'
      BY DEF CalmLevels
  <2>0. Calm /\ \A x \in Tasks : idPai[x] # t
      BY <1>4 DEF Calm
  <2>1. PICK f \in [Tasks -> 0..MaxDepth] : LevelsOf(f) /\ Counts(f, r)
      BY <1>2, <2>0 DEF CalmLevels
  <2>2. OneAtATime /\ \A o \in TreeRequests : o # r => req[o].op = "none" /\ req[o].pc = "idle"
    <3>1. OneAtATime /\ req[r].op # "none"
        BY <1>2, <2>0 DEF CalmLevels, MoveWrite
    <3> QED BY <1>2, <3>1 DEF OneAtATime, TasksKnown, Serves
  <2>3. PICK n : n = IF p = NoTask THEN 0 ELSE f[p] + 1
      OBVIOUS
  <2>4. /\ n \in 0..MaxDepth
        /\ p = NoTask => n = 0
        /\ p # NoTask => life[p] = "live" /\ n = f[p] + 1
    <3>1. CASE p = NoTask
        BY <2>3, <3>1, TreeAssumption
    <3>2. CASE p # NoTask
      <4>1. life[p] = "live" /\ f[p] < MaxDepth
          BY <1>1, <2>1, <3>2 DEF Counts, MoveWrite
      <4>2. f[p] \in 0..MaxDepth
          BY <1>3, <2>1, <3>2
      <4> QED BY <2>3, <3>2, <4>1, <4>2, TreeAssumption
    <3> QED BY <3>1, <3>2
  <2> DEFINE g == [f EXCEPT ![t] = n]
  <2>5. g \in [Tasks -> 0..MaxDepth] /\ g[t] = n /\ \A x \in Tasks : x # t => g[x] = f[x]
      BY <1>3, <2>1, <2>4
  <2> HIDE DEF g
  <2>6. PICK h : h = g
      OBVIOUS
  <2>7. LevelsOf(h)'
    <3> SUFFICES ASSUME NEW x \in Tasks, life'[x] = "live"
                 PROVE  /\ idPai'[x] = NoTask => h[x] = 0
                        /\ idPai'[x] # NoTask => life'[idPai'[x]] = "live" /\ h[x] = h[idPai'[x]] + 1
        BY DEF LevelsOf
    <3>1. CASE x = t
        BY <1>3, <1>4, <1>5, <2>4, <2>5, <2>6, <3>1
    <3>2. CASE x # t
      <4>1. idPai[x] # NoTask => idPai[x] \in Tasks
          BY <1>2 DEF TreeTypeOK, Parents
      <4> QED BY <1>4, <1>5, <2>0, <2>1, <2>5, <2>6, <3>2, <4>1 DEF LevelsOf
    <3> QED BY <3>1, <3>2
  <2>8. \A o \in TreeRequests : req'[o].op = "none" /\ req'[o].pc = "idle"
      BY <1>5, <2>2, NoReqIs
  <2>9. OneAtATime' /\ \A o \in TreeRequests : Counts(h, o)'
      BY <2>8 DEF OneAtATime, Counts
  <2> QED BY <2>5, <2>6, <2>7, <2>9
<1> QED BY <1>6, <1>7, <1>8, <1>9, <1>10, <1>11 DEF TreeInv, TasksKnown

\* A set of positive numbers that contains 1, and the next number of each, reaches n.
LEMMA Reaches ==
    ASSUME NEW n \in Nat \ {0}, NEW N \in SUBSET (1..n), 1 \in N, \A i \in N : i < n => i + 1 \in N
    PROVE  n \in N
<1>1. PICK m \in N : \A j \in N : j <= m
    BY GreatestOf
<1>2. m \in 1..n
    BY <1>1
<1>3. ~(m < n)
  <2> SUFFICES ASSUME m < n PROVE FALSE
      OBVIOUS
  <2>1. m + 1 \in N
      BY <1>1
  <2>2. m + 1 <= m
      BY <1>1, <2>1
  <2> QED BY <1>2, <2>2
<1>4. m = n
    BY <1>2, <1>3
<1> QED BY <1>1, <1>4

\* The recursive query of softDeleteCascade, level by level.
IsLevel(g, t, n) ==
    /\ g[0] = {u \in {t} : life[u] = "live"}
    /\ \A d \in 1..n : g[d] = g[d - 1] \cup LiveChildren(g[d - 1])

LEMMA DescendantsByLevel ==
    ASSUME NEW t \in Tasks
    PROVE  \E g : IsLevel(g, t, MaxDepth) /\ Descendants(t) = g[MaxDepth]
<1> DEFINE F(h) == [d \in 0..MaxDepth |-> IF d = 0 THEN {u \in {t} : life[u] = "live"}
                                          ELSE h[d - 1] \cup LiveChildren(h[d - 1])]
           R    == CHOOSE h : h = F(h)
           N    == {n \in 1..MaxDepth : \E g \in [0..n -> SUBSET Tasks] : IsLevel(g, t, n)}
<1>1. Descendants(t) = R[MaxDepth]
    BY DEF Descendants
<1>2. 1 \in N
  <2> DEFINE g == [d \in 0..1 |-> IF d = 0 THEN {u \in {t} : life[u] = "live"}
                                  ELSE {u \in {t} : life[u] = "live"}
                                         \cup LiveChildren({u \in {t} : life[u] = "live"})]
  <2>1. g \in [0..1 -> SUBSET Tasks]
      BY DEF LiveChildren
  <2>2. IsLevel(g, t, 1)
      BY DEF IsLevel
  <2>3. 1 \in 1..MaxDepth
      BY TreeAssumption
  <2> QED BY <2>1, <2>2, <2>3
<1>3. ASSUME NEW n \in N, n < MaxDepth PROVE n + 1 \in N
  <2>1. PICK g \in [0..n -> SUBSET Tasks] : IsLevel(g, t, n)
      OBVIOUS
  <2>2. n \in Nat \ {0} /\ n + 1 \in 1..MaxDepth
      BY <1>3, TreeAssumption
  <2> DEFINE h == [d \in 0..(n + 1) |-> IF d = n + 1 THEN g[n] \cup LiveChildren(g[n]) ELSE g[d]]
  <2>3. h \in [0..(n + 1) -> SUBSET Tasks]
      BY <2>1, <2>2 DEF LiveChildren
  <2>4. h[n + 1] = g[n] \cup LiveChildren(g[n]) /\ \A d \in 0..n : h[d] = g[d]
      BY <2>2
  <2> HIDE DEF h
  <2>5. h[0] = g[0]
      BY <2>2, <2>4
  <2>6. ASSUME NEW d \in 1..(n + 1) PROVE h[d] = h[d - 1] \cup LiveChildren(h[d - 1])
    <3>1. CASE d = n + 1
      <4>1. d - 1 = n /\ n \in 0..n
          BY <2>2, <3>1
      <4>2. h[d - 1] = g[n]
          BY <2>4, <4>1
      <4> QED BY <2>4, <3>1, <4>2
    <3>2. CASE d # n + 1
      <4>1. d \in 1..n /\ d \in 0..n /\ d - 1 \in 0..n
          BY <2>2, <3>2
      <4>2. h[d] = g[d] /\ h[d - 1] = g[d - 1]
          BY <2>4, <4>1
      <4> QED BY <2>1, <4>1, <4>2 DEF IsLevel
    <3> QED BY <3>1, <3>2
  <2>7. IsLevel(h, t, n + 1)
      BY <2>1, <2>5, <2>6 DEF IsLevel
  <2> QED BY <2>2, <2>3, <2>7
<1>4. MaxDepth \in N
  <2>1. N \in SUBSET (1..MaxDepth)
      OBVIOUS
  <2> HIDE DEF N
  <2> QED BY <1>2, <1>3, <2>1, TreeAssumption, Reaches
<1>5. PICK g \in [0..MaxDepth -> SUBSET Tasks] : IsLevel(g, t, MaxDepth)
    BY <1>4
<1>6. g = F(g)
  <2>1. ASSUME NEW d \in 0..MaxDepth PROVE g[d] = F(g)[d]
    <3>1. d = 0 \/ d \in 1..MaxDepth
        OBVIOUS
    <3> QED BY <1>5, <2>1, <3>1 DEF IsLevel
  <2> QED BY <1>5, <2>1
<1> HIDE DEF F
<1>7. R = F(R)
    BY <1>6
<1> HIDE DEF R
<1>8. IsLevel(R, t, MaxDepth)
  <2>1. R[0] = {u \in {t} : life[u] = "live"}
      BY <1>7, TreeAssumption DEF F
  <2>2. ASSUME NEW d \in 1..MaxDepth PROVE R[d] = R[d - 1] \cup LiveChildren(R[d - 1])
    <3>1. d \in 0..MaxDepth /\ d # 0
        OBVIOUS
    <3> QED BY <1>7, <3>1 DEF F
  <2> QED BY <2>1, <2>2 DEF IsLevel
<1> QED BY <1>1, <1>8

\* The recursive query returns live tasks.
LEMMA DescendantsLive ==
    ASSUME NEW t \in Tasks
    PROVE  \A u \in Descendants(t) : u \in Tasks /\ life[u] = "live"
<1>1. PICK g : IsLevel(g, t, MaxDepth) /\ Descendants(t) = g[MaxDepth]
    BY DescendantsByLevel
<1> DEFINE LiveOnes == {u \in Tasks : life[u] = "live"}
           N        == {n \in 1..MaxDepth : g[n] \subseteq LiveOnes}
<1>2. g[0] \subseteq LiveOnes
    BY <1>1 DEF IsLevel
<1>3. ASSUME NEW n \in 1..MaxDepth, g[n - 1] \subseteq LiveOnes PROVE g[n] \subseteq LiveOnes
    BY <1>1, <1>3 DEF IsLevel, LiveChildren
<1>4. 1 \in N
  <2>1. 1 \in 1..MaxDepth /\ 1 - 1 = 0
      BY TreeAssumption
  <2>2. g[1] \subseteq LiveOnes
      BY <1>2, <1>3, <2>1
  <2> QED BY <2>1, <2>2
<1>5. ASSUME NEW n \in N, n < MaxDepth PROVE n + 1 \in N
  <2>1. n + 1 \in 1..MaxDepth /\ (n + 1) - 1 = n /\ g[n] \subseteq LiveOnes
      BY <1>5, TreeAssumption
  <2>2. g[n + 1] \subseteq LiveOnes
      BY <1>3, <2>1
  <2> QED BY <2>1, <2>2
<1>6. MaxDepth \in N
  <2>1. N \in SUBSET (1..MaxDepth)
      OBVIOUS
  <2> HIDE DEF N
  <2> QED BY <1>4, <1>5, <2>1, TreeAssumption, Reaches
<1> QED BY <1>1, <1>6

\* While the levels are below MaxDepth, the query returns every live task below.
LEMMA DescendantsClosed ==
    ASSUME TreeTypeOK, NEW t \in Tasks, NEW f \in [Tasks -> 0..MaxDepth], LevelsOf(f),
           NEW c \in Tasks, life[c] = "live", idPai[c] \in Descendants(t)
    PROVE  c \in Descendants(t)
<1>1. PICK g : IsLevel(g, t, MaxDepth) /\ Descendants(t) = g[MaxDepth]
    BY DescendantsByLevel
<1> DEFINE Deep(n) == \A u \in g[n] \ g[n - 1] : u \in Tasks /\ f[u] >= n
           N       == {n \in 1..MaxDepth : Deep(n)}
<1>2. \A u \in Tasks : life[u] = "live" /\ idPai[u] \in Tasks => f[u] = f[idPai[u]] + 1
    BY TreeAssumption DEF LevelsOf
<1>3. 1 \in N
  <2>1. 1 \in 1..MaxDepth /\ 1 - 1 = 0
      BY TreeAssumption
  <2>2. ASSUME NEW u \in g[1] \ g[0] PROVE u \in Tasks /\ f[u] >= 1
    <3>1. u \in LiveChildren(g[0]) /\ g[0] \subseteq {t}
        BY <1>1, <2>1 DEF IsLevel
    <3>2. u \in Tasks /\ life[u] = "live" /\ idPai[u] = t
        BY <3>1 DEF LiveChildren
    <3>3. f[u] = f[t] + 1 /\ f[t] \in Nat
        BY <1>2, <3>2
    <3> QED BY <3>2, <3>3
  <2> QED BY <2>1, <2>2
<1>4. ASSUME NEW n \in N, n < MaxDepth PROVE n + 1 \in N
  <2>1. /\ n \in 1..MaxDepth /\ n + 1 \in 1..MaxDepth /\ (n + 1) - 1 = n
        /\ Deep(n)
      BY <1>4, TreeAssumption
  <2>2. ASSUME NEW u \in g[n + 1] \ g[n] PROVE u \in Tasks /\ f[u] >= n + 1
    <3>1. u \in LiveChildren(g[n]) /\ u \notin LiveChildren(g[n - 1])
        BY <1>1, <2>1 DEF IsLevel
    <3>2. u \in Tasks /\ life[u] = "live" /\ idPai[u] \in g[n] \ g[n - 1]
        BY <3>1 DEF LiveChildren
    <3>3. idPai[u] \in Tasks /\ f[idPai[u]] >= n
        BY <2>1, <3>2
    <3>4. f[u] = f[idPai[u]] + 1 /\ f[idPai[u]] \in Nat
        BY <1>2, <3>2, <3>3
    <3> QED BY <2>1, <3>2, <3>3, <3>4
  <2>3. Deep(n + 1)
      BY <2>1, <2>2
  <2> QED BY <2>1, <2>3
<1>5. Deep(MaxDepth)
  <2>1. N \in SUBSET (1..MaxDepth)
      OBVIOUS
  <2>2. MaxDepth \in N
    <3> HIDE DEF N
    <3> QED BY <1>3, <1>4, <2>1, TreeAssumption, Reaches
  <2> QED BY <2>2
<1>6. idPai[c] \in Tasks
    BY <1>1, DescendantsLive
<1>7. idPai[c] \in g[MaxDepth - 1]
  <2> SUFFICES ASSUME idPai[c] \notin g[MaxDepth - 1] PROVE FALSE
      OBVIOUS
  <2>1. f[idPai[c]] >= MaxDepth
      BY <1>1, <1>5
  <2>2. f[c] = f[idPai[c]] + 1 /\ f[c] \in 0..MaxDepth /\ f[idPai[c]] \in 0..MaxDepth
      BY <1>2, <1>6
  <2> QED BY <2>1, <2>2, TreeAssumption
<1>8. c \in LiveChildren(g[MaxDepth - 1])
    BY <1>7 DEF LiveChildren
<1>9. MaxDepth \in 1..MaxDepth
    BY TreeAssumption
<1> QED BY <1>1, <1>8, <1>9 DEF IsLevel

\* Only lives end: what was climbed and who was born stay.
LEMMA DeathsInv ==
    ASSUME TreeInv, NEW r \in TreeRequests, Ends(r), UNCHANGED <<idPai, idProject>>,
           seen' \in SUBSET Marks, seen \subseteq seen',
           NEW D \in SUBSET Tasks, \A t \in D : life[t] # "unborn",
           life' = [t \in Tasks |-> IF t \in D THEN "deleted" ELSE life[t]],
           Calm' => /\ req[r].op # "none"
                    /\ \A f \in [Tasks -> 0..MaxDepth] :
                         LevelsOf(f) => \A c \in Tasks : life[c] = "live" /\ idPai[c] \in D => c \in D
    PROVE  TreeInv'
<1>1. TreeTypeOK /\ TasksKnown /\ SameProject /\ MovesApart /\ ForestUnlessMovesRace /\ CalmLevels
    BY DEF TreeInv
<1>2. /\ req'[r] = NoReq /\ \A o \in TreeRequests : o # r => req'[o] = req[o]
      /\ req' \in [TreeRequests -> TreeReqs]
    BY <1>1, NoReqIs DEF Ends, TreeTypeOK
<1>3. \A t \in Tasks : /\ life'[t] = "unborn" <=> life[t] = "unborn"
                       /\ life'[t] = "live" <=> life[t] = "live" /\ t \notin D
    OBVIOUS
<1>4. TreeTypeOK'
    BY <1>1, <1>2 DEF TreeTypeOK
<1>5. BirthsKnown' /\ CreatedOnce' /\ SameProject'
  <2>1. BirthsKnown'
      BY <1>1, <1>3 DEF TasksKnown, BirthsKnown, TreeTypeOK, Parents
  <2>2. CreatedOnce'
      BY <1>1, <1>2, NoReqIs DEF TasksKnown, CreatedOnce
  <2>3. SameProject'
      BY <1>1 DEF SameProject
  <2> QED BY <2>1, <2>2, <2>3
<1>6. ASSUME NEW o \in TreeRequests PROVE Serves(o)'
  <2>1. CASE o = r
      BY <1>2, <2>1, NoReqIs DEF Serves
  <2>2. CASE o # r
    <3>1. Serves(o) /\ req'[o] = req[o] /\ req[o] \in TreeReqs
        BY <1>1, <1>2, <2>2 DEF TasksKnown, TreeTypeOK
    <3>2. req[o].to # NoTask => req[o].to \in Tasks
        BY <3>1 DEF TreeReqs, Parents
    <3>3. req[o].op # "none" => req[o].task \in Tasks
        BY <3>1 DEF Serves
    <3> QED BY <1>3, <3>1, <3>2, <3>3 DEF Serves
  <2> QED BY <2>1, <2>2
<1>7. MovesApart'
  <2> SUFFICES ASSUME "moves" \notin seen' PROVE OneMover' /\ Climbs'
      BY DEF MovesApart
  <2>1. OneMover /\ Climbs
      BY <1>1 DEF MovesApart
  <2>2. \A o \in TreeRequests : req'[o].op = "move" => o # r
      BY <1>2, NoReqIs
  <2>3. ASSUME NEW o \in TreeRequests, req'[o].op = "move"
        PROVE  \E S \in SUBSET Tasks : ClimbedBy(o, S)'
    <3>1. PICK S \in SUBSET Tasks : ClimbedBy(o, S)
        BY <1>2, <2>1, <2>2, <2>3 DEF Climbs
    <3>2. ClimbedBy(o, S)'
        BY <1>2, <1>3, <2>2, <2>3, <3>1 DEF ClimbedBy
    <3> QED BY <3>2
  <2> QED BY <1>2, <2>1, <2>2, <2>3 DEF OneMover, Climbs
<1>8. ForestUnlessMovesRace'
    BY <1>1 DEF ForestUnlessMovesRace, Forest, ClosesACycle
<1>9. CalmLevels'
  <2> SUFFICES ASSUME Calm'
               PROVE  /\ OneAtATime'
                      /\ \E f \in [Tasks -> 0..MaxDepth] :
                            LevelsOf(f)' /\ \A o \in TreeRequests : Counts(f, o)'
      BY DEF CalmLevels
  <2>1. Calm
      BY DEF Calm
  <2>2. PICK f \in [Tasks -> 0..MaxDepth] : LevelsOf(f)
      BY <1>1, <2>1 DEF CalmLevels
  <2>3. \A o \in TreeRequests : req'[o].op = "none" /\ req'[o].pc = "idle"
    <3>1. OneAtATime /\ req[r].op # "none"
        BY <1>1, <2>1 DEF CalmLevels
    <3> QED BY <1>1, <1>2, <3>1, NoReqIs DEF OneAtATime, TasksKnown, Serves
  <2>4. \A c \in Tasks : life[c] = "live" /\ idPai[c] \in D => c \in D
      BY <2>2
  <2>5. LevelsOf(f)'
    <3> SUFFICES ASSUME NEW x \in Tasks, life'[x] = "live"
                 PROVE  /\ idPai[x] = NoTask => f[x] = 0
                        /\ idPai[x] # NoTask => life'[idPai[x]] = "live" /\ f[x] = f[idPai[x]] + 1
        BY DEF LevelsOf
    <3>1. idPai[x] # NoTask => idPai[x] \in Tasks
        BY <1>1 DEF TreeTypeOK, Parents
    <3> QED BY <1>3, <2>2, <2>4, <3>1 DEF LevelsOf
  <2>6. OneAtATime' /\ \A o \in TreeRequests : Counts(f, o)'
      BY <2>3 DEF OneAtATime, Counts
  <2> QED BY <2>2, <2>5, <2>6
<1> QED BY <1>4, <1>5, <1>6, <1>7, <1>8, <1>9 DEF TreeInv, TasksKnown

LEMMA SoftDeleteCascadeInv ==
    ASSUME TreeInv, NEW r \in TreeRequests, SoftDeleteCascade(r) PROVE TreeInv'
<1>1. TreeTypeOK /\ req[r].op # "none" /\ req[r].task \in Tasks
    BY DEF TreeInv, TasksKnown, Serves, SoftDeleteCascade
<1>2. PICK D : D = Descendants(req[r].task)
    OBVIOUS
<1>3. D \in SUBSET Tasks /\ \A t \in D : life[t] # "unborn"
    BY <1>1, <1>2, DescendantsLive
<1>4. \A f \in [Tasks -> 0..MaxDepth] :
         LevelsOf(f) => \A c \in Tasks : life[c] = "live" /\ idPai[c] \in D => c \in D
    BY <1>1, <1>2, DescendantsClosed
<1>5. /\ life' = [t \in Tasks |-> IF t \in D THEN "deleted" ELSE life[t]]
      /\ Ends(r) /\ UNCHANGED <<idPai, idProject, seen>> /\ seen \in SUBSET Marks
    BY <1>1, <1>2 DEF SoftDeleteCascade, TreeTypeOK
<1> QED BY <1>1, <1>3, <1>4, <1>5, DeathsInv

LEMMA UnlinkInv == ASSUME TreeInv, NEW r \in TreeRequests, Unlink(r) PROVE TreeInv'
<1>1. PICK D : D = {req[r].task}
    OBVIOUS
<1>2. D \in SUBSET Tasks /\ \A t \in D : life[t] # "unborn"
  <2>1. Serves(r) /\ req[r].pc = "unlink" /\ req[r] \in TreeReqs
      BY DEF TreeInv, TreeTypeOK, TasksKnown, Unlink
  <2>2. req[r].op = "delete"
      BY <2>1 DEF Serves, TreeReqs
  <2> QED BY <1>1, <2>1, <2>2 DEF Serves
<1>3. life' = [t \in Tasks |-> IF t \in D THEN "deleted" ELSE life[t]]
    BY <1>1 DEF TreeInv, TreeTypeOK, Unlink
<1>4. /\ Ends(r) /\ UNCHANGED <<idPai, idProject>> /\ seen' \in SUBSET Marks
      /\ seen \subseteq seen' /\ ~Calm'
    BY DEF Unlink, Calm, Marks, TreeInv, TreeTypeOK
<1> QED BY <1>2, <1>3, <1>4, DeathsInv

LEMMA TreeNextInv == TreeInv /\ [TreeNext]_treeVars => TreeInv'
<1> SUFFICES ASSUME TreeInv, [TreeNext]_treeVars PROVE TreeInv'
    OBVIOUS
<1>1. CASE UNCHANGED treeVars
    BY <1>1 DEF treeVars, TreeInv, TreeTypeOK, TasksKnown, BirthsKnown, CreatedOnce, Serves, SameProject,
               MovesApart, OneMover, Climbs, ClimbedBy, ForestUnlessMovesRace, Forest, ClosesACycle,
               CalmLevels, Calm, OneAtATime, LevelsOf, Counts
<1>2. ASSUME NEW r \in TreeRequests,
             \/ CreateBegin(r) \/ MoveBegin(r) \/ DeleteBegin(r)
             \/ Climb(r) \/ CheckProject(r)
             \/ CreateWrite(r) \/ MoveWrite(r)
             \/ SoftDeleteCascade(r) \/ Unlink(r)
      PROVE  TreeInv'
    BY <1>2, CreateBeginInv, MoveBeginInv, DeleteBeginInv, ClimbInv, CheckProjectInv, CreateWriteInv,
       MoveWriteInv, SoftDeleteCascadeInv, UnlinkInv
<1> QED BY <1>1, <1>2 DEF TreeNext

\* However requests interleave: one move at a time keeps the tree a forest, a task is never
\* below a task of another project, and an orphan was left by requests that overlapped, by a
\* deletion that kept the children or by the move of a subtree.
THEOREM TreeSoundHolds == TreeSpec => []TreeSound
<1>1. TreeInv => TreeSound
    BY TreeInvSound
<1> QED BY <1>1, TreeInitInv, TreeNextInv, PTL DEF TreeSpec

-----------------------------------------------------------------------------
(* The composition: a step of it is a step, or no step, of every part.     *)

LEMMA BoardPartsMove ==
    ASSUME [TaskBoardNext]_taskBoardVars
    PROVE  /\ [NumberingNext]_numberingVars /\ [TreeNext]_treeVars /\ [DadosNext]_dadosVars
           /\ [BoardsNext]_boardsVars /\ [HandlesNext]_handleVars /\ [CopyNext]_copyVars
           /\ [MemberNext]_memberVars /\ [PairingNext]_pairingVars /\ [SessionNext]_sessionVars
           /\ [KeysNext]_keyVars /\ [AgentLinksNext]_linkVars /\ [FlowNext]_flowVars
<1>1. CASE NumberingPart
    BY <1>1 DEF NumberingPart
<1>2. CASE TreePart
    BY <1>2 DEF TreePart
<1>3. CASE DadosPart
    BY <1>3 DEF DadosPart
<1>4. CASE BoardPart
    BY <1>4 DEF BoardPart
<1>5. CASE HandlePart
    BY <1>5 DEF HandlePart
<1>6. CASE CopyPart
    BY <1>6 DEF CopyPart
<1>7. CASE MemberPart
    BY <1>7 DEF MemberPart
<1>8. CASE PairingPart
    BY <1>8 DEF PairingPart
<1>9. CASE SessionPart
    BY <1>9 DEF SessionPart
<1>10. CASE KeysPart
    BY <1>10 DEF KeysPart
<1>11. CASE LinksPart
    BY <1>11 DEF LinksPart
<1>12. CASE FlowPart
    BY <1>12 DEF FlowPart
<1>13. CASE UNCHANGED taskBoardVars
    BY <1>13 DEF taskBoardVars
<1> QED BY <1>1, <1>2, <1>3, <1>4, <1>5, <1>6, <1>7, <1>8, <1>9, <1>10, <1>11, <1>12, <1>13
        DEF TaskBoardNext

\* Both trees, of tasks and of projects, keep what TreeSound and ProjectsSound say of them
\* (phase-hierarchy.service.ts, projects.service.ts), for any number of tasks, projects,
\* teams and requests.
THEOREM TreesSoundHolds == TaskBoardSpec => []TreesSound
<1> DEFINE Both == TreeInv /\ ProjectInv
<1>1. TaskBoardInit => Both
    BY TreeInitInv, ProjectInitInv DEF TaskBoardInit
<1>2. Both /\ [TaskBoardNext]_taskBoardVars => Both'
    BY BoardPartsMove, TreeNextInv, ProjectNextInv
<1>3. Both => TreesSound
    BY TreeInvSound DEF TreesSound, ProjectsSound, ProjectInv
<1> QED BY <1>1, <1>2, <1>3, PTL DEF TaskBoardSpec

\* AccountsSound (auth.service.ts, refresh-token.service.ts, mcp-key.service.ts): for any
\* number of clients, requests, tokens and keys, a client that asks in turn keeps its
\* session, a revoked session stays revoked and a revoked key is refused, but for what
\* overlapped, an answer that was lost and a payload left in the cache.
THEOREM AccountsSoundHolds == TaskBoardSpec => []AccountsSound
<1> DEFINE Both == SessionInv /\ KeysInv
<1>1. TaskBoardInit => Both
    BY SessionInitInv, KeysInitInv DEF TaskBoardInit
<1>2. Both /\ [TaskBoardNext]_taskBoardVars => Both'
    BY BoardPartsMove, SessionNextInv, KeysNextInv
<1>3. Both => AccountsSound
    BY KeysInvSound DEF AccountsSound, SessionInv
<1> QED BY <1>1, <1>2, <1>3, PTL DEF TaskBoardSpec

\* Tasks, projects, members, chats, sessions, keys and links keep their types, all together.
THEOREM BoardTypesOK == TaskBoardSpec => []BoardTypeOK
<1> DEFINE All == /\ NumberingInv /\ TreeInv /\ DadosInv /\ ProjectInv /\ HandlesInv /\ CopyInv
                  /\ MemberInv /\ PairingInv /\ SessionInv /\ KeysInv /\ LinksInv /\ FlowInv
<1>1. TaskBoardInit => All
    BY NumberingInitInv, TreeInitInv, DadosInitInv, ProjectInitInv, HandlesInitInv, CopyInitInv,
       MemberInitInv, PairingInitInv, SessionInitInv, KeysInitInv, LinksInitInv, FlowInitInv
    DEF TaskBoardInit
<1>2. All /\ [TaskBoardNext]_taskBoardVars => All'
    BY BoardPartsMove, NumberingNextInv, TreeNextInv, DadosNextInv, ProjectNextInv, HandlesNextInv,
       CopyNextInv, MemberNextInv, PairingNextInv, SessionNextInv, KeysNextInv, LinksInductive, FlowNextInv
<1>3. All => BoardTypeOK
    BY DEF BoardTypeOK, NumberingInv, TreeInv, DadosInv, ProjectInv, HandlesInv, CopyInv,
           MemberInv, PairingInv, SessionInv, KeysInv, LinksInv, FlowInv
<1> QED BY <1>1, <1>2, <1>3, PTL DEF TaskBoardSpec
================================================================================
