--------------------------- MODULE TaskNumbering ---------------------------
(***************************************************************************)
(* The number in a task's identifier (DEV-7): TasksService.create draws it *)
(* inside its transaction, from a counter row of the project.              *)
(*                                                                         *)
(* The transactions are READ COMMITTED.  The counter is found by a plain   *)
(* SELECT; its UPDATE takes the row lock, which the transaction holds to   *)
(* its end, and writes the number computed from the SELECT.  No unique     *)
(* index keeps a project to one counter.                                   *)
(***************************************************************************)
EXTENDS Naturals

CONSTANTS
    Creations,      \* the requests that create a task of the project
    NoCreation

ASSUME NoCreationAssumption == NoCreation \notin Creations

VARIABLES
    lastSeq,        \* the committed counters, each named after the creation that
                    \* inserted it: metaDados.lastSeq, 0 when there is no such row
    holder,         \* the transaction that holds the row lock of a counter
    creation,       \* the requests
    given,          \* the number of each committed task, 0 when there is none
    overlapped      \* auxiliary: two transactions were open at the same time

numberingVars == <<lastSeq, holder, creation, given, overlapped>>

\* The counter a request found (or inserted), and the number it read from it, or,
\* once numbered, the number it took.
Found == [pc: {"idle", "found", "numbered", "done"},
          counter: Creations \cup {NoCreation},
          seq: Nat]
NotBegun == [pc |-> "idle", counter |-> NoCreation, seq |-> 0]

NumberingTypeOK ==
    /\ lastSeq \in [Creations -> Nat]
    /\ holder \in [Creations -> Creations \cup {NoCreation}]
    /\ creation \in [Creations -> Found]
    /\ given \in [Creations -> Nat]
    /\ overlapped \in BOOLEAN

NumberingInit ==
    /\ lastSeq = [c \in Creations |-> 0]
    /\ holder = [c \in Creations |-> NoCreation]
    /\ creation = [c \in Creations |-> NotBegun]
    /\ given = [c \in Creations |-> 0]
    /\ overlapped = FALSE

-----------------------------------------------------------------------------

Open(c)     == creation[c].pc \in {"found", "numbered"}
Counters    == {r \in Creations : lastSeq[r] > 0}
FirstNumber == 1

\* The findFirst of getNextIdentifier, without order: any of the counters, if there
\* is one.
FindCounter(c) ==
    /\ creation[c].pc = "idle"
    /\ \/ /\ Counters = {}
          /\ creation' = [creation EXCEPT ![c].pc = "found"]
       \/ \E r \in Counters :
             creation' = [creation EXCEPT ![c] =
                            [pc |-> "found", counter |-> r, seq |-> lastSeq[r]]]
    /\ overlapped' = (overlapped \/ \E d \in Creations \ {c} : Open(d))
    /\ UNCHANGED <<lastSeq, holder, given>>

\* The INSERT of a counter, which nobody else sees before the commit.
InsertCounter(c) ==
    /\ creation[c].pc = "found"
    /\ creation[c].counter = NoCreation
    /\ creation' = [creation EXCEPT ![c] =
                      [pc |-> "numbered", counter |-> c, seq |-> FirstNumber]]
    /\ holder' = [holder EXCEPT ![c] = c]
    /\ UNCHANGED <<lastSeq, given, overlapped>>

NextSeq(seq)  == seq + 1

\* The UPDATE waits for the lock of the counter; what it writes was computed before.
UpdateCounter(c) ==
    LET r == creation[c].counter IN
    /\ creation[c].pc = "found"
    /\ r # NoCreation
    /\ holder[r] = NoCreation
    /\ holder' = [holder EXCEPT ![r] = c]
    /\ creation' = [creation EXCEPT ![c].pc = "numbered", ![c].seq = NextSeq(@)]
    /\ UNCHANGED <<lastSeq, given, overlapped>>

\* metaDados: {...metaDados, lastSeq: nextSeq}.  The slip spreads the old value last.
KeepsOld(old, new) == IF old = 0 THEN new ELSE old
Written(old, new)  == new

\* The task is inserted with the number, and counter and task are committed together.
Commit(c) ==
    LET r == creation[c].counter IN
    /\ creation[c].pc = "numbered"
    /\ lastSeq' = [lastSeq EXCEPT ![r] = Written(@, creation[c].seq)]
    /\ given' = [given EXCEPT ![c] = creation[c].seq]
    /\ holder' = [holder EXCEPT ![r] = NoCreation]
    /\ creation' = [creation EXCEPT ![c].pc = "done"]
    /\ UNCHANGED overlapped

\* A statement fails, the transaction times out, or the backend ends.
RollBack(c) ==
    /\ Open(c)
    /\ holder' = [r \in Creations |-> IF holder[r] = c THEN NoCreation ELSE holder[r]]
    /\ creation' = [creation EXCEPT ![c].pc = "done"]
    /\ UNCHANGED <<lastSeq, given, overlapped>>

NumberingNext ==
    \E c \in Creations :
        \/ FindCounter(c) \/ InsertCounter(c) \/ UpdateCounter(c)
        \/ Commit(c) \/ RollBack(c)

NumberingSpec == NumberingInit /\ [][NumberingNext]_numberingVars

-----------------------------------------------------------------------------
(* Correctness.                                                            *)

\* However creations overlap, read stale counters, insert a second one or are rolled
\* back, the numbers of the tasks have no gaps: the task before was created.
NoGaps ==
    \A c \in Creations :
        given[c] > FirstNumber => \E d \in Creations : given[d] + 1 = given[c]

\* As long as no two creations were open at the same time, whatever was rolled back,
\* no number was given twice.
UniqueWithoutOverlap ==
    ~overlapped =>
        \A c, d \in Creations : c # d /\ given[c] > 0 => given[c] # given[d]

\* getNextIdentifier calls its number atomic: it is sequential, and unique when alone.
NumberingSound == NoGaps /\ UniqueWithoutOverlap
=============================================================================
