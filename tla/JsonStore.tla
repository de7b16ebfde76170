----------------------------- MODULE JsonStore -----------------------------
(***************************************************************************)
(* The JSON file store (json-store.js): a state in memory, a promise chain *)
(* that runs one transaction at a time, and #persist, whose every await is *)
(* a file operation of its own.  The process may crash between any two of  *)
(* them and be started again.  A state is the list of the transactions     *)
(* that were applied to it and the version of its schema.                  *)
(*                                                                         *)
(* The file system renames atomically, but may refuse to replace a file    *)
(* that is open (EPERM, EACCES, EEXIST): then #persist moves the old file  *)
(* to .bak first.  An error of the two operations that bring it back, the  *)
(* third failure within one write, is left out.  No other program touches  *)
(* the directory, so that the ENOENT which initialize() takes for a first  *)
(* start comes from reading a data file that is not there.                 *)
(***************************************************************************)
EXTENDS Naturals, Sequences, SequencesExt

CONSTANTS
    Txns,           \* calls of transaction()
    MaxCrashes,     \* bound on the crashes of the process
    None

ASSUME CrashesAssumption == MaxCrashes \in Nat
VARIABLES
    file, backup,   \* the data file and its .bak
    temp,           \* the temporary file of the write under way
    memory,         \* #state; None until initialize() has returned
    queue,          \* #writeQueue, the running transaction first
    draft,          \* what is being persisted
    pc,             \* where the process is
    answer,         \* what the caller of each transaction knows
    crashes

disk == <<file, backup, temp>>
task == <<memory, queue, draft, answer, crashes>>    \* everything but the disk and pc
vars == <<disk, task, pc>>

State == [schema : {"old", "current"}, log : Seq(Txns)]

ASSUME NoneAssumption == None \notin Txns \cup Seq(Txns) \cup State     \* null is none of these

Empty == [schema |-> "current", log |-> <<>>]       \* createInitialState()

Partial == [schema |-> "current", log |-> None]     \* a file cut off while written

Init ==
    /\ file \in {None, [schema |-> "old", log |-> <<>>]}
    /\ backup = None /\ temp = None /\ memory = None /\ draft = None
    /\ queue = <<>>
    /\ pc = "down"
    /\ answer = [t \in Txns |-> "none"]
    /\ crashes = 0

-----------------------------------------------------------------------------
Goto(label) == pc' = label

Settle(result) ==
    /\ queue' = Tail(queue)
    /\ answer' = [answer EXCEPT ![Head(queue)] = result]

\* Mutant of Abort: the rejected promise is neither delivered nor caught.
AbortSilently ==
    /\ Goto("idle")
    /\ draft' = None
    /\ UNCHANGED <<memory, crashes, queue, answer>>

\* An error leaves #persist: the transaction rejects, or initialize() does and the process ends.
Abort ==
    /\ draft' = None
    /\ UNCHANGED <<memory, crashes>>
    /\ IF memory = None THEN Goto("down") /\ UNCHANGED <<queue, answer>>
                        ELSE Goto("idle") /\ Settle("failed")

-----------------------------------------------------------------------------
\* Mutant of Upgraded: only the first of the two versions is known.
NotUpgraded(state) == state

Upgraded(state) == [state EXCEPT !.schema = "current"]

\* An older file is upgraded and, as a missing one is, persisted first.
Initialize ==
    /\ pc = "down"
    /\ IF file = None \/ file # Upgraded(file)
       THEN /\ draft' = IF file = None THEN Empty ELSE Upgraded(file)
            /\ Goto("write")
            /\ UNCHANGED memory
       ELSE /\ memory' = file
            /\ Goto("idle")
            /\ UNCHANGED draft
    /\ UNCHANGED <<disk, queue, answer, crashes>>

Call(t) ==
    /\ memory # None
    /\ answer[t] = "none"
    /\ queue' = Append(queue, t)
    /\ answer' = [answer EXCEPT ![t] = "called"]
    /\ UNCHANGED <<disk, memory, draft, pc, crashes>>

\* Mutant of Begin: the mutator works on the state itself.
BeginInPlace ==
    /\ pc = "idle" /\ queue # <<>>
    /\ draft' = [memory EXCEPT !.log = Append(@, Head(queue))]
    /\ memory' = draft'
    /\ Goto("write")
    /\ UNCHANGED <<disk, queue, answer, crashes>>

\* The mutator runs on a clone of the state.
Begin ==
    /\ pc = "idle" /\ queue # <<>>
    /\ draft' = [memory EXCEPT !.log = Append(@, Head(queue))]
    /\ Goto("write")
    /\ UNCHANGED <<disk, memory, queue, answer, crashes>>

\* The mutator throws: a rule is broken, or what it leaves is not a state (assertStateShape).
Throw ==
    /\ pc = "idle" /\ queue # <<>>
    /\ Abort
    /\ UNCHANGED disk

\* Mutant of Create: the data file itself is written.
CreateInPlace ==
    /\ pc = "write"
    /\ file' = Partial /\ temp' = Partial
    /\ Goto("writing")
    /\ UNCHANGED <<backup, task>>

Create ==
    /\ pc = "write"
    /\ temp' = Partial
    /\ Goto("writing")
    /\ UNCHANGED <<file, backup, task>>

Write ==
    /\ pc = "writing"
    /\ \/ temp' = draft /\ Goto("replace") /\ UNCHANGED task
       \/ Abort /\ UNCHANGED temp
    /\ UNCHANGED <<file, backup>>

Replace ==
    /\ pc = "replace"
    /\ \/ /\ file' = temp /\ temp' = None
          /\ Goto("publish")
          /\ UNCHANGED task
       \/ /\ Goto("removeBackup")
          /\ UNCHANGED <<file, temp, task>>
       \/ temp' = None /\ Abort /\ UNCHANGED file
    /\ UNCHANGED backup

RemoveBackup ==
    /\ pc = "removeBackup"
    /\ \/ backup' = None /\ Goto("moveAside") /\ UNCHANGED task
       \/ Abort /\ UNCHANGED backup
    /\ UNCHANGED <<file, temp>>

MoveAside ==
    /\ pc = "moveAside"
    /\ \/ /\ file # None
          /\ backup' = file /\ file' = None
          /\ Goto("moveIn")
          /\ UNCHANGED task
       \/ Abort /\ UNCHANGED <<file, backup>>
    /\ UNCHANGED temp

MoveIn ==
    /\ pc = "moveIn"
    /\ \/ file' = temp /\ temp' = None /\ Goto("dropBackup")
       \/ Goto("removeNew") /\ UNCHANGED <<file, temp>>
    /\ UNCHANGED <<backup, task>>

DropBackup ==
    /\ pc = "dropBackup"
    /\ \/ backup' = None /\ Goto("publish")
       \/ Goto("removeNew") /\ UNCHANGED backup
    /\ UNCHANGED <<file, temp, task>>

RemoveNew ==
    /\ pc = "removeNew"
    /\ file' = None
    /\ Goto("restore")
    /\ UNCHANGED <<backup, temp, task>>

Restore ==
    /\ pc = "restore"
    /\ file' = backup /\ backup' = None /\ temp' = None
    /\ Abort

\* #persist has returned: the draft becomes the state, and the caller has its answer.
Publish ==
    /\ pc = "publish"
    /\ memory' = draft /\ draft' = None
    /\ Goto("idle")
    /\ IF memory = None THEN UNCHANGED <<queue, answer>> ELSE Settle("ok")
    /\ UNCHANGED <<disk, crashes>>

Crash ==
    /\ pc # "down" /\ crashes < MaxCrashes
    /\ crashes' = crashes + 1
    /\ memory' = None /\ draft' = None /\ temp' = None /\ queue' = <<>>
    /\ Goto("down")
    /\ answer' = [t \in Txns |-> IF answer[t] = "called" THEN "unknown" ELSE answer[t]]
    /\ UNCHANGED <<file, backup>>

Step ==
    \/ Initialize \/ Begin \/ Throw \/ Create \/ Write \/ Replace \/ RemoveBackup
    \/ MoveAside \/ MoveIn \/ DropBackup \/ RemoveNew \/ Restore \/ Publish

Next == Step \/ Crash \/ \E t \in Txns : Call(t)

Spec == Init /\ [][Next]_vars

\* A process that runs comes to its next await; its callers and crashes promise nothing.
FairSpec == Spec /\ WF_vars(Step)

(***************************************************************************)
(* The abstract value: the log in the data file or, while that is missing  *)
(* or about to be taken back, in the backup.                               *)
(***************************************************************************)
Durable ==
    IF file # None /\ pc \notin {"dropBackup", "removeNew"} THEN file.log
    ELSE IF backup # None THEN backup.log
    ELSE <<>>

Abstract == INSTANCE AtomicStore WITH value <- Durable, exposed <- file = None

(***************************************************************************)
(* Properties.                                                             *)
(***************************************************************************)

\* Every variable keeps its type; only states of the current schema are served.
TypeOK ==
    /\ file \in State \cup {None} /\ backup \in State \cup {None}
    /\ temp \in State \cup {None, Partial}
    /\ memory \in [schema : {"current"}, log : Seq(Txns)] \cup {None}
    /\ draft \in State \cup {None}
    /\ queue \in Seq(Txns)
    /\ pc \in {"down", "idle", "write", "writing", "replace", "removeBackup", "moveAside",
               "moveIn", "dropBackup", "removeNew", "restore", "publish"}
    /\ answer \in [Txns -> Abstract!Answers]
    /\ crashes \in 0..MaxCrashes

\* A state that read() returned is durable: whatever the next step is, a failing file operation
\* or a crash included, the file or its backup still has it.  While no state is served, nothing
\* of it is lost either, except by a start-up that finds no data file.
ReadsStayDurable ==
    [][IF memory # None THEN IsPrefix(memory.log, Durable')
                        ELSE file # None => IsPrefix(Durable, Durable')]_vars

\* The store is atomic and durable whatever fails and wherever it crashes, but for the
\* moments in which no data file exists.
ImplementsAtomicStore == Abstract!Spec

\* The promise that writes are atomic: what a caller was told is stored stays stored.
AcknowledgedKept == \A t \in Txns : answer[t] = "ok" => Contains(Durable, t)

\* Every call is answered, unless the process crashes: a transaction that fails does not
\* stop the queue behind it.
CallsAnswered == \A t \in Txns : answer[t] = "called" ~> answer[t] # "called"
=============================================================================
