-------------------------- MODULE JsonStoreProofs --------------------------
(***************************************************************************)
(* The JSON store is an atomic, durable store for any number of            *)
(* transactions and crashes: each file operation of #persist leaves the    *)
(* durable log alone, puts the running transaction into effect, or (only   *)
(* where no data file exists) empties it.  The argument follows the two    *)
(* copies of the state: until the write is beyond recall one of file and   *)
(* backup holds what memory holds, and afterwards the file holds the       *)
(* draft, which is memory and the running transaction.                     *)
(***************************************************************************)
EXTENDS JsonStore, SequenceTheorems, TLAPS

\* #persist has not yet touched the data file; and has moved it aside and can bring it back.
Before == {"write", "writing", "replace", "removeBackup", "moveAside"}
Aside == {"moveIn", "dropBackup", "removeNew", "restore"}

\* What the files are at each await.
DiskInv ==
    /\ pc \in {"replace", "removeBackup", "moveAside", "moveIn"} => temp = draft
    /\ pc \in {"moveIn", "restore"} => file = None
    /\ pc \in {"dropBackup", "publish"} => file = draft
    /\ pc = "removeNew" => file \in {None, draft}
    /\ pc \in Aside => backup # None

\* The running transaction is the first in the queue, on top of the state in memory.
TaskInv ==
    /\ memory = None => queue = <<>>
    /\ pc = "down" => memory = None /\ draft = None
    /\ pc = "idle" => memory # None /\ draft = None
    /\ pc \notin {"down", "idle"} =>
          /\ draft # None /\ draft.schema = "current"
          /\ memory # None => queue # <<>> /\ draft.log = Append(memory.log, Head(queue))

\* A log that only one copy holds is never lost; initialize() writes what it found, or, where
\* it found no file, an empty state.
ValueInv ==
    /\ memory # None /\ pc # "publish" => Durable = memory.log
    /\ memory = None /\ pc # "down" =>
          draft.log = IF file = None /\ pc \in Before THEN <<>> ELSE Durable
    /\ memory # None /\ pc \in Before \cup {"idle"} => file # None

\* The queue holds calls that are not yet in effect, except one that is about to be answered.
QueueInv ==
    /\ \A i \in 1..Len(queue) : answer[queue[i]] = "called"
    /\ \A i, j \in 1..Len(queue) : queue[i] = queue[j] => i = j
    /\ \A i \in 1..Len(Durable) :
          \/ answer[Durable[i]] \in {"ok", "unknown"}
          \/ pc = "publish" /\ memory # None /\ Durable[i] = Head(queue)

StoreInv == TypeOK /\ DiskInv /\ TaskInv /\ ValueInv /\ QueueInv

AbstractStep == [Abstract!Next]_<<Durable, answer>>

-----------------------------------------------------------------------------
LEMMA DurableTyped ==
    ASSUME TypeOK
    PROVE  Durable \in Seq(Txns)
BY DEF TypeOK, Durable, State

\* The running call is in the queue, and has no effect before the write is beyond recall.
LEMMA Running ==
    ASSUME StoreInv, queue # <<>>
    PROVE  /\ Head(queue) \in Txns /\ answer[Head(queue)] = "called"
           /\ Head(queue) = queue[1] /\ 1 \in 1..Len(queue)
           /\ Tail(queue) \in Seq(Txns) /\ Len(Tail(queue)) = Len(queue) - 1
           /\ \A i \in 1..Len(Tail(queue)) : i + 1 \in 1..Len(queue) /\ Tail(queue)[i] = queue[i + 1]
           /\ pc # "publish" => \A i \in 1..Len(Durable) : Durable[i] # Head(queue)
<1>1. queue \in Seq(Txns)
  BY DEF StoreInv, TypeOK
<1>2. /\ Head(queue) \in Txns /\ Head(queue) = queue[1] /\ 1 \in 1..Len(queue)
      /\ Tail(queue) \in Seq(Txns) /\ Len(Tail(queue)) = Len(queue) - 1
      /\ \A i \in 1..Len(Tail(queue)) : i + 1 \in 1..Len(queue) /\ Tail(queue)[i] = queue[i + 1]
  BY <1>1
<1>3. answer[Head(queue)] = "called"
  BY <1>2 DEF StoreInv, QueueInv
<1>4. pc # "publish" => \A i \in 1..Len(Durable) : Durable[i] # Head(queue)
  BY <1>3 DEF StoreInv, QueueInv
<1> QED
  BY <1>2, <1>3, <1>4

LEMMA InEffect ==
    ASSUME TypeOK, NEW t
    PROVE  t \in Abstract!Range(Durable) <=> \E i \in 1..Len(Durable) : Durable[i] = t
<1>1. DOMAIN Durable = 1..Len(Durable)
  BY DurableTyped
<1> QED
  BY <1>1 DEF Abstract!Range

-----------------------------------------------------------------------------
\* An error that leaves the durable log alone: the caller is told so, or initialize() fails.
LEMMA AbortKeeps ==
    ASSUME StoreInv, Abort, Durable' = Durable,
           pc \notin {"down", "publish"}, memory # None => queue # <<>>,
           file' \in State \cup {None}, backup' \in State \cup {None},
           temp' \in State \cup {None, Partial},
           memory # None => file' # None
    PROVE  StoreInv' /\ AbstractStep
<1>1. TypeOK /\ TaskInv /\ ValueInv /\ QueueInv
  BY DEF StoreInv
<1>2. draft' = None /\ memory' = memory /\ crashes' = crashes
  BY DEF Abort
<1>3. CASE memory = None
  <2>1. pc' = "down" /\ queue' = queue /\ answer' = answer
    BY <1>3 DEF Abort, Goto
  <2>2. TypeOK'
    BY <1>1, <1>2, <2>1 DEF TypeOK
  <2>3. DiskInv' /\ TaskInv' /\ ValueInv'
    BY <1>1, <1>2, <1>3, <2>1 DEF DiskInv, TaskInv, ValueInv, Before, Aside
  <2>4. QueueInv'
    BY <1>1, <1>3, <2>1 DEF QueueInv, TaskInv
  <2> QED
    BY <2>1, <2>2, <2>3, <2>4 DEF StoreInv, AbstractStep
<1>4. CASE memory # None
  <2> DEFINE t == Head(queue)
  <2>1. /\ pc' = "idle" /\ queue' = Tail(queue) /\ answer' = [answer EXCEPT ![t] = "failed"]
        /\ queue # <<>>
    BY <1>4 DEF Abort, Goto, Settle
  <2>2. /\ t \in Txns /\ answer[t] = "called" /\ t = queue[1] /\ 1 \in 1..Len(queue)
        /\ Tail(queue) \in Seq(Txns)
        /\ \A i \in 1..Len(Tail(queue)) : i + 1 \in 1..Len(queue) /\ Tail(queue)[i] = queue[i + 1]
        /\ \A i \in 1..Len(Durable) : Durable[i] # t
    BY <2>1, Running
  <2>3. answer \in [Txns -> Abstract!Answers]
    BY <1>1 DEF TypeOK
  <2>4. TypeOK'
    BY <1>1, <1>2, <2>1, <2>2, <2>3 DEF TypeOK, Abstract!Answers
  <2>5. DiskInv' /\ TaskInv' /\ ValueInv'
    BY <1>1, <1>2, <1>4, <2>1 DEF DiskInv, TaskInv, ValueInv, Before, Aside
  <2>6. QueueInv'
    <3>1. ASSUME NEW i \in 1..Len(queue') PROVE answer'[queue'[i]] = "called"
      <4>1. i + 1 \in 1..Len(queue) /\ queue'[i] = queue[i + 1] /\ i + 1 # 1 /\ i \in Nat
        BY <2>1, <2>2
      <4>2. queue[i + 1] # t /\ answer[queue[i + 1]] = "called"
        BY <1>1, <2>2, <4>1 DEF QueueInv
      <4> QED
        BY <2>1, <2>3, <4>1, <4>2
    <3>2. ASSUME NEW i \in 1..Len(queue'), NEW j \in 1..Len(queue'), queue'[i] = queue'[j]
          PROVE  i = j
      <4>1. /\ i + 1 \in 1..Len(queue) /\ queue'[i] = queue[i + 1]
            /\ j + 1 \in 1..Len(queue) /\ queue'[j] = queue[j + 1]
        BY <2>1, <2>2
      <4>2. i + 1 = j + 1
        BY <1>1, <3>2, <4>1 DEF QueueInv
      <4> QED
        BY <4>2
    <3>3. ASSUME NEW i \in 1..Len(Durable') PROVE answer'[Durable'[i]] \in {"ok", "unknown"}
      <4>1. answer[Durable[i]] \in {"ok", "unknown"} /\ Durable[i] # t
        BY <1>1, <2>2 DEF QueueInv
      <4> QED
        BY <2>1, <2>3, <4>1
    <3> QED
      BY <3>1, <3>2, <3>3 DEF QueueInv
  <2>7. Abstract!Answer(t)
    <3>1. t \notin Abstract!Range(Durable)
      BY <1>1, <2>2, InEffect
    <3> QED
      BY <2>1, <2>2, <3>1 DEF Abstract!Answer
  <2> QED
    BY <2>2, <2>4, <2>5, <2>6, <2>7 DEF StoreInv, AbstractStep, Abstract!Next
<1> QED
  BY <1>3, <1>4

\* A step between two awaits that moves copies about.
LEMMA QuietKeeps ==
    ASSUME StoreInv, UNCHANGED <<memory, queue, answer, crashes>>, Durable' = Durable,
           pc # "publish", pc' # "publish",
           TypeOK', DiskInv', TaskInv', ValueInv'
    PROVE  StoreInv' /\ AbstractStep
<1>1. QueueInv'
  BY DEF StoreInv, QueueInv
<1> QED
  BY <1>1 DEF StoreInv, AbstractStep

\* The write is beyond recall: the running transaction is in effect.
LEMMA CommitKeeps ==
    ASSUME StoreInv, UNCHANGED task, pc \in Before \cup {"dropBackup"}, pc' = "publish",
           file' = draft, backup' \in State \cup {None}, temp' \in State \cup {None, Partial}
    PROVE  StoreInv' /\ AbstractStep
<1>1. TypeOK /\ TaskInv /\ ValueInv /\ QueueInv
  BY DEF StoreInv
<1>2. /\ memory' = memory /\ queue' = queue /\ draft' = draft /\ answer' = answer
      /\ crashes' = crashes
  BY DEF task
<1>3. pc \notin {"down", "idle", "publish"} /\ draft # None /\ draft \in State
  BY <1>1 DEF Before, TaskInv, TypeOK
<1>4. Durable' = draft.log
  BY <1>3 DEF Durable
<1>5. TypeOK'
  BY <1>1, <1>2, <1>3 DEF TypeOK
<1>6. DiskInv' /\ TaskInv' /\ ValueInv'
  BY <1>1, <1>2, <1>3, <1>4 DEF DiskInv, TaskInv, ValueInv, Before, Aside
<1>7. CASE memory = None
  <2>1. Durable' = Durable \/ (file = None /\ Durable' = <<>>)
    BY <1>1, <1>3, <1>4, <1>7 DEF ValueInv
  <2>2. QueueInv'
    <3>1. Durable' = Durable \/ Len(Durable') = 0
      BY <2>1
    <3> QED
      BY <1>1, <1>2, <1>7, <3>1 DEF QueueInv
  <2>3. AbstractStep
    BY <1>2, <2>1 DEF AbstractStep, Abstract!Next, Abstract!Reset
  <2> QED
    BY <1>5, <1>6, <2>2, <2>3 DEF StoreInv
<1>8. CASE memory # None
  <2> DEFINE t == Head(queue)
  <2>1. queue # <<>> /\ Durable' = Append(Durable, t)
    BY <1>1, <1>3, <1>4, <1>8 DEF TaskInv, ValueInv
  <2>2. t \in Txns /\ answer[t] = "called" /\ \A i \in 1..Len(Durable) : Durable[i] # t
    BY <1>3, <2>1, Running
  <2>3. /\ Durable \in Seq(Txns) /\ Len(Durable') = Len(Durable) + 1
        /\ \A i \in 1..Len(Durable') : IF i = Len(Durable') THEN Durable'[i] = t
                                       ELSE i \in 1..Len(Durable) /\ Durable'[i] = Durable[i]
    <3>1. Durable \in Seq(Txns)
      BY <1>1, DurableTyped
    <3> HIDE DEF t
    <3> QED
      BY <2>1, <2>2, <3>1
  <2>4. QueueInv'
    <3>1. ASSUME NEW i \in 1..Len(Durable')
          PROVE  answer[Durable'[i]] \in {"ok", "unknown"} \/ Durable'[i] = t
      BY <1>1, <1>3, <2>3 DEF QueueInv
    <3> QED
      BY <1>1, <1>2, <1>8, <3>1 DEF QueueInv
  <2>5. Abstract!Commit(t)
    <3>1. t \notin Abstract!Range(Durable)
      BY <1>1, <2>2, InEffect
    <3> QED
      BY <1>2, <2>1, <2>2, <3>1 DEF Abstract!Commit
  <2> QED
    BY <1>5, <1>6, <2>2, <2>4, <2>5 DEF StoreInv, AbstractStep, Abstract!Next
<1> QED
  BY <1>7, <1>8

-----------------------------------------------------------------------------
\* Start-up reads the file, upgrades it or begins with an empty state.
LEMMA InitializeKeeps == StoreInv /\ Initialize => StoreInv' /\ AbstractStep
<1> SUFFICES ASSUME StoreInv, Initialize PROVE StoreInv' /\ AbstractStep
  OBVIOUS
<1>1. TypeOK /\ TaskInv /\ pc = "down" /\ memory = None
  BY DEF StoreInv, Initialize, TaskInv
<1>2. /\ file' = file /\ backup' = backup /\ temp' = temp /\ queue' = queue
      /\ answer' = answer /\ crashes' = crashes
  BY DEF Initialize, disk
<1>3. Durable' = Durable
  BY <1>1, <1>2 DEF Initialize, Goto, Durable
<1>4. CASE file = None
  <2>1. draft' = Empty /\ pc' = "write" /\ memory' = None
    BY <1>1, <1>4 DEF Initialize, Goto
  <2>2. Empty \in State /\ Empty # None /\ Empty.schema = "current" /\ Empty.log = <<>>
    <3>1. Empty.schema = "current" /\ Empty.log = <<>>
      BY DEF Empty
    <3>2. Empty \in State
      BY EmptySeq DEF Empty, State
    <3> QED
      BY <3>1, <3>2, NoneAssumption
  <2>3. TypeOK'
    BY <1>1, <1>2, <2>1, <2>2 DEF TypeOK
  <2>4. DiskInv' /\ TaskInv' /\ ValueInv'
    BY <1>1, <1>2, <1>4, <2>1, <2>2 DEF DiskInv, TaskInv, ValueInv, Before, Aside
  <2> QED
    BY <1>1, <1>2, <1>3, <2>1, <2>3, <2>4, QuietKeeps
<1>5. CASE file # None /\ file # Upgraded(file)
  <2>1. draft' = Upgraded(file) /\ pc' = "write" /\ memory' = None /\ file \in State
    BY <1>1, <1>5 DEF Initialize, Goto, TypeOK
  <2>2. Upgraded(file) \in State /\ Upgraded(file) # None /\ Upgraded(file).schema = "current"
        /\ Upgraded(file).log = file.log
    BY <2>1, NoneAssumption DEF Upgraded, State
  <2>3. Durable = file.log
    BY <1>1, <1>5 DEF Durable
  <2>4. TypeOK'
    BY <1>1, <1>2, <2>1, <2>2 DEF TypeOK
  <2>5. DiskInv' /\ TaskInv' /\ ValueInv'
    BY <1>1, <1>2, <1>3, <1>5, <2>1, <2>2, <2>3 DEF DiskInv, TaskInv, ValueInv, Before, Aside
  <2> QED
    BY <1>1, <1>2, <1>3, <2>1, <2>4, <2>5, QuietKeeps
<1>6. CASE file # None /\ file = Upgraded(file)
  <2>1. memory' = file /\ pc' = "idle" /\ draft' = None /\ file \in State
    BY <1>1, <1>6 DEF Initialize, Goto, TypeOK, TaskInv
  <2>2. file.schema = "current"
    BY <1>6, <2>1 DEF Upgraded, State
  <2>3. Durable = file.log
    BY <1>1, <1>6 DEF Durable
  <2>4. TypeOK'
    BY <1>1, <1>2, <2>1, <2>2 DEF TypeOK, State
  <2>5. DiskInv' /\ TaskInv' /\ ValueInv'
    BY <1>1, <1>2, <1>3, <1>6, <2>1, <2>3 DEF DiskInv, TaskInv, ValueInv, Before, Aside
  <2>6. QueueInv'
    BY <1>1, <1>2, <1>3 DEF StoreInv, QueueInv
  <2> QED
    BY <1>2, <1>3, <2>4, <2>5, <2>6 DEF StoreInv, AbstractStep
<1> QED
  BY <1>4, <1>5, <1>6

\* A call joins the queue; it can have no effect yet.
LEMMA CallKeeps ==
    ASSUME StoreInv, NEW t \in Txns, Call(t)
    PROVE  StoreInv' /\ AbstractStep
<1>1. TypeOK /\ DiskInv /\ TaskInv /\ ValueInv /\ QueueInv /\ memory # None
  BY DEF StoreInv, Call
<1>2. /\ file' = file /\ backup' = backup /\ temp' = temp /\ memory' = memory /\ draft' = draft
      /\ pc' = pc /\ crashes' = crashes /\ queue' = Append(queue, t)
      /\ answer[t] = "none" /\ answer' = [answer EXCEPT ![t] = "called"]
  BY DEF Call, disk
<1>3. Durable' = Durable
  BY <1>2 DEF Durable
<1>4. queue \in Seq(Txns) /\ answer \in [Txns -> Abstract!Answers]
  BY <1>1 DEF TypeOK
<1>5. /\ queue' \in Seq(Txns) /\ queue' # <<>> /\ Len(queue') = Len(queue) + 1
      /\ \A i \in 1..Len(queue') : IF i = Len(queue') THEN queue'[i] = t
                                   ELSE i \in 1..Len(queue) /\ queue'[i] = queue[i]
      /\ queue # <<>> => Head(queue') = Head(queue)
  BY <1>2, <1>4
<1>6. TypeOK'
  BY <1>1, <1>2, <1>4, <1>5 DEF TypeOK, Abstract!Answers
<1>7. DiskInv' /\ TaskInv' /\ ValueInv'
  BY <1>1, <1>2, <1>3, <1>5 DEF DiskInv, TaskInv, ValueInv
<1>8. QueueInv'
  <2>1. \A i \in 1..Len(queue) : queue[i] # t /\ queue[i] \in Txns
    BY <1>1, <1>2, <1>4 DEF QueueInv
  <2>2. \A i \in 1..Len(queue') : answer'[queue'[i]] = "called"
    BY <1>1, <1>2, <1>4, <1>5, <2>1 DEF QueueInv
  <2>3. \A i, j \in 1..Len(queue') : queue'[i] = queue'[j] => i = j
    BY <1>1, <1>5, <2>1 DEF QueueInv
  <2>4. ASSUME NEW i \in 1..Len(Durable)
        PROVE  \/ answer'[Durable[i]] \in {"ok", "unknown"}
               \/ pc = "publish" /\ memory # None /\ Durable[i] = Head(queue')
    <3>1. \/ answer[Durable[i]] \in {"ok", "unknown"}
          \/ pc = "publish" /\ memory # None /\ Durable[i] = Head(queue)
      BY <1>1 DEF QueueInv
    <3>2. pc = "publish" => Head(queue') = Head(queue)
      BY <1>1, <1>5 DEF TaskInv
    <3> QED
      BY <1>2, <1>4, <3>1, <3>2
  <2> QED
    BY <1>2, <1>3, <2>2, <2>3, <2>4 DEF QueueInv
<1>9. Abstract!Call(t)
  BY <1>2, <1>3 DEF Abstract!Call
<1> QED
  BY <1>6, <1>7, <1>8, <1>9 DEF StoreInv, AbstractStep, Abstract!Next

LEMMA BeginKeeps == StoreInv /\ Begin => StoreInv' /\ AbstractStep
<1> SUFFICES ASSUME StoreInv, Begin PROVE StoreInv' /\ AbstractStep
  OBVIOUS
<1>1. TypeOK /\ TaskInv /\ ValueInv /\ pc = "idle" /\ queue # <<>> /\ memory # None
  BY DEF StoreInv, Begin, TaskInv
<1>2. /\ file' = file /\ backup' = backup /\ temp' = temp /\ memory' = memory /\ queue' = queue
      /\ answer' = answer /\ crashes' = crashes /\ pc' = "write"
      /\ draft' = [memory EXCEPT !.log = Append(@, Head(queue))]
  BY DEF Begin, disk, Goto
<1>3. Durable' = Durable
  BY <1>1, <1>2 DEF Durable
<1>4. /\ memory \in [schema : {"current"}, log : Seq(Txns)]
      /\ Append(memory.log, Head(queue)) \in Seq(Txns)
  <2>1. memory \in [schema : {"current"}, log : Seq(Txns)] /\ Head(queue) \in Txns
    BY <1>1, Running DEF TypeOK
  <2> QED
    BY <2>1
<1>5. /\ draft' \in State /\ draft'.schema = "current"
      /\ draft'.log = Append(memory.log, Head(queue))
  BY <1>2, <1>4 DEF State
<1>6. TypeOK' /\ draft' # None
  BY <1>1, <1>2, <1>5, NoneAssumption DEF TypeOK
<1>7. DiskInv' /\ TaskInv' /\ ValueInv'
  BY <1>1, <1>2, <1>3, <1>5, <1>6 DEF DiskInv, TaskInv, ValueInv, Before, Aside
<1> QED
  BY <1>1, <1>2, <1>3, <1>6, <1>7, QuietKeeps

LEMMA ThrowKeeps == StoreInv /\ Throw => StoreInv' /\ AbstractStep
<1> SUFFICES ASSUME StoreInv, Throw PROVE StoreInv' /\ AbstractStep
  OBVIOUS
<1>1. /\ Abort /\ pc = "idle" /\ queue # <<>> /\ TypeOK /\ ValueInv /\ TaskInv
      /\ file' = file /\ backup' = backup /\ temp' = temp
  BY DEF Throw, StoreInv, disk
<1>2. memory # None /\ pc' = "idle"
  BY <1>1 DEF TaskInv, Abort, Goto
<1>3. Durable' = Durable
  BY <1>1, <1>2 DEF Durable
<1>4. file' \in State \cup {None} /\ backup' \in State \cup {None} /\ temp' \in State \cup {None, Partial}
      /\ file' # None
  BY <1>1, <1>2 DEF TypeOK, ValueInv
<1> QED
  BY <1>1, <1>3, <1>4, AbortKeeps

-----------------------------------------------------------------------------
\* The operations of #persist, each with its failure.
LEMMA PersistTyped ==
    ASSUME StoreInv, pc \notin {"down", "idle"}
    PROVE  /\ draft \in State /\ draft # None
           /\ file \in State \cup {None} /\ backup \in State \cup {None}
           /\ temp \in State \cup {None, Partial}
           /\ memory # None => queue # <<>>
           /\ pc \in Before /\ memory # None => file # None
           /\ pc \notin {"dropBackup", "removeNew"} /\ file # None => Durable = file.log
           /\ (pc \in {"dropBackup", "removeNew"} \/ file = None) /\ backup # None =>
                 Durable = backup.log
           /\ (pc \in {"dropBackup", "removeNew"} \/ file = None) /\ backup = None =>
                 Durable = <<>>
BY DEF StoreInv, TypeOK, TaskInv, ValueInv, Durable

\* What carries over when a step only moves copies about and leaves the task as it is.
LEMMA MoveKeeps ==
    ASSUME StoreInv, UNCHANGED task, Durable' = Durable, pc \notin {"down", "idle", "publish"},
           pc' \in (Before \cup Aside),
           file' \in State \cup {None}, backup' \in State \cup {None},
           temp' \in State \cup {None, Partial}, DiskInv',
           memory # None /\ pc' \in Before => file' # None,
           memory = None =>
              draft.log = IF file' = None /\ pc' \in Before THEN <<>> ELSE Durable
    PROVE  StoreInv' /\ AbstractStep
<1>1. TypeOK /\ TaskInv /\ ValueInv
  BY DEF StoreInv
<1>2. /\ memory' = memory /\ queue' = queue /\ draft' = draft /\ answer' = answer
      /\ crashes' = crashes
  BY DEF task
<1>3. pc' \notin {"down", "idle", "publish"}
  BY DEF Before, Aside
<1>4. TypeOK'
  BY <1>1, <1>2 DEF TypeOK, Before, Aside
<1>5. TaskInv' /\ ValueInv'
  BY <1>1, <1>2, <1>3 DEF TaskInv, ValueInv
<1> QED
  BY <1>2, <1>3, <1>4, <1>5, QuietKeeps

LEMMA CreateKeeps == StoreInv /\ Create => StoreInv' /\ AbstractStep
<1> SUFFICES ASSUME StoreInv, Create PROVE StoreInv' /\ AbstractStep
  OBVIOUS
<1>1. pc = "write" /\ pc' = "writing" /\ file' = file /\ backup' = backup /\ temp' = Partial
      /\ UNCHANGED task
  BY DEF Create, Goto
<1>2. Durable' = Durable
  BY <1>1 DEF Durable
<1>3. DiskInv'
  BY <1>1 DEF DiskInv, Aside
<1> QED
  BY <1>1, <1>2, <1>3, PersistTyped, MoveKeeps DEF Before, Aside, StoreInv, ValueInv

LEMMA WriteKeeps == StoreInv /\ Write => StoreInv' /\ AbstractStep
<1> SUFFICES ASSUME StoreInv, Write PROVE StoreInv' /\ AbstractStep
  OBVIOUS
<1>1. pc = "writing" /\ file' = file /\ backup' = backup
  BY DEF Write
<1>2. CASE temp' = draft /\ Goto("replace") /\ UNCHANGED task
  <2>1. Durable' = Durable
    BY <1>1, <1>2 DEF Durable, Goto
  <2>2. DiskInv'
    BY <1>1, <1>2 DEF DiskInv, Aside, Goto, task
  <2> QED
    BY <1>1, <1>2, <2>1, <2>2, PersistTyped, MoveKeeps DEF Before, Aside, StoreInv, ValueInv, Goto
<1>3. CASE Abort /\ UNCHANGED temp
  <2>1. pc' \in {"down", "idle"}
    BY <1>3 DEF Abort, Goto
  <2>2. Durable' = Durable
    BY <1>1, <2>1 DEF Durable
  <2> QED
    BY <1>1, <1>3, <2>2, PersistTyped, AbortKeeps DEF Before
<1> QED
  BY <1>2, <1>3 DEF Write

LEMMA ReplaceKeeps == StoreInv /\ Replace => StoreInv' /\ AbstractStep
<1> SUFFICES ASSUME StoreInv, Replace PROVE StoreInv' /\ AbstractStep
  OBVIOUS
<1>1. pc = "replace" /\ backup' = backup /\ temp = draft
  BY DEF Replace, StoreInv, DiskInv
<1>2. CASE file' = temp /\ temp' = None /\ Goto("publish") /\ UNCHANGED task
  BY <1>1, <1>2, PersistTyped, CommitKeeps DEF Before, Goto
<1>3. CASE Goto("removeBackup") /\ UNCHANGED <<file, temp, task>>
  <2>1. Durable' = Durable
    BY <1>1, <1>3 DEF Durable, Goto
  <2>2. DiskInv'
    BY <1>1, <1>3 DEF DiskInv, Aside, Goto, task
  <2> QED
    BY <1>1, <1>3, <2>1, <2>2, PersistTyped, MoveKeeps DEF Before, Aside, StoreInv, ValueInv, Goto
<1>4. CASE temp' = None /\ Abort /\ UNCHANGED file
  <2>1. pc' \in {"down", "idle"}
    BY <1>4 DEF Abort, Goto
  <2>2. Durable' = Durable
    BY <1>1, <1>4, <2>1 DEF Durable
  <2> QED
    BY <1>1, <1>4, <2>2, PersistTyped, AbortKeeps DEF Before
<1> QED
  BY <1>2, <1>3, <1>4 DEF Replace

\* Where no data file exists, the backup is all there is: this step may lose it.
LEMMA RemoveBackupKeeps == StoreInv /\ RemoveBackup => StoreInv' /\ AbstractStep
<1> SUFFICES ASSUME StoreInv, RemoveBackup PROVE StoreInv' /\ AbstractStep
  OBVIOUS
<1>1. pc = "removeBackup" /\ file' = file /\ temp' = temp
  BY DEF RemoveBackup
<1>2. CASE backup' = None /\ Goto("moveAside") /\ UNCHANGED task
  <2>1. DiskInv'
    BY <1>1, <1>2 DEF StoreInv, DiskInv, Aside, Goto, task
  <2>2. CASE file # None
    <3>1. Durable' = Durable
      BY <1>1, <1>2, <2>2 DEF Durable, Goto
    <3> QED
      BY <1>1, <1>2, <2>1, <3>1, PersistTyped, MoveKeeps DEF Before, Aside, StoreInv, ValueInv, Goto
  <2>3. CASE file = None
    <3>1. memory = None /\ Durable' = <<>>
      BY <1>1, <1>2, <2>3, PersistTyped DEF Durable, Goto, Before
    <3>2. /\ memory' = memory /\ queue' = queue /\ draft' = draft /\ answer' = answer
          /\ crashes' = crashes /\ pc' = "moveAside"
      BY <1>2 DEF task, Goto
    <3>3. TypeOK'
      BY <1>1, <1>2, <3>2 DEF StoreInv, TypeOK
    <3>4. TaskInv' /\ ValueInv'
      BY <1>1, <2>3, <3>1, <3>2 DEF StoreInv, TaskInv, ValueInv, Before
    <3>5. QueueInv'
      BY <3>1, <3>2 DEF StoreInv, QueueInv
    <3>6. AbstractStep
      BY <2>3, <3>1, <3>2 DEF AbstractStep, Abstract!Next, Abstract!Reset
    <3> QED
      BY <2>1, <3>3, <3>4, <3>5, <3>6 DEF StoreInv
  <2> QED
    BY <2>2, <2>3
<1>3. CASE Abort /\ UNCHANGED backup
  <2>1. pc' \in {"down", "idle"}
    BY <1>3 DEF Abort, Goto
  <2>2. Durable' = Durable
    BY <1>1, <1>3, <2>1 DEF Durable
  <2> QED
    BY <1>1, <1>3, <2>2, PersistTyped, AbortKeeps DEF Before
<1> QED
  BY <1>2, <1>3 DEF RemoveBackup

LEMMA MoveAsideKeeps == StoreInv /\ MoveAside => StoreInv' /\ AbstractStep
<1> SUFFICES ASSUME StoreInv, MoveAside PROVE StoreInv' /\ AbstractStep
  OBVIOUS
<1>1. pc = "moveAside" /\ temp' = temp /\ temp = draft
  BY DEF MoveAside, StoreInv, DiskInv
<1>2. CASE file # None /\ backup' = file /\ file' = None /\ Goto("moveIn") /\ UNCHANGED task
  <2>1. Durable' = Durable
    BY <1>1, <1>2 DEF Durable, Goto
  <2>2. DiskInv'
    BY <1>1, <1>2 DEF DiskInv, Aside, Goto, task
  <2>3. memory = None => draft.log = Durable
    BY <1>1, <1>2 DEF StoreInv, ValueInv
  <2> QED
    BY <1>1, <1>2, <2>1, <2>2, <2>3, PersistTyped, MoveKeeps DEF Before, Aside, Goto
<1>3. CASE Abort /\ UNCHANGED <<file, backup>>
  <2>1. pc' \in {"down", "idle"}
    BY <1>3 DEF Abort, Goto
  <2>2. Durable' = Durable
    BY <1>1, <1>3, <2>1 DEF Durable
  <2> QED
    BY <1>1, <1>3, <2>2, PersistTyped, AbortKeeps DEF Before
<1> QED
  BY <1>2, <1>3 DEF MoveAside

LEMMA MoveInKeeps == StoreInv /\ MoveIn => StoreInv' /\ AbstractStep
<1> SUFFICES ASSUME StoreInv, MoveIn PROVE StoreInv' /\ AbstractStep
  OBVIOUS
<1>1. /\ pc = "moveIn" /\ backup' = backup /\ temp = draft /\ file = None /\ backup # None
      /\ UNCHANGED task
  BY DEF MoveIn, StoreInv, DiskInv, Aside
<1>2. pc' \in {"dropBackup", "removeNew"} /\ draft' = draft
  BY <1>1 DEF MoveIn, Goto, task
<1>3. Durable' = Durable
  BY <1>1, <1>2 DEF Durable
<1>4. DiskInv' /\ file' \in State \cup {None} /\ temp' \in State \cup {None, Partial}
  BY <1>1, <1>2, PersistTyped DEF DiskInv, Aside, MoveIn, Goto
<1>5. memory = None => draft.log = Durable
  BY <1>1 DEF StoreInv, ValueInv, Before
<1> QED
  BY <1>1, <1>2, <1>3, <1>4, <1>5, PersistTyped, MoveKeeps DEF Before, Aside

LEMMA DropBackupKeeps == StoreInv /\ DropBackup => StoreInv' /\ AbstractStep
<1> SUFFICES ASSUME StoreInv, DropBackup PROVE StoreInv' /\ AbstractStep
  OBVIOUS
<1>1. /\ pc = "dropBackup" /\ file' = file /\ temp' = temp /\ file = draft /\ backup # None
      /\ UNCHANGED task
  BY DEF DropBackup, StoreInv, DiskInv, Aside
<1>2. CASE backup' = None /\ Goto("publish")
  BY <1>1, <1>2, PersistTyped, CommitKeeps DEF Goto
<1>3. CASE Goto("removeNew") /\ UNCHANGED backup
  <2>1. Durable' = Durable
    BY <1>1, <1>3 DEF Durable, Goto
  <2>2. DiskInv'
    BY <1>1, <1>3 DEF DiskInv, Aside, Goto, task
  <2>3. memory = None => draft.log = Durable
    BY <1>1 DEF StoreInv, ValueInv, Before
  <2> QED
    BY <1>1, <1>3, <2>1, <2>2, <2>3, PersistTyped, MoveKeeps DEF Before, Aside, Goto
<1> QED
  BY <1>2, <1>3 DEF DropBackup

LEMMA RemoveNewKeeps == StoreInv /\ RemoveNew => StoreInv' /\ AbstractStep
<1> SUFFICES ASSUME StoreInv, RemoveNew PROVE StoreInv' /\ AbstractStep
  OBVIOUS
<1>1. /\ pc = "removeNew" /\ pc' = "restore" /\ file' = None /\ backup' = backup /\ temp' = temp
      /\ backup # None /\ UNCHANGED task
  BY DEF RemoveNew, StoreInv, DiskInv, Aside, Goto
<1>2. Durable' = Durable
  BY <1>1 DEF Durable
<1>3. DiskInv'
  BY <1>1 DEF DiskInv, Aside
<1>4. memory = None => draft.log = Durable
  BY <1>1 DEF StoreInv, ValueInv, Before
<1> QED
  BY <1>1, <1>2, <1>3, <1>4, PersistTyped, MoveKeeps DEF Before, Aside

LEMMA RestoreKeeps == StoreInv /\ Restore => StoreInv' /\ AbstractStep
<1> SUFFICES ASSUME StoreInv, Restore PROVE StoreInv' /\ AbstractStep
  OBVIOUS
<1>1. /\ pc = "restore" /\ file = None /\ backup # None /\ Abort
      /\ file' = backup /\ backup' = None /\ temp' = None
  BY DEF Restore, StoreInv, DiskInv, Aside
<1>2. pc' \in {"down", "idle"}
  BY <1>1 DEF Abort, Goto
<1>3. Durable' = Durable
  BY <1>1, <1>2 DEF Durable
<1> QED
  BY <1>1, <1>3, PersistTyped, AbortKeeps

\* The caller hears of the effect, or initialize() returns.
LEMMA PublishKeeps == StoreInv /\ Publish => StoreInv' /\ AbstractStep
<1> SUFFICES ASSUME StoreInv, Publish PROVE StoreInv' /\ AbstractStep
  OBVIOUS
<1>1. /\ TypeOK /\ TaskInv /\ ValueInv /\ QueueInv /\ pc = "publish" /\ file = draft
      /\ draft # None /\ draft \in State /\ draft.schema = "current"
  BY DEF Publish, StoreInv, DiskInv, TaskInv, TypeOK
<1>2. /\ file' = file /\ backup' = backup /\ temp' = temp /\ crashes' = crashes
      /\ memory' = draft /\ draft' = None /\ pc' = "idle"
  BY DEF Publish, disk, Goto
<1>3. Durable' = Durable /\ Durable = draft.log
  BY <1>1, <1>2 DEF Durable
<1>4. memory' \in [schema : {"current"}, log : Seq(Txns)]
  BY <1>1, <1>2 DEF State
<1>5. DiskInv' /\ TaskInv' /\ ValueInv'
  BY <1>1, <1>2, <1>3 DEF DiskInv, TaskInv, ValueInv, Before, Aside
<1>6. CASE memory = None
  <2>1. queue' = queue /\ answer' = answer
    BY <1>6 DEF Publish
  <2>2. TypeOK'
    BY <1>1, <1>2, <1>4, <2>1 DEF TypeOK
  <2>3. QueueInv'
    BY <1>1, <1>3, <1>6, <2>1 DEF QueueInv
  <2> QED
    BY <1>3, <1>5, <2>1, <2>2, <2>3 DEF StoreInv, AbstractStep
<1>7. CASE memory # None
  <2> DEFINE t == Head(queue)
  <2>1. queue' = Tail(queue) /\ answer' = [answer EXCEPT ![t] = "ok"]
    BY <1>7 DEF Publish, Settle
  <2>2. queue # <<>> /\ draft.log = Append(memory.log, t) /\ memory.log \in Seq(Txns)
    BY <1>1, <1>7 DEF TaskInv, TypeOK
  <2>3. /\ t \in Txns /\ answer[t] = "called" /\ t = queue[1] /\ 1 \in 1..Len(queue)
        /\ Tail(queue) \in Seq(Txns)
        /\ \A i \in 1..Len(Tail(queue)) : i + 1 \in 1..Len(queue) /\ Tail(queue)[i] = queue[i + 1]
    BY <2>2, Running
  <2>4. answer \in [Txns -> Abstract!Answers]
    BY <1>1 DEF TypeOK
  <2>5. TypeOK'
    BY <1>1, <1>2, <1>4, <2>1, <2>3, <2>4 DEF TypeOK, Abstract!Answers
  <2>6. \E i \in 1..Len(Durable) : Durable[i] = t
    <3>1. Len(memory.log) + 1 \in 1..Len(Durable) /\ Durable[Len(memory.log) + 1] = t
      <4> HIDE DEF t
      <4> QED
        BY <1>3, <2>2, <2>3
    <3> QED
      BY <3>1
  <2>7. QueueInv'
    <3>1. ASSUME NEW i \in 1..Len(queue') PROVE answer'[queue'[i]] = "called"
      <4>1. i + 1 \in 1..Len(queue) /\ queue'[i] = queue[i + 1] /\ i + 1 # 1 /\ i \in Nat
        BY <2>1, <2>3
      <4>2. queue[i + 1] # t /\ answer[queue[i + 1]] = "called"
        BY <1>1, <2>3, <4>1 DEF QueueInv
      <4> QED
        BY <2>1, <2>4, <4>1, <4>2
    <3>2. ASSUME NEW i \in 1..Len(queue'), NEW j \in 1..Len(queue'), queue'[i] = queue'[j]
          PROVE  i = j
      <4>1. /\ i + 1 \in 1..Len(queue) /\ queue'[i] = queue[i + 1]
            /\ j + 1 \in 1..Len(queue) /\ queue'[j] = queue[j + 1]
        BY <2>1, <2>3
      <4>2. i + 1 = j + 1
        BY <1>1, <3>2, <4>1 DEF QueueInv
      <4> QED
        BY <4>2
    <3>3. ASSUME NEW i \in 1..Len(Durable') PROVE answer'[Durable'[i]] \in {"ok", "unknown"}
      <4>1. answer[Durable[i]] \in {"ok", "unknown"} \/ Durable[i] = t
        BY <1>1, <1>3 DEF QueueInv
      <4> QED
        BY <1>3, <2>1, <2>3, <2>4, <4>1
    <3> QED
      BY <3>1, <3>2, <3>3 DEF QueueInv
  <2>8. Abstract!Answer(t)
    <3>1. t \in Abstract!Range(Durable)
      BY <1>1, <2>6, InEffect
    <3> QED
      BY <1>3, <2>1, <2>3, <3>1 DEF Abstract!Answer
  <2> QED
    BY <1>5, <2>3, <2>5, <2>7, <2>8 DEF StoreInv, AbstractStep, Abstract!Next
<1> QED
  BY <1>6, <1>7

\* A crash while a new file stands beside the backup it replaces puts the running transaction
\* into effect; any other leaves the durable log alone.
LEMMA CrashKeeps == StoreInv /\ Crash => StoreInv' /\ AbstractStep
<1> SUFFICES ASSUME StoreInv, Crash PROVE StoreInv' /\ AbstractStep
  OBVIOUS
<1>1. TypeOK /\ DiskInv /\ TaskInv /\ ValueInv /\ QueueInv /\ pc # "down" /\ crashes < MaxCrashes
  BY DEF StoreInv, Crash
<1>2. /\ crashes' = crashes + 1 /\ memory' = None /\ draft' = None /\ temp' = None
      /\ queue' = <<>> /\ pc' = "down" /\ file' = file /\ backup' = backup
      /\ answer' = [t \in Txns |-> IF answer[t] = "called" THEN "unknown" ELSE answer[t]]
  BY DEF Crash, Goto
<1>3. TypeOK'
  <2>1. crashes' \in 0..MaxCrashes
    BY <1>1, <1>2, CrashesAssumption DEF TypeOK
  <2>2. answer' \in [Txns -> Abstract!Answers]
    BY <1>1, <1>2 DEF TypeOK, Abstract!Answers
  <2> QED
    BY <1>1, <1>2, <2>1, <2>2, EmptySeq DEF TypeOK
<1>4. DiskInv' /\ TaskInv' /\ ValueInv'
  BY <1>2 DEF DiskInv, TaskInv, ValueInv, Before, Aside
<1>5. Durable \in Seq(Txns) /\ answer \in [Txns -> Abstract!Answers]
  BY <1>1, DurableTyped DEF TypeOK
<1>6. \A i \in 1..Len(Durable) : answer'[Durable[i]] \in {"ok", "unknown"}
  <2>1. ASSUME NEW i \in 1..Len(Durable) PROVE answer'[Durable[i]] \in {"ok", "unknown"}
    <3>1. Durable[i] \in Txns
      BY <1>5
    <3>2. CASE answer[Durable[i]] \in {"ok", "unknown"}
      BY <1>2, <3>1, <3>2
    <3>3. CASE pc = "publish" /\ memory # None /\ Durable[i] = Head(queue)
      <4>1. answer[Head(queue)] = "called"
        BY <1>1, <3>3, Running DEF TaskInv
      <4> QED
        BY <1>2, <3>1, <3>3, <4>1
    <3> QED
      BY <1>1, <3>2, <3>3 DEF QueueInv
  <2> QED
    BY <2>1
<1>7. CASE Durable' = Durable
  <2>1. QueueInv'
    BY <1>2, <1>6, <1>7 DEF QueueInv
  <2>2. Abstract!Crash
    BY <1>2, <1>7 DEF Abstract!Crash
  <2> QED
    BY <1>3, <1>4, <2>1, <2>2 DEF StoreInv, AbstractStep, Abstract!Next
<1>8. CASE Durable' # Durable
  <2> DEFINE t == Head(queue)
  <2>1. pc \in {"dropBackup", "removeNew"} /\ file = draft /\ file # None
    BY <1>1, <1>2, <1>8 DEF Durable, DiskInv, Aside
  <2>2. Durable' = draft.log
    BY <1>2, <2>1 DEF Durable
  <2>3. memory # None /\ Durable = memory.log /\ queue # <<>> /\ Durable' = Append(Durable, t)
    BY <1>1, <1>8, <2>1, <2>2 DEF TaskInv, ValueInv, Before
  <2>4. t \in Txns /\ answer[t] = "called" /\ \A i \in 1..Len(Durable) : Durable[i] # t
    BY <2>1, <2>3, Running
  <2>5. answer'[t] = "unknown"
    BY <1>2, <2>4
  <2>6. /\ Len(Durable') = Len(Durable) + 1
        /\ \A i \in 1..Len(Durable') : IF i = Len(Durable') THEN Durable'[i] = t
                                       ELSE i \in 1..Len(Durable) /\ Durable'[i] = Durable[i]
    <3> HIDE DEF t
    <3> QED
      BY <1>5, <2>3, <2>4
  <2>7. QueueInv'
    <3>1. \A i \in 1..Len(Durable') : answer'[Durable'[i]] \in {"ok", "unknown"}
      BY <1>6, <2>5, <2>6
    <3> QED
      BY <1>2, <3>1 DEF QueueInv
  <2>8. Abstract!Crash
    <3>1. t \notin Abstract!Range(Durable)
      BY <1>1, <2>4, InEffect
    <3> QED
      BY <1>2, <2>3, <2>4, <3>1 DEF Abstract!Crash
  <2> QED
    BY <1>3, <1>4, <2>7, <2>8 DEF StoreInv, AbstractStep, Abstract!Next
<1> QED
  BY <1>7, <1>8

-----------------------------------------------------------------------------
LEMMA StoreInit == Init => StoreInv /\ Abstract!Init
<1> SUFFICES ASSUME Init PROVE StoreInv /\ Abstract!Init
  OBVIOUS
<1>1. /\ file \in {None, [schema |-> "old", log |-> <<>>]} /\ backup = None /\ temp = None
      /\ memory = None /\ draft = None /\ queue = <<>> /\ pc = "down"
      /\ answer = [t \in Txns |-> "none"] /\ crashes = 0
  BY DEF Init
<1>2. file # None => file \in State /\ file.log = <<>>
  <2> DEFINE old == [schema |-> "old", log |-> <<>>]
  <2>1. old.log = <<>> /\ old \in [schema : {"old", "current"}, log : {<<>>}]
    OBVIOUS
  <2>2. old \in State
    BY <2>1, EmptySeq DEF State
  <2> QED
    BY <1>1, <2>1, <2>2
<1>3. Durable = <<>> /\ Len(Durable) = 0
  BY <1>1, <1>2 DEF Durable
<1>4. answer \in [Txns -> Abstract!Answers] /\ crashes \in 0..MaxCrashes
  BY <1>1, CrashesAssumption DEF Abstract!Answers
<1>5. TypeOK
  BY <1>1, <1>2, <1>4, EmptySeq DEF TypeOK
<1>6. DiskInv /\ TaskInv /\ ValueInv /\ QueueInv
  BY <1>1, <1>3 DEF DiskInv, TaskInv, ValueInv, QueueInv, Before, Aside
<1> QED
  BY <1>1, <1>3, <1>5, <1>6 DEF StoreInv, Abstract!Init

LEMMA StoreStep == StoreInv /\ [Next]_vars => StoreInv' /\ AbstractStep
<1> SUFFICES ASSUME StoreInv, [Next]_vars PROVE StoreInv' /\ AbstractStep
  OBVIOUS
<1>1. CASE UNCHANGED vars
  <2>1. /\ file' = file /\ backup' = backup /\ temp' = temp /\ memory' = memory
        /\ queue' = queue /\ draft' = draft /\ pc' = pc /\ answer' = answer /\ crashes' = crashes
    BY <1>1 DEF vars, disk, task
  <2>2. Durable' = Durable
    BY <2>1 DEF Durable
  <2>3. TypeOK' /\ DiskInv' /\ TaskInv' /\ ValueInv' /\ QueueInv'
    BY <2>1, <2>2 DEF StoreInv, TypeOK, DiskInv, TaskInv, ValueInv, QueueInv
  <2> QED
    BY <2>1, <2>2, <2>3 DEF StoreInv, AbstractStep
<1>2. CASE Step
  BY <1>2, InitializeKeeps, BeginKeeps, ThrowKeeps, CreateKeeps, WriteKeeps, ReplaceKeeps,
     RemoveBackupKeeps, MoveAsideKeeps, MoveInKeeps, DropBackupKeeps, RemoveNewKeeps,
     RestoreKeeps, PublishKeeps DEF Step
<1>3. CASE Crash
  BY <1>3, CrashKeeps
<1>4. CASE \E t \in Txns : Call(t)
  BY <1>4, CallKeeps
<1> QED
  BY <1>1, <1>2, <1>3, <1>4 DEF Next

LEMMA StoreInvariant == Spec => []StoreInv
  BY StoreInit, StoreStep, PTL DEF Spec

LEMMA PrefixSelf ==
    ASSUME NEW S, NEW s \in Seq(S)
    PROVE  IsPrefix(s, s)
BY DEF IsPrefix

LEMMA PrefixAppend ==
    ASSUME NEW S, NEW s \in Seq(S), NEW t \in S
    PROVE  IsPrefix(s, Append(s, t))
<1> DEFINE n == Len(s)
<1>1. /\ n \in Nat /\ Append(s, t) \in Seq(S) /\ Len(Append(s, t)) = n + 1
      /\ \A i \in 1..n : Append(s, t)[i] = s[i]
  OBVIOUS
<1>2. SubSeq(s, 1, n) = SubSeq(Append(s, t), 1, n)
  BY <1>1
<1> QED
  BY <1>1, <1>2 DEF IsPrefix

\* Every variable of the JSON store keeps its type, and only states of the current schema are
\* served, for any number of transactions and crashes.
THEOREM StoreTyped == Spec => []TypeOK
<1>1. StoreInv => TypeOK
  BY DEF StoreInv
<1> QED
  BY <1>1, StoreInvariant, PTL

\* What a step makes of the durable log where a data file exists.
LEMMA DurableGrows ==
    ASSUME StoreInv, AbstractStep, file # None
    PROVE  IsPrefix(Durable, Durable')
<1>1. Durable \in Seq(Txns)
  BY DurableTyped DEF StoreInv
<1>2. Durable' = Durable \/ \E t \in Txns : Durable' = Append(Durable, t)
  BY DEF AbstractStep, Abstract!Next, Abstract!Call, Abstract!Commit, Abstract!Answer,
         Abstract!Crash, Abstract!Reset
<1> QED
  BY <1>1, <1>2, PrefixSelf, PrefixAppend

\* While the backup alone holds the state, and once the draft is in effect, every step leaves
\* the durable log as it is.
LEMMA DurableStands ==
    ASSUME StoreInv, [Next]_vars, memory # None, file = None \/ pc = "publish"
    PROVE  Durable' = Durable
<1>1. /\ pc \in {"moveIn", "removeNew", "restore", "publish"}
      /\ pc = "publish" => file # None
      /\ pc # "publish" => file = None /\ backup # None
  BY DEF StoreInv, TypeOK, DiskInv, TaskInv, ValueInv, Before, Aside
<1>2. CASE UNCHANGED vars
  BY <1>2 DEF vars, disk, Durable
<1>3. CASE Step
  <2>1. MoveIn \/ RemoveNew \/ Restore \/ Publish
    BY <1>1, <1>3 DEF Step, Initialize, Begin, Throw, Create, Write, Replace, RemoveBackup,
                      MoveAside, DropBackup
  <2>2. CASE MoveIn
    BY <1>1, <2>2 DEF MoveIn, Durable, Goto
  <2>3. CASE RemoveNew
    BY <1>1, <2>3 DEF RemoveNew, Durable, Goto
  <2>4. CASE Restore
    BY <1>1, <2>4 DEF Restore, Abort, Durable, Goto
  <2>5. CASE Publish
    BY <1>1, <2>5 DEF Publish, Durable, Goto, disk
  <2> QED
    BY <2>1, <2>2, <2>3, <2>4, <2>5
<1>4. CASE Crash
  BY <1>1, <1>4 DEF Crash, Durable, Goto
<1>5. CASE \E t \in Txns : Call(t)
  BY <1>5 DEF Call, Durable, disk
<1> QED
  BY <1>2, <1>3, <1>4, <1>5 DEF Next

\* A state that read() returned is in the durable log after every step, a crash included; and
\* while none is served, only a start-up that finds no data file shortens that log.
THEOREM StoreReadsDurable == Spec => ReadsStayDurable
<1> DEFINE Kept == IF memory # None THEN IsPrefix(memory.log, Durable')
                                    ELSE file # None => IsPrefix(Durable, Durable')
<1>1. ASSUME StoreInv, [Next]_vars PROVE Kept
  <2>1. CASE memory = None
    BY <1>1, <2>1, StoreStep, DurableGrows
  <2>2. CASE memory # None /\ pc = "publish"
    <3>1. queue # <<>> /\ Durable = Append(memory.log, Head(queue))
      BY <1>1, <2>2 DEF StoreInv, TaskInv, DiskInv, Durable
    <3>2. Head(queue) \in Txns /\ memory.log \in Seq(Txns)
      BY <1>1, <2>2, <3>1, Running DEF StoreInv, TypeOK
    <3>3. Durable' = Durable
      BY <1>1, <2>2, DurableStands
    <3> QED
      BY <2>2, <3>1, <3>2, <3>3, PrefixAppend
  <2>3. CASE memory # None /\ pc # "publish"
    <3>1. Durable = memory.log /\ memory.log \in Seq(Txns)
      BY <1>1, <2>3 DEF StoreInv, TypeOK, ValueInv
    <3>2. CASE file = None
      BY <1>1, <2>3, <3>1, <3>2, DurableStands, PrefixSelf
    <3>3. CASE file # None
      BY <1>1, <2>3, <3>1, <3>3, StoreStep, DurableGrows
    <3> QED
      BY <3>2, <3>3
  <2> QED
    BY <2>1, <2>2, <2>3
<1> QED
  BY <1>1, StoreInvariant, PTL DEF Spec, ReadsStayDurable

\* Whatever file operation fails and wherever the process crashes, the store is atomic and
\* durable, but for the moments in which no data file exists.
THEOREM StoreRefines == Spec => ImplementsAtomicStore
<1>1. StoreInv /\ [Next]_vars => AbstractStep
  BY StoreStep
<1> QED
  BY <1>1, StoreInit, StoreInvariant, PTL
  DEF Spec, ImplementsAtomicStore, Abstract!Spec, AbstractStep
=============================================================================
