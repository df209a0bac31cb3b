------------------------- MODULE TitleStorageProofs -------------------------
(***************************************************************************)
(* Theorems about TitleStorage, for any users, slots, values, conditions   *)
(* and caps.                                                               *)
(***************************************************************************)
EXTENDS TitleStorage, FiniteSetTheorems, TLAPS

\* Where the one write of an addition, a conditional write or a data write goes.
At(u) == job[u].writes[1][1]

\* A request is of the kind its step belongs to, writes only where its user may, and only
\* with the write lock if it has several writes.
JobOK(u) ==
  LET j == job[u] IN
  /\ j.stamp <= now
  /\ \A i \in DOMAIN j.writes : MayWrite(u, j.writes[i][1][1])
  /\ (j.step = "put") <=> (j.kind = "data")
  /\ j.step # "idle" => j.kind # "none"
  /\ j.step = "read" => j.kind \in {"add", "try"}
  /\ j.step = "write" => j.kind \in {"add", "try", "set", "delete"}
  /\ j.kind \in {"add", "try", "data"} => Len(j.writes) = 1
  /\ j.kind \in {"add", "try", "set"} => j.table = "variable"
  /\ j.kind = "data" => j.table = "data"
  /\ j.step # "write" => j.next = 1
  /\ j.kind \in {"set", "delete"} => j.next <= Len(j.writes) + 1
  /\ AtSlots(u) => writer = u

\* What was read before a write meets the conditions.  With the write lock it is what is
\* there; without, unless nothing was found, another commit has been noticed or it is, too.
SeenOK(u) ==
  LET j == job[u] IN
  j.step = "write" /\ j.kind \in {"add", "try"} =>
    /\ Passes(j.seen, j.check)
    /\ j.kind = "try" => Met(j.seen, j.op, j.comparand)
    /\ \/ j.seen = store["variable"][At(u)]
       \/ writer # u /\ (j.seen = NoRow \/ j.overtaken)

\* The guard of a data write to a slot of one's own still holds when it is written.
DataOK(u) ==
  job[u].step = "put" /\ At(u)[1] \notin VirtualUsers =>
    Passes(store["data"][At(u)], job[u].check)

\* The writes of u's request before the next one that go to a slot.
DoneAt(u, table, key) ==
  {i \in 1 .. job[u].next - 1 : table = job[u].table /\ job[u].writes[i][1] = key}

\* The writer's draft is the store with the writes it has done.
DraftOK ==
  /\ writer # Nobody /\ ~AtSlots(writer) => draft = store
  /\ writer # Nobody /\ AtSlots(writer) =>
       \A table \in Tables, key \in Keys :
         \/ DoneAt(writer, table, key) = {} /\ draft[table][key] = store[table][key]
         \/ \E i \in DoneAt(writer, table, key) :
              /\ \A j \in DoneAt(writer, table, key) : j <= i
              /\ draft[table][key] = RowOf(writer, i)

SInv ==
  /\ StorageTyped /\ DraftOK
  /\ \A u \in Users : JobOK(u) /\ SeenOK(u) /\ DataOK(u)

-----------------------------------------------------------------------------
(* Types. *)

\* The invariant in parts.
Typed ==
  /\ store \in [Tables -> [Keys -> Row \cup {NoRow}]]
  /\ draft \in [Tables -> [Keys -> Row \cup {NoRow}]]
  /\ writer \in Users \cup {Nobody}
  /\ job \in [Users -> Job]
  /\ answer \in {NoAnswer} \cup (Users \X {"NoError", "Unauthorized", "CondFail", "DbFail"})
  /\ now \in 0 .. MaxTime

LockOK == IF writer = Nobody THEN draft = store ELSE job[writer].step \in {"read", "write"}

RequestOK(u) == JobOK(u) /\ SeenOK(u) /\ DataOK(u)

\* The invariant is its parts.
LEMMA Parts == SInv <=> Typed /\ LockOK /\ DraftOK /\ \A u \in Users : RequestOK(u)
  BY DEF SInv, StorageTyped, Typed, LockOK, RequestOK

\* And in the next state.
LEMMA PartsNext == SInv' <=> Typed' /\ LockOK' /\ DraftOK' /\ \A u \in Users : RequestOK(u)'
  BY DEF SInv, StorageTyped, Typed, LockOK, RequestOK

\* The state of a session without a request is one.
LEMMA IdleType == IdleJob \in Job
<1>1. <<>> \in Seq(Keys \X Int)
  OBVIOUS
<1>2. 0 \in 0 .. MaxTime
  BY StorageConstants
<1> QED
  BY <1>1, <1>2 DEF IdleJob, Job, Tables

\* What the parts of a request are.
LEMMA JobFields ==
  ASSUME Typed, NEW u \in Users
  PROVE  /\ job[u] \in Job /\ job[u].next \in Nat /\ job[u].next >= 1
         /\ job[u].writes \in Seq(Keys \X Int) /\ Len(job[u].writes) \in Nat
         /\ DOMAIN job[u].writes = 1 .. Len(job[u].writes)
         /\ \A i \in DOMAIN job[u].writes :
              /\ job[u].writes[i][1] \in Keys /\ job[u].writes[i][2] \in Int
         /\ job[u].stamp \in 0 .. MaxTime /\ job[u].table \in Tables
         /\ job[u].seen \in Row \cup {NoRow} /\ now \in Nat
<1>1. job[u] \in Job /\ now \in Nat
  BY StorageConstants DEF Typed
<1>2. /\ job[u].next \in Nat \ {0} /\ job[u].writes \in Seq(Keys \X Int)
      /\ job[u].stamp \in 0 .. MaxTime /\ job[u].table \in Tables
      /\ job[u].seen \in Row \cup {NoRow}
  BY <1>1 DEF Job
<1> DEFINE w == job[u].writes
<1>3. /\ Len(w) \in Nat /\ DOMAIN w = 1 .. Len(w) /\ \A i \in DOMAIN w : w[i] \in Keys \X Int
  BY <1>2
<1>4. \A p \in Keys \X Int : p[1] \in Keys /\ p[2] \in Int
  OBVIOUS
<1> QED
  BY <1>1, <1>2, <1>3, <1>4

\* The slot of a request with one write.
LEMMA AtIsKey ==
  ASSUME Typed, NEW u \in Users, Len(job[u].writes) = 1
  PROVE  At(u) \in Keys /\ job[u].writes[1][2] \in Int
<1>1. 1 \in DOMAIN job[u].writes
  BY JobFields
<1> QED
  BY <1>1, JobFields DEF At

-----------------------------------------------------------------------------
(* What a step leaves of the requests that are not its own. *)

\* A session without a request.
LEMMA IdleOK ==
  ASSUME NEW u \in Users, job'[u] = IdleJob, now' \in Nat
  PROVE  RequestOK(u)'
<1>1. /\ job'[u].step = "idle" /\ job'[u].kind = "none" /\ job'[u].stamp = 0
      /\ job'[u].writes = <<>> /\ job'[u].next = 1
  BY DEF IdleJob
<1>2. DOMAIN job'[u].writes = {}
  BY <1>1
<1> QED
  BY <1>1, <1>2 DEF RequestOK, JobOK, SeenOK, DataOK, AtSlots

\* A request that is not touched, while the tables stand still.
LEMMA UntouchedOK ==
  ASSUME Typed, NEW v \in Users, RequestOK(v), job'[v] = job[v], store' = store,
         now' \in Nat, now <= now', (writer' = v) <=> (writer = v)
  PROVE  RequestOK(v)'
<1>1. job[v].stamp \in Nat /\ now \in Nat
  BY JobFields, StorageConstants
<1>2. job'[v].stamp <= now'
  BY <1>1 DEF RequestOK, JobOK
<1>3. JobOK(v)'
  BY <1>2 DEF RequestOK, JobOK, AtSlots
<1>4. SeenOK(v)'
  BY DEF RequestOK, SeenOK, At
<1>5. DataOK(v)'
  BY DEF RequestOK, DataOK, At
<1> QED
  BY <1>3, <1>4, <1>5 DEF RequestOK

\* A request that is waiting while another's changes are committed: what it has read may
\* be gone, and its own slots of data are as they were.
LEMMA OvertakenOK ==
  ASSUME Typed, NEW u \in Users, NEW v \in Users, v # u, RequestOK(v), AnswerCommitted(u),
         writer # v, writer' # v, now' = now,
         \A key \in Keys : key[1] = v => store'["data"][key] = store["data"][key]
  PROVE  RequestOK(v)'
<1>1. job'[v] = [job[v] EXCEPT !.overtaken = job[v].step = "write" /\ job[v].seen # NoRow]
  BY DEF AnswerCommitted
<1>2. job[v] \in Job
  BY JobFields
<1>3. /\ job'[v].step = job[v].step /\ job'[v].kind = job[v].kind /\ job'[v].table = job[v].table
      /\ job'[v].writes = job[v].writes /\ job'[v].next = job[v].next /\ job'[v].op = job[v].op
      /\ job'[v].comparand = job[v].comparand /\ job'[v].check = job[v].check
      /\ job'[v].stamp = job[v].stamp /\ job'[v].seen = job[v].seen
      /\ job'[v].overtaken = (job[v].step = "write" /\ job[v].seen # NoRow)
  BY <1>1, <1>2 DEF Job
<1>4. JobOK(v)'
  BY <1>3 DEF RequestOK, JobOK, AtSlots
<1>5. SeenOK(v)'
  BY <1>3 DEF RequestOK, SeenOK, At
<1>6. DataOK(v)'
  <2>1. ASSUME job'[v].step = "put", At(v)'[1] \notin VirtualUsers
        PROVE  Passes(store'["data"][At(v)'], job'[v].check)
    <3>1. At(v)' = At(v)
      BY <1>3 DEF At
    <3>2. job[v].step = "put" /\ At(v)[1] \notin VirtualUsers /\ Len(job[v].writes) = 1
      BY <2>1, <3>1, <1>3 DEF RequestOK, JobOK
    <3>3. 1 \in DOMAIN job[v].writes /\ At(v) \in Keys
      BY <3>2, JobFields, AtIsKey
    <3>4. At(v)[1] = v
      BY <3>2, <3>3 DEF RequestOK, JobOK, MayWrite, At
    <3>5. Passes(store["data"][At(v)], job[v].check)
      BY <3>2 DEF RequestOK, DataOK
    <3> QED
      BY <3>1, <3>3, <3>4, <3>5, <1>3
  <2> QED
    BY <2>1 DEF DataOK
<1> QED
  BY <1>4, <1>5, <1>6 DEF RequestOK

\* The draft of a writer whose request is not touched.
LEMMA DraftUntouched ==
  ASSUME DraftOK, writer \in Users => job'[writer] = job[writer],
         writer \in Users \cup {Nobody}, UNCHANGED <<store, draft, writer>>
  PROVE  DraftOK'
<1>1. CASE writer = Nobody
  BY <1>1 DEF DraftOK
<1>2. CASE writer \in Users
  BY <1>2 DEF DraftOK, AtSlots, DoneAt, RowOf
<1> QED
  BY <1>1, <1>2

-----------------------------------------------------------------------------
(* The three ways a step may end. *)

\* u's request goes on, or is answered without the lock: tables and lock stand still.
LEMMA GoesOn ==
  ASSUME SInv, NEW u \in Users, NEW j \in Job, job' = [job EXCEPT ![u] = j],
         answer' \in {NoAnswer} \cup (Users \X {"NoError", "Unauthorized", "CondFail", "DbFail"}),
         UNCHANGED <<store, draft, writer, now>>,
         writer = u => j.step \in {"read", "write"} /\ j.kind \in {"add", "try"} /\ ~AtSlots(u),
         RequestOK(u)'
  PROVE  SInv'
<1>0. Typed /\ LockOK /\ DraftOK /\ \A v \in Users : RequestOK(v)
  BY Parts
<1>1. now \in Nat /\ Nobody \notin Users /\ writer \in Users \cup {Nobody}
  BY <1>0, StorageConstants DEF Typed
<1>2. job'[u] = j /\ \A v \in Users : v # u => job'[v] = job[v]
  BY <1>0 DEF Typed
<1>3. Typed'
  <2>1. job' \in [Users -> Job]
    BY <1>0 DEF Typed
  <2> QED
    BY <2>1, <1>0 DEF Typed
<1>4. LockOK'
  BY <1>0, <1>1, <1>2 DEF LockOK
<1>5. DraftOK'
  <2>1. CASE writer = u
    <3>1. draft = store
      BY <2>1, <1>0, <1>1 DEF DraftOK
    <3>2. ~AtSlots(writer)'
      BY <2>1, <1>2 DEF AtSlots
    <3> QED
      BY <3>1, <3>2 DEF DraftOK
  <2>2. CASE writer # u
    <3>1. writer \in Users => job'[writer] = job[writer]
      BY <2>2, <1>2
    <3> QED
      BY <3>1, <1>0, <1>1, DraftUntouched
  <2> QED
    BY <2>1, <2>2
<1>6. ASSUME NEW v \in Users
      PROVE  RequestOK(v)'
  <2>1. CASE v = u
    BY <2>1
  <2>2. CASE v # u
    <3>1. job'[v] = job[v] /\ store' = store /\ now' \in Nat /\ now <= now'
      BY <2>2, <1>1, <1>2
    <3>2. (writer' = v) <=> (writer = v)
      OBVIOUS
    <3> QED
      BY <3>1, <3>2, <1>0, UntouchedOK
  <2> QED
    BY <2>1, <2>2
<1> QED
  BY <1>3, <1>4, <1>5, <1>6, PartsNext

\* u's request is refused, or its condition is not met; the lock, if it had it, is free.
LEMMA LetsGo ==
  ASSUME SInv, NEW u \in Users, job' = [job EXCEPT ![u] = IdleJob],
         answer' \in {NoAnswer} \cup (Users \X {"NoError", "Unauthorized", "CondFail", "DbFail"}),
         writer' = (IF writer = u THEN Nobody ELSE writer),
         draft' = (IF writer = u THEN store ELSE draft),
         UNCHANGED <<store, now>>
  PROVE  SInv'
<1>0. Typed /\ LockOK /\ DraftOK /\ \A v \in Users : RequestOK(v)
  BY Parts
<1>1. now \in Nat /\ Nobody \notin Users /\ writer \in Users \cup {Nobody}
  BY <1>0, StorageConstants DEF Typed
<1>2. job'[u] = IdleJob /\ \A v \in Users : v # u => job'[v] = job[v]
  BY <1>0 DEF Typed
<1>3. Typed'
  <2>1. job' \in [Users -> Job]
    BY <1>0, IdleType DEF Typed
  <2>2. draft' \in [Tables -> [Keys -> Row \cup {NoRow}]] /\ writer' \in Users \cup {Nobody}
    BY <1>0 DEF Typed
  <2> QED
    BY <2>1, <2>2, <1>0 DEF Typed
<1>4. LockOK' /\ DraftOK'
  <2>1. CASE writer = u
    <3>1. writer' = Nobody /\ draft' = store'
      BY <2>1
    <3> QED
      BY <3>1 DEF LockOK, DraftOK
  <2>2. CASE writer # u
    <3>1. UNCHANGED <<store, draft, writer>>
      BY <2>2
    <3>2. writer \in Users => job'[writer] = job[writer]
      BY <2>2, <1>2
    <3>3. DraftOK'
      BY <3>1, <3>2, <1>0, <1>1, DraftUntouched
    <3>4. LockOK'
      BY <3>1, <3>2, <1>0, <1>1 DEF LockOK
    <3> QED
      BY <3>3, <3>4
  <2> QED
    BY <2>1, <2>2
<1>5. ASSUME NEW v \in Users
      PROVE  RequestOK(v)'
  <2>1. CASE v = u
    BY <2>1, <1>1, <1>2, IdleOK
  <2>2. CASE v # u
    <3>1. job'[v] = job[v] /\ store' = store /\ now' \in Nat /\ now <= now'
      BY <2>2, <1>1, <1>2
    <3>2. (writer' = v) <=> (writer = v)
      BY <2>2, <1>1
    <3> QED
      BY <3>1, <3>2, <1>0, UntouchedOK
  <2> QED
    BY <2>1, <2>2
<1> QED
  BY <1>3, <1>4, <1>5, PartsNext

\* u's changes are committed, none of them to another player's data.
LEMMA ChangesLand ==
  ASSUME SInv, NEW u \in Users, AnswerCommitted(u), writer \in {u, Nobody}, writer' = Nobody,
         store' \in [Tables -> [Keys -> Row \cup {NoRow}]], draft' = store', now' = now,
         \A key \in Keys : key[1] \in Users /\ key[1] # u =>
           store'["data"][key] = store["data"][key]
  PROVE  SInv'
<1>0. Typed /\ LockOK /\ DraftOK /\ \A v \in Users : RequestOK(v)
  BY Parts
<1>1. now \in Nat /\ Nobody \notin Users
  BY <1>0, StorageConstants DEF Typed
<1>2. Typed'
  <2>1. ASSUME NEW v \in Users
        PROVE  job'[v] \in Job
    <3>1. CASE v = u
      BY <3>1, IdleType DEF AnswerCommitted
    <3>2. CASE v # u
      <4> DEFINE b == job[v].step = "write" /\ job[v].seen # NoRow
      <4>1. job'[v] = [job[v] EXCEPT !.overtaken = b]
        BY <3>2 DEF AnswerCommitted
      <4>2. b \in BOOLEAN /\ job[v] \in Job
        BY <1>0 DEF Typed
      <4> HIDE DEF b
      <4> QED
        BY <4>1, <4>2 DEF Job
    <3> QED
      BY <3>1, <3>2
  <2>2. job' = [v \in Users |-> job'[v]]
    BY DEF AnswerCommitted
  <2>3. job' \in [Users -> Job]
    BY <2>1, <2>2
  <2>4. answer' \in Users \X {"NoError", "Unauthorized", "CondFail", "DbFail"}
    BY DEF AnswerCommitted
  <2> QED
    BY <2>3, <2>4, <1>0 DEF Typed
<1>3. LockOK' /\ DraftOK'
  BY DEF LockOK, DraftOK
<1>4. ASSUME NEW v \in Users
      PROVE  RequestOK(v)'
  <2>1. CASE v = u
    <3>1. job'[v] = IdleJob
      BY <2>1 DEF AnswerCommitted
    <3> QED
      BY <3>1, <1>1, IdleOK
  <2>2. CASE v # u
    <3>1. writer # v /\ writer' # v /\ RequestOK(v)
      BY <2>2, <1>0, <1>1
    <3>2. \A key \in Keys : key[1] = v => store'["data"][key] = store["data"][key]
      BY <2>2
    <3> QED
      BY <2>2, <3>1, <3>2, <1>0, OvertakenOK
  <2> QED
    BY <2>1, <2>2
<1> QED
  BY <1>2, <1>3, <1>4, PartsNext

-----------------------------------------------------------------------------
(* Requests begin. *)

\* The invariant holds at the start.
LEMMA SInit == StorageInit => SInv
<1> SUFFICES ASSUME StorageInit PROVE SInv
  OBVIOUS
<1>1. 0 \in 0 .. MaxTime /\ Nobody \notin Users
  BY StorageConstants
<1>2. Typed
  BY <1>1, IdleType DEF StorageInit, Typed
<1>3. LockOK /\ DraftOK
  BY DEF StorageInit, LockOK, DraftOK
<1>4. ASSUME NEW u \in Users
      PROVE  RequestOK(u)
  <2>1. job[u] = IdleJob /\ now = 0
    BY DEF StorageInit
  <2>2. /\ job[u].step = "idle" /\ job[u].kind = "none" /\ job[u].stamp = 0
        /\ job[u].writes = <<>> /\ job[u].next = 1
    BY <2>1 DEF IdleJob
  <2>3. DOMAIN job[u].writes = {}
    BY <2>2
  <2> QED
    BY <2>1, <2>2, <2>3 DEF RequestOK, JobOK, SeenOK, DataOK, AtSlots
<1> QED
  BY <1>2, <1>3, <1>4, Parts

\* What a command asks for: writes to one target, of a kind that fits its table and step.
Asked(request, target) ==
  /\ request \in Job
  /\ request.step \in {"begin", "put"} /\ request.next = 1
  /\ (request.step = "put") <=> (request.kind = "data")
  /\ request.kind # "none"
  /\ \A i \in DOMAIN request.writes : request.writes[i][1][1] = target
  /\ request.kind \in {"add", "try", "data"} => Len(request.writes) = 1
  /\ request.kind \in {"add", "try", "set"} => request.table = "variable"
  /\ request.kind = "data" => request.table = "data"

\* A handler takes such a request, or refuses it.
LEMMA StartKeeps ==
  ASSUME SInv, NEW u \in Users, NEW target, NEW request,
         Start(u, target, request), Asked(request, target),
         request.kind = "data" /\ MayWrite(u, target) =>
           Passes(store["data"][request.writes[1][1]], request.check)
  PROVE  SInv'
<1>0. Typed /\ LockOK /\ DraftOK /\ \A v \in Users : RequestOK(v)
  BY Parts
<1>1. job[u] = IdleJob /\ UNCHANGED <<store, writer, draft, now>>
  BY DEF Start
<1>2. job[u].step = "idle" /\ Nobody \notin Users
  BY <1>1, StorageConstants DEF IdleJob
<1>3. writer # u
  BY <1>0, <1>2 DEF LockOK
<1>4. now \in 0 .. MaxTime /\ now \in Nat
  BY <1>0, StorageConstants DEF Typed
<1>5. CASE MayWrite(u, target)
  <2> DEFINE j == [request EXCEPT !.stamp = now]
  <2>1. job' = [job EXCEPT ![u] = j] /\ answer' = NoAnswer
    BY <1>5 DEF Start
  <2>2. /\ j \in Job /\ j.stamp = now /\ j.step = request.step /\ j.kind = request.kind
        /\ j.table = request.table /\ j.writes = request.writes /\ j.next = request.next
        /\ j.check = request.check
    BY <1>4 DEF Asked, Job
  <2> HIDE DEF j
  <2>3. job'[u] = j
    BY <2>1, <1>0 DEF Typed
  <2>4. JobOK(u)'
    <3>1. j.stamp <= now' /\ j.next <= Len(j.writes) + 1 /\ j.next = 1
      <4>1. request.next = 1 /\ request.writes \in Seq(Keys \X Int)
        BY DEF Asked, Job
      <4>2. Len(request.writes) \in Nat
        BY <4>1
      <4> QED
        BY <4>1, <4>2, <2>2, <1>1, <1>4
    <3>2. \A i \in DOMAIN j.writes : MayWrite(u, j.writes[i][1][1])
      BY <1>5, <2>2 DEF Asked
    <3>3. j.step # "write" /\ j.step # "read"
      BY <2>2 DEF Asked
    <3> QED
      BY <3>1, <3>2, <3>3, <2>2, <2>3 DEF Asked, JobOK, AtSlots
  <2>5. SeenOK(u)'
    BY <2>2, <2>3 DEF Asked, SeenOK
  <2>6. DataOK(u)'
    <3>1. j.step = "put" => Passes(store["data"][j.writes[1][1]], j.check)
      BY <2>2, <1>5 DEF Asked
    <3> QED
      BY <3>1, <2>3, <1>1 DEF DataOK, At
  <2>7. RequestOK(u)'
    BY <2>4, <2>5, <2>6 DEF RequestOK
  <2> QED
    BY <2>1, <2>2, <2>7, <1>1, <1>3, GoesOn
<1>6. CASE ~MayWrite(u, target)
  <2>1. job' = [job EXCEPT ![u] = IdleJob] /\ answer' = <<u, "Unauthorized">>
    BY <1>6 DEF Start, Answer
  <2>2. job'[u] = IdleJob /\ now' \in Nat
    BY <2>1, <1>0, <1>1, <1>4 DEF Typed
  <2>3. RequestOK(u)'
    BY <2>2, IdleOK
  <2> QED
    BY <2>1, <2>3, <1>1, <1>3, IdleType, GoesOn
<1> QED
  BY <1>5, <1>6

\* Writes to the slots of a target.
LEMMA SlotWrites ==
  ASSUME NEW target, NEW n \in Nat, NEW w \in [1 .. n -> Keys \X Int],
         \A i \in 1 .. n : w[i][1][1] = target
  PROVE  w \in Seq(Keys \X Int) /\ \A i \in DOMAIN w : w[i][1][1] = target
  OBVIOUS

\* Several variables are set.
LEMMA CmdTusSetMultiSlotVariableKeeps ==
  ASSUME SInv, NEW u \in Users, NEW target \in Targets, NEW slots \in SlotLists,
         NEW values \in [DOMAIN slots -> Values],
         CmdTusSetMultiSlotVariable(u, target, [i \in DOMAIN slots |-> <<slots[i], values[i]>>])
  PROVE  SInv'
<1>1. PICK n \in Nat : slots \in [1 .. n -> Slots]
  BY StorageConstants DEF SlotLists
<1>2. DOMAIN slots = 1 .. n /\ values \in [1 .. n -> Int]
  BY <1>1, StorageConstants
<1> DEFINE requested == [i \in DOMAIN slots |-> <<slots[i], values[i]>>]
           w == [i \in DOMAIN requested |-> <<<<target, requested[i][1]>>, requested[i][2]>>]
           request == [IdleJob EXCEPT !.step = "begin", !.kind = "set", !.writes = w]
<1>3. w = [i \in 1 .. n |-> <<<<target, slots[i]>>, values[i]>>]
  BY <1>2
<1>4. w \in Seq(Keys \X Int) /\ \A i \in DOMAIN w : w[i][1][1] = target
  <2>1. w \in [1 .. n -> Keys \X Int] /\ \A i \in 1 .. n : w[i][1][1] = target
    BY <1>1, <1>2, <1>3 DEF Keys
  <2> HIDE DEF w
  <2> QED
    BY <2>1, SlotWrites
<1>5. Start(u, target, request)
  BY DEF CmdTusSetMultiSlotVariable
<1> HIDE DEF w, requested
<1>6. Asked(request, target) /\ request.kind # "data"
  BY <1>4, IdleType DEF Asked, Job, IdleJob
<1> HIDE DEF request
<1> QED
  BY <1>5, <1>6, StartKeeps

\* Data or variables are deleted.
LEMMA DeleteKeeps ==
  ASSUME SInv, NEW u \in Users, NEW target \in Targets, NEW table \in Tables,
         NEW slots \in SlotLists, Delete(u, target, table, slots)
  PROVE  SInv'
<1>1. PICK n \in Nat : slots \in [1 .. n -> Slots]
  BY StorageConstants DEF SlotLists
<1> DEFINE w == [i \in DOMAIN slots |-> <<<<target, slots[i]>>, 0>>]
           zeros == [i \in 1 .. n |-> 0]
           request == [IdleJob EXCEPT !.step = "begin", !.kind = "delete", !.table = table, !.writes = w]
<1>2. DOMAIN slots = 1 .. n /\ zeros \in [1 .. n -> Int]
  BY <1>1
<1>3. w = [i \in 1 .. n |-> <<<<target, slots[i]>>, zeros[i]>>]
  BY <1>2
<1>4. w \in Seq(Keys \X Int) /\ \A i \in DOMAIN w : w[i][1][1] = target
  <2>1. w \in [1 .. n -> Keys \X Int] /\ \A i \in 1 .. n : w[i][1][1] = target
    BY <1>1, <1>2, <1>3 DEF Keys
  <2> HIDE DEF w, zeros
  <2> QED
    BY <2>1, SlotWrites
<1>5. Start(u, target, request)
  BY DEF Delete
<1> HIDE DEF w, zeros
<1>6. Asked(request, target) /\ request.kind # "data"
  BY <1>4, IdleType DEF Asked, Job, IdleJob
<1> HIDE DEF request
<1> QED
  BY <1>5, <1>6, StartKeeps

\* One write is a sequence of writes.
LEMMA OneWrite ==
  ASSUME NEW key \in Keys, NEW value \in Int, NEW w, w = <<<<key, value>>>>
  PROVE  /\ w \in Seq(Keys \X Int) /\ Len(w) = 1 /\ w[1][1] = key
         /\ \A i \in DOMAIN w : w[i][1][1] = key[1]
<1>1. w \in Seq(Keys \X Int) /\ Len(w) = 1 /\ w[1] = <<key, value>>
  OBVIOUS
<1>2. DOMAIN w = {1}
  BY <1>1
<1>3. w[1][1] = key
  BY <1>1
<1>4. \A i \in DOMAIN w : w[i][1][1] = key[1]
  BY <1>2, <1>3
<1> QED
  BY <1>1, <1>3, <1>4

\* A variable is added to.
LEMMA CmdTusAddAndGetVariableKeeps ==
  ASSUME SInv, NEW u \in Users, NEW key \in Keys, NEW delta \in Deltas,
         NEW check \in Guards \cup {NoCheck}, CmdTusAddAndGetVariable(u, key, delta, check)
  PROVE  SInv'
<1> DEFINE w == <<<<key, delta>>>>
           request == [IdleJob EXCEPT !.step = "begin", !.kind = "add", !.writes = w, !.check = check]
<1>1. Start(u, key[1], request)
  BY DEF CmdTusAddAndGetVariable
<1>2. delta \in Int
  BY StorageConstants
<1>3. w \in Seq(Keys \X Int) /\ Len(w) = 1 /\ \A i \in DOMAIN w : w[i][1][1] = key[1]
  BY <1>2, OneWrite
<1> HIDE DEF w
<1>4. Asked(request, key[1]) /\ request.kind # "data"
  BY <1>3, IdleType DEF Asked, Job, IdleJob
<1> HIDE DEF request
<1> QED
  BY <1>1, <1>4, StartKeeps

\* A variable is set on a condition.
LEMMA CmdTusTryAndSetVariableKeeps ==
  ASSUME SInv, NEW u \in Users, NEW key \in Keys, NEW op \in Ops, NEW value \in Values,
         NEW comparand \in Values, NEW check \in Guards \cup {NoCheck},
         CmdTusTryAndSetVariable(u, key, op, value, comparand, check)
  PROVE  SInv'
<1> DEFINE w == <<<<key, value>>>>
           request == [IdleJob EXCEPT !.step = "begin", !.kind = "try", !.writes = w,
                                   !.op = op, !.comparand = comparand, !.check = check]
<1>1. Start(u, key[1], request)
  BY DEF CmdTusTryAndSetVariable
<1>2. value \in Int /\ comparand \in Int /\ op \in 1 .. 6
  BY StorageConstants
<1>3. w \in Seq(Keys \X Int) /\ Len(w) = 1 /\ \A i \in DOMAIN w : w[i][1][1] = key[1]
  BY <1>2, OneWrite
<1> HIDE DEF w
<1>4. Asked(request, key[1]) /\ request.kind # "data"
  BY <1>2, <1>3, IdleType DEF Asked, Job, IdleJob
<1> HIDE DEF request
<1> QED
  BY <1>1, <1>4, StartKeeps

\* Data is set; its guard is looked at first.
LEMMA CmdTusSetDataKeeps ==
  ASSUME SInv, NEW u \in Users, NEW key \in Keys, NEW value \in Values,
         NEW check \in Guards \cup {NoCheck}, CmdTusSetData(u, key, value, check)
  PROVE  SInv'
<1> DEFINE w == <<<<key, value>>>>
           request == [IdleJob EXCEPT !.step = "put", !.kind = "data", !.table = "data",
                                   !.writes = w, !.check = check]
<1>0. Typed /\ LockOK
  BY Parts
<1>1. CASE MayWrite(u, key[1]) /\ ~Passes(store["data"][key], check)
  <2>1. /\ job[u] = IdleJob /\ job' = [job EXCEPT ![u] = IdleJob] /\ answer' = <<u, "CondFail">>
        /\ UNCHANGED <<store, writer, draft, now>>
    BY <1>1 DEF CmdTusSetData, Answer
  <2>2. job[u].step = "idle" /\ Nobody \notin Users
    BY <2>1, StorageConstants DEF IdleJob
  <2>3. writer # u
    BY <1>0, <2>2 DEF LockOK
  <2>4. /\ writer' = (IF writer = u THEN Nobody ELSE writer)
        /\ draft' = (IF writer = u THEN store ELSE draft)
    BY <2>1, <2>3
  <2> QED
    BY <2>1, <2>4, LetsGo
<1>2. CASE ~(MayWrite(u, key[1]) /\ ~Passes(store["data"][key], check))
  <2>1. Start(u, key[1], request)
    BY <1>2 DEF CmdTusSetData
  <2>2. value \in Int
    BY StorageConstants
  <2>3. /\ w \in Seq(Keys \X Int) /\ Len(w) = 1 /\ w[1][1] = key
        /\ \A i \in DOMAIN w : w[i][1][1] = key[1]
    BY <2>2, OneWrite
  <2> HIDE DEF w
  <2>4. Asked(request, key[1]) /\ request.writes = w /\ request.check = check
    BY <2>3, IdleType DEF Asked, Job, IdleJob, Tables
  <2>5. MayWrite(u, key[1]) => Passes(store["data"][request.writes[1][1]], request.check)
    BY <2>3, <2>4, <1>2
  <2> HIDE DEF request
  <2> QED
    BY <2>1, <2>4, <2>5, StartKeeps
<1> QED
  BY <1>1, <1>2

-----------------------------------------------------------------------------
(* Transactions. *)

\* A request with a step in hand that a session without one has not.
LEMMA WriterIsNot ==
  ASSUME Typed, LockOK, NEW u \in Users, job[u].step \notin {"read", "write"}
  PROVE  writer # u
  BY StorageConstants DEF LockOK

\* The write lock is taken.
LEMMA BeginWriteTxnKeeps ==
  ASSUME SInv, NEW u \in Users, BeginWriteTxn(u)
  PROVE  SInv'
<1>0. Typed /\ LockOK /\ DraftOK /\ \A v \in Users : RequestOK(v)
  BY Parts
<1> DEFINE step == IF job[u].kind \in {"add", "try"} THEN "read" ELSE "write"
<1>1. /\ job[u].step = "begin" /\ writer = Nobody /\ writer' = u
      /\ job' = [job EXCEPT ![u].step = step]
      /\ answer' = NoAnswer /\ UNCHANGED <<store, draft, now>>
  BY DEF BeginWriteTxn
<1>2. job[u] \in Job /\ job[u].kind \in {"none", "set", "delete", "add", "try", "data"}
  BY <1>0 DEF Typed, Job
<1>3. step \in {"read", "write"}
  OBVIOUS
<1>4. job'[u] = [job[u] EXCEPT !.step = step] /\ \A v \in Users : v # u => job'[v] = job[v]
  BY <1>0, <1>1 DEF Typed
<1>5. /\ job'[u] \in Job /\ job'[u].step = step /\ job'[u].kind = job[u].kind
      /\ job'[u].writes = job[u].writes /\ job'[u].next = job[u].next
      /\ job'[u].table = job[u].table /\ job'[u].stamp = job[u].stamp
  <2> HIDE DEF step
  <2> QED
    BY <1>2, <1>3, <1>4 DEF Job
<1>6. JobOK(u) /\ job[u].next = 1 /\ job[u].kind # "data"
  BY <1>0, <1>1 DEF RequestOK, JobOK
<1>7. draft = store
  BY <1>0, <1>1 DEF LockOK
<1>8. Typed'
  <2>1. job' \in [Users -> Job]
    BY <1>0, <1>1, <1>4, <1>5 DEF Typed
  <2> QED
    BY <2>1, <1>0, <1>1 DEF Typed
<1>9. LockOK'
  <2>1. u # Nobody
    BY StorageConstants
  <2> QED
    BY <2>1, <1>1, <1>3, <1>5 DEF LockOK
<1>10. DraftOK'
  <2>1. \A table, key : DoneAt(u, table, key)' = {}
    <3>1. 1 .. job'[u].next - 1 = {}
      BY <1>5, <1>6
    <3> QED
      BY <3>1 DEF DoneAt
  <2> QED
    BY <2>1, <1>1, <1>7 DEF DraftOK
<1>11. ASSUME NEW v \in Users
       PROVE  RequestOK(v)'
  <2>1. CASE v = u
    <3>1. CASE job[u].kind \in {"add", "try"}
      <4>1. job'[u].step = "read"
        BY <3>1, <1>5
      <4>2. JobOK(u)'
        BY <4>1, <3>1, <1>1, <1>5, <1>6 DEF JobOK, AtSlots
      <4> QED
        BY <4>1, <4>2, <2>1 DEF RequestOK, SeenOK, DataOK
    <3>2. CASE job[u].kind \notin {"add", "try"}
      <4>1. job'[u].step = "write"
        BY <3>2, <1>5
      <4>2. job[u].kind \in {"set", "delete"} \/ job[u].kind = "none"
        BY <3>2, <1>2, <1>6
      <4>3. job[u].kind # "none"
        BY <1>1, <1>6 DEF JobOK
      <4>4. JobOK(u)'
        BY <4>1, <4>2, <4>3, <1>1, <1>5, <1>6 DEF JobOK, AtSlots
      <4> QED
        BY <4>1, <4>2, <4>3, <4>4, <1>5, <2>1 DEF RequestOK, SeenOK, DataOK
    <3> QED
      BY <3>1, <3>2
  <2>2. CASE v # u
    <3>1. now \in Nat /\ Nobody \notin Users
      BY <1>0, StorageConstants DEF Typed
    <3>2. job'[v] = job[v] /\ store' = store /\ now' \in Nat /\ now <= now'
      BY <2>2, <3>1, <1>1, <1>4
    <3>3. (writer' = v) <=> (writer = v)
      BY <2>2, <3>1, <1>1
    <3> QED
      BY <3>2, <3>3, <1>0, UntouchedOK
  <2> QED
    BY <2>1, <2>2
<1> QED
  BY <1>8, <1>9, <1>10, <1>11, PartsNext

\* The lock does not come free in time.
LEMMA BeginWriteTxnFailsKeeps ==
  ASSUME SInv, NEW u \in Users, BeginWriteTxnFails(u)
  PROVE  SInv'
<1>0. Typed /\ LockOK /\ DraftOK /\ \A v \in Users : RequestOK(v)
  BY Parts
<1>1. /\ job[u].step = "begin" /\ UNCHANGED <<store, writer, draft, now>>
  BY DEF BeginWriteTxnFails
<1>2. writer # u
  BY <1>0, <1>1, WriterIsNot
<1>3. CASE job[u].kind \in {"add", "try"}
  <2> DEFINE j == [job[u] EXCEPT !.step = "read"]
  <2>1. job' = [job EXCEPT ![u] = j] /\ answer' = NoAnswer
    BY <1>3 DEF BeginWriteTxnFails
  <2>2. job[u] \in Job
    BY <1>0 DEF Typed
  <2>3. /\ j \in Job /\ j.step = "read" /\ j.kind = job[u].kind /\ j.writes = job[u].writes
        /\ j.next = job[u].next /\ j.table = job[u].table /\ j.stamp = job[u].stamp
    BY <2>2 DEF Job
  <2> HIDE DEF j
  <2>4. job'[u] = j
    BY <2>1, <1>0 DEF Typed
  <2>5. JobOK(u)
    BY <1>0 DEF RequestOK
  <2>6. JobOK(u)'
    BY <2>3, <2>4, <2>5, <1>1, <1>3 DEF JobOK, AtSlots
  <2>7. RequestOK(u)'
    BY <2>3, <2>4, <2>6 DEF RequestOK, SeenOK, DataOK
  <2> QED
    BY <2>1, <2>3, <2>7, <1>1, <1>2, GoesOn
<1>4. CASE job[u].kind \notin {"add", "try"}
  <2>1. job' = [job EXCEPT ![u] = IdleJob] /\ answer' = <<u, "DbFail">>
    BY <1>4 DEF BeginWriteTxnFails, Answer
  <2>2. /\ writer' = (IF writer = u THEN Nobody ELSE writer)
        /\ draft' = (IF writer = u THEN store ELSE draft)
    BY <1>1, <1>2
  <2> QED
    BY <2>1, <2>2, <1>1, LetsGo
<1> QED
  BY <1>3, <1>4

\* The row a single variable has is read and held against its conditions.
LEMMA ReadVariableKeeps ==
  ASSUME SInv, NEW u \in Users, ReadVariable(u)
  PROVE  SInv'
<1>0. Typed /\ LockOK /\ DraftOK /\ \A v \in Users : RequestOK(v)
  BY Parts
<1> DEFINE rows == IF writer = u THEN draft ELSE store
           row == rows[job[u].table][job[u].writes[1][1]]
<1>1. /\ job[u].step = "read" /\ UNCHANGED <<store, now>>
      /\ \/ /\ ~Passes(row, job[u].check)
            /\ Rollback(u) /\ Answer(u, "CondFail")
         \/ /\ writer' = (IF writer = u THEN Nobody ELSE writer)
            /\ Answer(u, "NoError") /\ UNCHANGED draft
         \/ /\ Passes(row, job[u].check)
            /\ job[u].kind = "try" => Met(row, job[u].op, job[u].comparand)
            /\ job' = [job EXCEPT ![u] = [job[u] EXCEPT !.step = "write", !.seen = row]]
            /\ answer' = NoAnswer /\ UNCHANGED <<writer, draft>>
  <2>1. job \in [Users -> Job]
    BY <1>0 DEF Typed
  <2>2. [job EXCEPT ![u].step = "write", ![u].seen = row] =
          [job EXCEPT ![u] = [job[u] EXCEPT !.step = "write", !.seen = row]]
    <3> HIDE DEF row
    <3> QED
      BY <2>1
  <2> QED
    BY <2>2 DEF ReadVariable
<1>2. /\ JobOK(u) /\ ~AtSlots(u) /\ job[u].kind \in {"add", "try"} /\ job[u].table = "variable"
      /\ Len(job[u].writes) = 1 /\ job[u].next = 1
  BY <1>0, <1>1 DEF RequestOK, JobOK, AtSlots
<1>3. Nobody \notin Users
  BY StorageConstants
<1>4. writer = u => draft = store
  BY <1>0, <1>2, <1>3 DEF DraftOK
<1>5. row = store["variable"][At(u)] /\ At(u) \in Keys
  BY <1>0, <1>2, <1>4, AtIsKey DEF At
<1>6. row \in Row \cup {NoRow}
  BY <1>0, <1>5 DEF Typed, Tables
<1> HIDE DEF row, rows
<1>7. CASE Rollback(u) /\ Answer(u, "CondFail")
  <2>1. /\ writer' = (IF writer = u THEN Nobody ELSE writer)
        /\ draft' = (IF writer = u THEN store ELSE draft)
    BY <1>7 DEF Rollback
  <2>2. job' = [job EXCEPT ![u] = IdleJob] /\ answer' = <<u, "CondFail">>
    BY <1>7 DEF Answer
  <2> QED
    BY <2>1, <2>2, <1>1, LetsGo
<1>8. CASE /\ writer' = (IF writer = u THEN Nobody ELSE writer)
           /\ Answer(u, "NoError") /\ UNCHANGED draft
  <2>1. draft' = (IF writer = u THEN store ELSE draft)
    BY <1>4, <1>8
  <2>2. job' = [job EXCEPT ![u] = IdleJob] /\ answer' = <<u, "NoError">>
    BY <1>8 DEF Answer
  <2> QED
    BY <2>1, <2>2, <1>1, <1>8, LetsGo
<1>9. CASE /\ Passes(row, job[u].check)
           /\ job[u].kind = "try" => Met(row, job[u].op, job[u].comparand)
           /\ job' = [job EXCEPT ![u] = [job[u] EXCEPT !.step = "write", !.seen = row]]
           /\ answer' = NoAnswer /\ UNCHANGED <<writer, draft>>
  <2> DEFINE j == [job[u] EXCEPT !.step = "write", !.seen = row]
  <2>1. job[u] \in Job
    BY <1>0 DEF Typed
  <2>2. /\ j \in Job /\ j.step = "write" /\ j.kind = job[u].kind /\ j.writes = job[u].writes
        /\ j.next = job[u].next /\ j.table = job[u].table /\ j.stamp = job[u].stamp
        /\ j.seen = row /\ j.op = job[u].op /\ j.comparand = job[u].comparand
        /\ j.check = job[u].check
    BY <2>1, <1>6 DEF Job
  <2>3. job' = [job EXCEPT ![u] = j]
    BY <1>9
  <2> HIDE DEF j
  <2>4. job'[u] = j
    BY <2>3, <1>0 DEF Typed
  <2>5. JobOK(u)'
    BY <2>2, <2>4, <1>1, <1>2, <1>9 DEF JobOK, AtSlots
  <2>6. SeenOK(u)'
    BY <2>2, <2>4, <1>1, <1>5, <1>9 DEF SeenOK, At
  <2>7. RequestOK(u)'
    BY <2>2, <2>4, <2>5, <2>6 DEF RequestOK, DataOK
  <2>8. answer' \in {NoAnswer} \cup (Users \X {"NoError", "Unauthorized", "CondFail", "DbFail"})
    BY <1>9
  <2>9. UNCHANGED <<store, draft, writer, now>>
    BY <1>1, <1>9
  <2>10. writer = u => j.step \in {"read", "write"} /\ j.kind \in {"add", "try"} /\ ~AtSlots(u)
    BY <2>2, <1>2
  <2> QED
    BY <2>2, <2>3, <2>7, <2>8, <2>9, <2>10, GoesOn
<1> QED
  BY <1>1, <1>7, <1>8, <1>9

\* A statement fails, and with it the request.
LEMMA StatementFailsKeeps ==
  ASSUME SInv, NEW u \in Users, StatementFails(u)
  PROVE  SInv'
<1>1. /\ writer' = (IF writer = u THEN Nobody ELSE writer)
      /\ draft' = (IF writer = u THEN store ELSE draft)
  BY DEF StatementFails, Rollback
<1>2. job' = [job EXCEPT ![u] = IdleJob] /\ answer' = <<u, "DbFail">> /\ UNCHANGED <<store, now>>
  BY DEF StatementFails, Answer
<1> QED
  BY <1>1, <1>2, LetsGo

\* What is written to a slot is a row.
LEMMA WrittenType ==
  ASSUME NEW table \in Tables, NEW key \in Keys, NEW r \in Row,
         NEW rows \in [Tables -> [Keys -> Row \cup {NoRow}]],
         NEW new, new = [rows EXCEPT ![table][key] = r]
  PROVE  /\ new \in [Tables -> [Keys -> Row \cup {NoRow}]]
         /\ new[table][key] = r
         /\ \A t \in Tables, k \in Keys : <<t, k>> # <<table, key>> => new[t][k] = rows[t][k]
  OBVIOUS

\* What an addition or a conditional write leaves is a row of its slot.
LEMMA WriteVariableLeaves ==
  ASSUME SInv, NEW u \in Users, WriteVariable(u)
  PROVE  /\ At(u) \in Keys /\ job[u].writes[1][2] \in Int /\ NewValue(u) \in Int
         /\ store' \in [Tables -> [Keys -> Row \cup {NoRow}]]
         /\ store'["variable"][At(u)] =
              [value |-> NewValue(u), changed |-> job[u].stamp, author |-> u]
         /\ \A t \in Tables, k \in Keys : <<t, k>> # <<"variable", At(u)>> => store'[t][k] = store[t][k]
<1>0. Typed /\ RequestOK(u)
  BY Parts
<1>1. At(u) \in Keys /\ job[u].writes[1][2] \in Int
  BY <1>0, AtIsKey DEF WriteVariable, RequestOK, JobOK
<1>2. job[u].seen \in Row \cup {NoRow} /\ job[u].stamp \in 0 .. MaxTime
  BY <1>0, JobFields
<1>3. Value(job[u].seen) \in Int
  BY <1>2 DEF Value, Row
<1>4. NewValue(u) \in Int
  BY <1>1, <1>3 DEF NewValue
<1>5. PICK r \in Row :
        /\ r = [value |-> NewValue(u), changed |-> job[u].stamp, author |-> u]
        /\ store' = [store EXCEPT !["variable"][At(u)] = r]
  BY <1>2, <1>4 DEF WriteVariable, At, Written, Row
<1>6. store \in [Tables -> [Keys -> Row \cup {NoRow}]] /\ "variable" \in Tables
  BY <1>0 DEF Typed, Tables
<1> QED
  BY <1>0, <1>1, <1>2, <1>4, <1>5, <1>6, WrittenType

\* An addition or a conditional write is committed.
LEMMA WriteVariableKeeps ==
  ASSUME SInv, NEW u \in Users, WriteVariable(u)
  PROVE  SInv'
<1>1. /\ writer \in {u, Nobody} /\ writer' = Nobody /\ draft' = store' /\ now' = now
      /\ AnswerCommitted(u)
  BY DEF WriteVariable
<1>2. store' \in [Tables -> [Keys -> Row \cup {NoRow}]]
  BY WriteVariableLeaves
<1>3. \A key \in Keys : store'["data"][key] = store["data"][key]
  BY WriteVariableLeaves DEF Tables
<1> QED
  BY <1>1, <1>2, <1>3, ChangesLand

\* What a data write leaves is a row of its slot.
LEMMA SetDataLeaves ==
  ASSUME SInv, NEW u \in Users, SetData(u)
  PROVE  /\ At(u) \in Keys /\ MayWrite(u, At(u)[1])
         /\ store' \in [Tables -> [Keys -> Row \cup {NoRow}]]
         /\ \A t \in Tables, k \in Keys : <<t, k>> # <<"data", At(u)>> => store'[t][k] = store[t][k]
<1>0. Typed /\ RequestOK(u)
  BY Parts
<1>1. job[u].step = "put" /\ Len(job[u].writes) = 1
  BY <1>0 DEF SetData, RequestOK, JobOK
<1>2. At(u) \in Keys /\ job[u].writes[1][2] \in Int
  BY <1>0, <1>1, AtIsKey
<1>3. MayWrite(u, At(u)[1])
  <2>1. 1 \in DOMAIN job[u].writes
    BY <1>0, <1>1, JobFields
  <2> QED
    BY <2>1, <1>0 DEF RequestOK, JobOK, At
<1>4. PICK date \in job[u].stamp .. now :
        store' = Written(store, "data", At(u), job[u].writes[1][2], u, date)
  BY DEF SetData, At
<1>5. date \in 0 .. MaxTime
  <2>1. job[u].stamp \in 0 .. MaxTime /\ now \in 0 .. MaxTime /\ MaxTime \in Nat
    BY <1>0, JobFields, StorageConstants DEF Typed
  <2> QED
    BY <2>1
<1>6. store \in [Tables -> [Keys -> Row \cup {NoRow}]] /\ "data" \in Tables
  BY <1>0 DEF Typed, Tables
<1>7. PICK r \in Row : store' = [store EXCEPT !["data"][At(u)] = r]
  BY <1>2, <1>4, <1>5 DEF Written, Row
<1>8. At(u) \in Keys
  BY <1>2
<1> QED
  BY <1>3, <1>6, <1>7, <1>8, WrittenType

\* A data write is committed.
LEMMA SetDataKeeps ==
  ASSUME SInv, NEW u \in Users, SetData(u)
  PROVE  SInv'
<1>1. /\ writer \in {u, Nobody} /\ writer' = Nobody /\ draft' = store' /\ now' = now
      /\ AnswerCommitted(u)
  BY DEF SetData
<1>2. store' \in [Tables -> [Keys -> Row \cup {NoRow}]]
  BY SetDataLeaves
<1>3. ASSUME NEW key \in Keys, key[1] \in Users, key[1] # u
      PROVE  store'["data"][key] = store["data"][key]
  <2>1. key # At(u)
    BY <1>3, SetDataLeaves, StorageConstants DEF MayWrite
  <2> QED
    BY <2>1, SetDataLeaves DEF Tables
<1> QED
  BY <1>1, <1>2, <1>3, ChangesLand

\* Several writes are committed: those that were done before stay within what u may write.
LEMMA CommitKeeps ==
  ASSUME SInv, NEW u \in Users, Commit(u)
  PROVE  SInv'
<1>0. Typed /\ DraftOK /\ RequestOK(u)
  BY Parts
<1>1. /\ AtSlots(u) /\ writer' = Nobody /\ store' = draft /\ draft' = store' /\ now' = now
      /\ AnswerCommitted(u)
  BY DEF Commit
<1>2. writer = u /\ Nobody \notin Users
  BY <1>0, <1>1, StorageConstants DEF RequestOK, JobOK
<1>3. store' \in [Tables -> [Keys -> Row \cup {NoRow}]]
  BY <1>0, <1>1 DEF Typed
<1>4. ASSUME NEW key \in Keys, key[1] \in Users, key[1] # u
      PROVE  store'["data"][key] = store["data"][key]
  <2>1. DoneAt(u, "data", key) = {}
    <3> SUFFICES ASSUME NEW i \in 1 .. job[u].next - 1, job[u].writes[i][1] = key PROVE FALSE
      BY DEF DoneAt
    <3>1. job[u].next <= Len(job[u].writes) + 1
      BY <1>0, <1>1 DEF AtSlots, RequestOK, JobOK
    <3>2. i \in DOMAIN job[u].writes
      <4>1. /\ job[u].next \in Nat /\ Len(job[u].writes) \in Nat
            /\ DOMAIN job[u].writes = 1 .. Len(job[u].writes)
        BY <1>0, JobFields
      <4>2. i \in 1 .. Len(job[u].writes)
        BY <3>1, <4>1
      <4> QED
        BY <4>1, <4>2
    <3>3. MayWrite(u, key[1])
      BY <3>2, <1>0 DEF RequestOK, JobOK
    <3> QED
      BY <3>3, <1>4, StorageConstants DEF MayWrite
  <2> QED
    BY <2>1, <1>0, <1>1, <1>2 DEF DraftOK, Tables
<1> QED
  BY <1>1, <1>2, <1>3, <1>4, ChangesLand

\* One more slot is written, in the writer's draft.
LEMMA WriteSlotKeeps ==
  ASSUME SInv, NEW u \in Users, WriteSlot(u)
  PROVE  SInv'
<1>0. Typed /\ LockOK /\ DraftOK /\ \A v \in Users : RequestOK(v)
  BY Parts
<1> DEFINE n == job[u].next
           at == job[u].writes[n]
<1>1. /\ AtSlots(u) /\ n <= Len(job[u].writes)
      /\ draft' = (IF job[u].kind = "set"
                   THEN Written(draft, "variable", at[1], at[2], u, job[u].stamp)
                   ELSE [draft EXCEPT ![job[u].table][at[1]] = NoRow])
      /\ job' = [job EXCEPT ![u].next = n + 1]
      /\ answer' = NoAnswer /\ UNCHANGED <<store, writer, now>>
  BY DEF WriteSlot
<1>2. writer = u /\ JobOK(u) /\ Nobody \notin Users
  BY <1>0, <1>1, StorageConstants DEF RequestOK, JobOK
<1>3. /\ n \in Nat /\ n >= 1 /\ n \in DOMAIN job[u].writes /\ Len(job[u].writes) \in Nat
      /\ DOMAIN job[u].writes = 1 .. Len(job[u].writes)
  <2>1. /\ n \in Nat /\ n >= 1 /\ Len(job[u].writes) \in Nat
        /\ DOMAIN job[u].writes = 1 .. Len(job[u].writes)
    BY <1>0, JobFields
  <2>2. n \in 1 .. Len(job[u].writes)
    BY <2>1, <1>1
  <2> QED
    BY <2>1, <2>2
<1>4. at[1] \in Keys /\ at[2] \in Int /\ job[u].table \in Tables /\ job[u].stamp \in 0 .. MaxTime
  BY <1>0, <1>3, JobFields
<1>5. \/ job[u].kind = "set" /\ job[u].table = "variable"
      \/ job[u].kind = "delete"
  BY <1>1, <1>2 DEF AtSlots, JobOK
<1>6. draft \in [Tables -> [Keys -> Row \cup {NoRow}]]
  BY <1>0 DEF Typed
<1> HIDE DEF at, n
<1>7. /\ draft' \in [Tables -> [Keys -> Row \cup {NoRow}]]
      /\ draft'[job[u].table][at[1]] =
           (IF job[u].kind = "delete" THEN NoRow
            ELSE [value |-> at[2], changed |-> job[u].stamp, author |-> u])
      /\ \A t \in Tables, k \in Keys :
           <<t, k>> # <<job[u].table, at[1]>> => draft'[t][k] = draft[t][k]
  <2>1. CASE job[u].kind = "set" /\ job[u].table = "variable"
    <3>1. PICK r \in Row :
            /\ r = [value |-> at[2], changed |-> job[u].stamp, author |-> u]
            /\ draft' = [draft EXCEPT !["variable"][at[1]] = r]
      BY <2>1, <1>1, <1>4 DEF Written, Row
    <3>2. "variable" \in Tables
      BY DEF Tables
    <3> QED
      BY <2>1, <3>1, <3>2, <1>4, <1>6, WrittenType
  <2>2. CASE job[u].kind = "delete"
    <3>1. draft' = [draft EXCEPT ![job[u].table][at[1]] = NoRow]
      BY <2>2, <1>1
    <3> QED
      BY <2>2, <3>1, <1>4, <1>6
  <2> QED
    BY <1>5, <2>1, <2>2
<1>8. job'[u] = [job[u] EXCEPT !.next = n + 1] /\ \A v \in Users : v # u => job'[v] = job[v]
  BY <1>0, <1>1 DEF Typed
<1>9. /\ job'[u] \in Job /\ job'[u].next = n + 1 /\ job'[u].step = job[u].step
      /\ job'[u].kind = job[u].kind /\ job'[u].writes = job[u].writes
      /\ job'[u].table = job[u].table /\ job'[u].stamp = job[u].stamp
  <2>1. job[u] \in Job /\ n + 1 \in Nat \ {0}
    BY <1>0, <1>3 DEF Typed
  <2> QED
    BY <2>1, <1>8 DEF Job
<1>10. Typed'
  <2>1. job' \in [Users -> Job]
    BY <1>0, <1>1, <1>8, <1>9 DEF Typed
  <2> QED
    BY <2>1, <1>0, <1>1, <1>7 DEF Typed
<1>11. LockOK'
  BY <1>0, <1>1, <1>2, <1>9 DEF LockOK
<1>12. AtSlots(u)'
  BY <1>1, <1>9 DEF AtSlots
<1>13. \A i : RowOf(u, i)' = RowOf(u, i)
  BY <1>9 DEF RowOf
<1>14. \A i \in 1 .. n - 1 : i <= n
  BY <1>3
<1>15. ASSUME NEW table \in Tables, NEW key \in Keys
       PROVE  \/ DoneAt(u, table, key)' = {} /\ draft'[table][key] = store'[table][key]
              \/ \E i \in DoneAt(u, table, key)' :
                   /\ \A j \in DoneAt(u, table, key)' : j <= i
                   /\ draft'[table][key] = RowOf(u, i)'
  <2>1. 1 .. job'[u].next - 1 = (1 .. n - 1) \cup {n}
    BY <1>3, <1>9
  <2>2. /\ DoneAt(u, table, key)' =
             {i \in 1 .. job'[u].next - 1 : table = job[u].table /\ job[u].writes[i][1] = key}
        /\ DoneAt(u, table, key) =
             {i \in 1 .. n - 1 : table = job[u].table /\ job[u].writes[i][1] = key}
    BY <1>9 DEF DoneAt, n
  <2>3. CASE table = job[u].table /\ at[1] = key
    <3>1. n \in DoneAt(u, table, key)'
      BY <2>1, <2>2, <2>3 DEF at
    <3>2. \A j \in DoneAt(u, table, key)' : j <= n
      BY <2>1, <2>2, <1>3, <1>14
    <3>3. draft'[table][key] = RowOf(u, n)
      BY <2>3, <1>7 DEF RowOf, at
    <3> QED
      BY <3>1, <3>2, <3>3, <1>13
  <2>4. CASE ~(table = job[u].table /\ at[1] = key)
    <3>1. DoneAt(u, table, key)' = DoneAt(u, table, key)
      <4>1. n \notin DoneAt(u, table, key)'
        BY <2>2, <2>4 DEF at
      <4> QED
        BY <4>1, <2>1, <2>2
    <3>2. draft'[table][key] = draft[table][key]
      BY <2>4, <1>7
    <3>3. \/ DoneAt(u, table, key) = {} /\ draft[table][key] = store[table][key]
          \/ \E i \in DoneAt(u, table, key) :
               /\ \A j \in DoneAt(u, table, key) : j <= i
               /\ draft[table][key] = RowOf(u, i)
      BY <1>0, <1>1, <1>2 DEF DraftOK
    <3>4. store' = store
      BY <1>1
    <3> QED
      BY <3>1, <3>2, <3>3, <3>4, <1>13
  <2> QED
    BY <2>3, <2>4
<1>16. DraftOK'
  <2>1. writer' = u
    BY <1>1, <1>2
  <2> QED
    BY <2>1, <1>12, <1>15 DEF DraftOK
<1>17. ASSUME NEW v \in Users
       PROVE  RequestOK(v)'
  <2>1. CASE v = u
    <3>1. job'[u].next <= Len(job'[u].writes) + 1
      BY <1>1, <1>3, <1>9
    <3>2. JobOK(u)'
      BY <3>1, <1>1, <1>2, <1>9 DEF JobOK, AtSlots
    <3> QED
      BY <3>2, <2>1, <1>1, <1>9 DEF RequestOK, SeenOK, DataOK, AtSlots
  <2>2. CASE v # u
    <3>1. now \in Nat
      BY <1>0, StorageConstants DEF Typed
    <3>2. job'[v] = job[v] /\ store' = store /\ now' \in Nat /\ now <= now'
      BY <2>2, <3>1, <1>1, <1>8
    <3>3. (writer' = v) <=> (writer = v)
      BY <1>1
    <3> QED
      BY <3>2, <3>3, <1>0, UntouchedOK
  <2> QED
    BY <2>1, <2>2
<1> QED
  BY <1>10, <1>11, <1>16, <1>17, PartsNext

\* Time passes.
LEMMA TickKeeps ==
  ASSUME SInv, Tick
  PROVE  SInv'
<1>0. Typed /\ LockOK /\ DraftOK /\ \A v \in Users : RequestOK(v)
  BY Parts
<1>1. /\ now < MaxTime /\ now' = now + 1 /\ answer' = NoAnswer
      /\ UNCHANGED <<store, writer, draft, job>>
  BY DEF Tick
<1>2. now \in Nat /\ MaxTime \in Nat
  BY <1>0, StorageConstants DEF Typed
<1>3. now' \in 0 .. MaxTime /\ now' \in Nat /\ now <= now'
  BY <1>1, <1>2
<1>4. Typed'
  BY <1>0, <1>1, <1>3 DEF Typed
<1>5. LockOK'
  BY <1>0, <1>1 DEF LockOK
<1>6. DraftOK'
  BY <1>0, <1>1, DraftUntouched DEF Typed
<1>7. ASSUME NEW v \in Users
      PROVE  RequestOK(v)'
  <2>1. job'[v] = job[v] /\ store' = store /\ ((writer' = v) <=> (writer = v))
    BY <1>1
  <2> QED
    BY <2>1, <1>0, <1>3, UntouchedOK
<1> QED
  BY <1>4, <1>5, <1>6, <1>7, PartsNext

\* Every step keeps the invariant.
LEMMA SStep == SInv /\ [StorageNext]_storageVars => SInv'
<1> SUFFICES ASSUME SInv, [StorageNext]_storageVars PROVE SInv'
  OBVIOUS
<1>1. CASE \E u \in Users, target \in Targets, slots \in SlotLists :
             \E values \in [DOMAIN slots -> Values] :
               CmdTusSetMultiSlotVariable(u, target, [i \in DOMAIN slots |-> <<slots[i], values[i]>>])
  BY <1>1, CmdTusSetMultiSlotVariableKeeps
<1>2. CASE \E u \in Users, target \in Targets, slots \in SlotLists :
             CmdTusDeleteMultiSlotData(u, target, slots) \/ CmdTusDeleteMultiSlotVariable(u, target, slots)
  <2>1. "data" \in Tables /\ "variable" \in Tables
    BY DEF Tables
  <2> QED
    BY <2>1, <1>2, DeleteKeeps DEF CmdTusDeleteMultiSlotData, CmdTusDeleteMultiSlotVariable
<1>3. CASE \E u \in Users, key \in Keys, check \in Guards \cup {NoCheck} :
             \/ \E delta \in Deltas : CmdTusAddAndGetVariable(u, key, delta, check)
             \/ \E op \in Ops, value, comparand \in Values :
                  CmdTusTryAndSetVariable(u, key, op, value, comparand, check)
             \/ \E value \in Values : CmdTusSetData(u, key, value, check)
  BY <1>3, CmdTusAddAndGetVariableKeeps, CmdTusTryAndSetVariableKeeps, CmdTusSetDataKeeps
<1>4. CASE \E u \in Users : BeginWriteTxn(u)
  BY <1>4, BeginWriteTxnKeeps
<1>5. CASE \E u \in Users : BeginWriteTxnFails(u)
  BY <1>5, BeginWriteTxnFailsKeeps
<1>6. CASE \E u \in Users : ReadVariable(u)
  BY <1>6, ReadVariableKeeps
<1>7. CASE \E u \in Users : WriteVariable(u)
  BY <1>7, WriteVariableKeeps
<1>8. CASE \E u \in Users : WriteSlot(u)
  BY <1>8, WriteSlotKeeps
<1>9. CASE \E u \in Users : Commit(u)
  BY <1>9, CommitKeeps
<1>10. CASE \E u \in Users : SetData(u)
  BY <1>10, SetDataKeeps
<1>11. CASE \E u \in Users : StatementFails(u)
  BY <1>11, StatementFailsKeeps
<1>12. CASE Tick
  BY <1>12, TickKeeps
<1>13. CASE UNCHANGED storageVars
  <2>1. UNCHANGED <<store, writer, draft, job, answer, now>>
    BY <1>13 DEF storageVars
  <2>2. StorageTyped' /\ DraftOK'
    BY <2>1 DEF SInv, StorageTyped, DraftOK, AtSlots, DoneAt, RowOf
  <2>3. \A u \in Users : JobOK(u)' /\ SeenOK(u)' /\ DataOK(u)'
    BY <2>1 DEF SInv, JobOK, SeenOK, DataOK, AtSlots, At
  <2> QED
    BY <2>2, <2>3 DEF SInv
<1> QED
  BY <1>1, <1>2, <1>3, <1>4, <1>5, <1>6, <1>7, <1>8, <1>9, <1>10, <1>11, <1>12, <1>13 DEF StorageNext

-----------------------------------------------------------------------------
\* The invariant holds in every behaviour.
THEOREM StorageAlwaysSound == StorageSpec => []SInv
  BY SInit, SStep, PTL DEF StorageSpec

\* Types; the write lock is held only by a request that is at work in the database.
THEOREM StorageTypes == StorageSpec => []StorageTyped
<1>1. SInv => StorageTyped
  BY DEF SInv
<1> QED
  BY <1>1, StorageAlwaysSound, PTL

-----------------------------------------------------------------------------
(* What a step that commits does. *)

Sound == AddCounts /\ GuardHolds /\ AllAtOnce

\* A step that commits nothing has nothing to answer for.
LEMMA NothingLands ==
  ASSUME store' = store, \A v \in Users : ~Lands(v)
  PROVE  Sound
  BY DEF Sound, AddCounts, GuardHolds, AllAtOnce

\* No request but the one that is answered lands.
LEMMA OnlyAnswered ==
  ASSUME NEW u \in Users, NEW result, answer' = <<u, result>>, NEW v \in Users, Lands(v)
  PROVE  v = u /\ result = "NoError"
  BY DEF Lands

\* And none in a step that answers nobody.
LEMMA NobodyAnswered ==
  ASSUME answer' = NoAnswer, NEW v \in Users
  PROVE  ~Lands(v)
<1>1. <<v, "NoError">> # NoAnswer
  BY DEF NoAnswer
<1> QED
  BY <1>1 DEF Lands

\* A handler that takes or refuses a request commits nothing.
LEMMA StartCommitsNothing ==
  ASSUME NEW u \in Users, NEW target, NEW request, Start(u, target, request)
  PROVE  Sound
<1>1. store' = store
  BY DEF Start
<1>2. ASSUME NEW v \in Users
      PROVE  ~Lands(v)
  <2>1. CASE MayWrite(u, target)
    <3>1. answer' = NoAnswer
      BY <2>1 DEF Start
    <3> QED
      BY <3>1, NobodyAnswered
  <2>2. CASE ~MayWrite(u, target)
    <3>1. answer' = <<u, "Unauthorized">>
      BY <2>2 DEF Start, Answer
    <3> QED
      BY <3>1, OnlyAnswered
  <2> QED
    BY <2>1, <2>2
<1> QED
  BY <1>1, <1>2, NothingLands

\* Nor does a data write that is asked for.
LEMMA CmdTusSetDataCommitsNothing ==
  ASSUME NEW u \in Users, NEW key, NEW value, NEW check, CmdTusSetData(u, key, value, check)
  PROVE  Sound
<1>1. CASE MayWrite(u, key[1]) /\ ~Passes(store["data"][key], check)
  <2>1. answer' = <<u, "CondFail">> /\ store' = store
    BY <1>1 DEF CmdTusSetData, Answer
  <2> QED
    BY <2>1, OnlyAnswered, NothingLands
<1>2. CASE ~(MayWrite(u, key[1]) /\ ~Passes(store["data"][key], check))
  BY <1>2, StartCommitsNothing DEF CmdTusSetData
<1> QED
  BY <1>1, <1>2

\* Nor do the steps of a request before its last.
LEMMA InnerCommitsNothing ==
  ASSUME NEW u \in Users,
         BeginWriteTxn(u) \/ BeginWriteTxnFails(u) \/ WriteSlot(u) \/ StatementFails(u)
  PROVE  Sound
<1>1. store' = store
  BY DEF BeginWriteTxn, BeginWriteTxnFails, WriteSlot, StatementFails
<1>2. answer' = NoAnswer \/ answer' = <<u, "DbFail">>
  BY DEF BeginWriteTxn, BeginWriteTxnFails, WriteSlot, StatementFails, Answer
<1>3. \A v \in Users : ~Lands(v)
  BY <1>2, OnlyAnswered, NobodyAnswered
<1> QED
  BY <1>1, <1>3, NothingLands

\* Nor does reading, though a condition that is not met is no error.
LEMMA ReadCommitsNothing ==
  ASSUME NEW u \in Users, ReadVariable(u)
  PROVE  Sound
<1>1. store' = store /\ job[u].step = "read"
  BY DEF ReadVariable
<1>2. answer' = NoAnswer \/ answer' = <<u, "CondFail">> \/ answer' = <<u, "NoError">>
  BY DEF ReadVariable, Answer
<1>3. ASSUME NEW v \in Users, Lands(v)
      PROVE  FALSE
  <2>1. v = u
    BY <1>2, <1>3, OnlyAnswered, NobodyAnswered
  <2> QED
    BY <2>1, <1>1, <1>3 DEF Lands
<1> QED
  BY <1>1, <1>3, NothingLands

\* An addition adds to what is there, and a condition holds of it, unless nothing was
\* found without the lock.
LEMMA WriteVariableSound ==
  ASSUME SInv, NEW u \in Users, WriteVariable(u)
  PROVE  Sound
<1>0. Typed /\ RequestOK(u)
  BY Parts
<1>1. /\ job[u].step = "write" /\ job[u].kind \in {"add", "try"}
      /\ writer = u \/ (writer = Nobody /\ ~job[u].overtaken)
      /\ answer' = <<u, "NoError">>
  BY DEF WriteVariable, AnswerCommitted
<1>2. \A v \in Users : Lands(v) => v = u
  BY <1>1, OnlyAnswered
<1> DEFINE row == store["variable"][At(u)]
           seen == job[u].seen
<1>3. /\ Passes(seen, job[u].check)
      /\ job[u].kind = "try" => Met(seen, job[u].op, job[u].comparand)
      /\ seen = row \/ (writer # u /\ (seen = NoRow \/ job[u].overtaken))
  BY <1>0, <1>1 DEF RequestOK, SeenOK
<1>4. seen = row \/ (writer # u /\ seen = NoRow)
  BY <1>1, <1>3
<1>5. ~Unprotected(u) => seen = row
  BY <1>4 DEF Unprotected
<1>6. AddCounts
  <2> SUFFICES ASSUME job[u].kind = "add", ~Unprotected(u)
               PROVE  store'["variable"][At(u)].value = Value(row) + job[u].writes[1][2]
    BY <1>2 DEF AddCounts, At
  <2>1. store'["variable"][At(u)].value = NewValue(u)
    <3>1. store'["variable"][At(u)] =
            [value |-> NewValue(u), changed |-> job[u].stamp, author |-> u]
      BY WriteVariableLeaves
    <3>2. PICK r : r = [value |-> NewValue(u), changed |-> job[u].stamp, author |-> u]
      OBVIOUS
    <3>3. r.value = NewValue(u)
      BY <3>2
    <3> QED
      BY <3>1, <3>2, <3>3
  <2>2. NewValue(u) = Value(seen) + job[u].writes[1][2]
    BY DEF NewValue
  <2> QED
    BY <2>1, <2>2, <1>5
<1>7. GuardHolds
  <2>1. job[u].table = "variable"
    BY <1>0, <1>1 DEF RequestOK, JobOK
  <2>2. Passes(row, job[u].check)
    <3>1. CASE seen = row
      BY <3>1, <1>3
    <3>2. CASE seen = NoRow
      <4>1. job[u].check = NoCheck
        BY <3>2, <1>3 DEF Passes
      <4> QED
        BY <4>1 DEF Passes
    <3> QED
      BY <1>4, <3>1, <3>2
  <2>3. job[u].kind = "try" /\ ~Unprotected(u) => Met(row, job[u].op, job[u].comparand)
    BY <1>3, <1>5
  <2> QED
    BY <2>1, <2>2, <2>3, <1>2 DEF GuardHolds, At
<1>8. AllAtOnce
  BY <1>1 DEF AllAtOnce, Lands
<1> QED
  BY <1>6, <1>7, <1>8 DEF Sound

\* A data write replaces what its guard was asked of, in a slot of one's own.
LEMMA SetDataSound ==
  ASSUME SInv, NEW u \in Users, SetData(u)
  PROVE  Sound
<1>0. Typed /\ RequestOK(u)
  BY Parts
<1>1. /\ job[u].step = "put" /\ job[u].kind = "data" /\ job[u].table = "data"
      /\ answer' = <<u, "NoError">>
  BY <1>0 DEF SetData, AnswerCommitted, RequestOK, JobOK
<1>2. \A v \in Users : Lands(v) => v = u
  BY <1>1, OnlyAnswered
<1>3. AddCounts
  BY <1>1, <1>2 DEF AddCounts
<1>4. GuardHolds
  <2>1. At(u)[1] \in VirtualUsers \/ Passes(store["data"][At(u)], job[u].check)
    BY <1>0, <1>1 DEF RequestOK, DataOK
  <2> QED
    BY <2>1, <1>1, <1>2 DEF GuardHolds, At
<1>5. AllAtOnce
  BY <1>1 DEF AllAtOnce, Lands
<1> QED
  BY <1>3, <1>4, <1>5 DEF Sound

\* Several writes become visible together, each slot with its last.
LEMMA CommitSound ==
  ASSUME SInv, NEW u \in Users, Commit(u)
  PROVE  Sound
<1>0. Typed /\ DraftOK /\ RequestOK(u)
  BY Parts
<1>1. /\ AtSlots(u) /\ job[u].next > Len(job[u].writes) /\ store' = draft
      /\ answer' = <<u, "NoError">>
  BY DEF Commit, AnswerCommitted
<1>2. writer = u /\ job[u].next <= Len(job[u].writes) + 1 /\ Nobody \notin Users
  BY <1>0, <1>1, StorageConstants DEF AtSlots, RequestOK, JobOK
<1>3. \A v \in Users : Lands(v) => v = u
  BY <1>1, OnlyAnswered
<1>4. AddCounts /\ GuardHolds
  BY <1>1, <1>3 DEF AtSlots, AddCounts, GuardHolds
<1>5. 1 .. job[u].next - 1 = DOMAIN job[u].writes
  <2>1. /\ job[u].next \in Nat /\ Len(job[u].writes) \in Nat
        /\ DOMAIN job[u].writes = 1 .. Len(job[u].writes)
    BY <1>0, JobFields
  <2>2. job[u].next - 1 = Len(job[u].writes)
    BY <2>1, <1>1, <1>2
  <2> QED
    BY <2>1, <2>2
<1>6. ASSUME NEW table \in Tables, NEW key \in Keys
      PROVE  LET at == {i \in DOMAIN job[u].writes : job[u].writes[i][1] = key}
             IN  IF table # job[u].table \/ at = {}
                 THEN store'[table][key] = store[table][key]
                 ELSE \E i \in at : (\A j \in at : j <= i) /\ store'[table][key] = RowOf(u, i)
  <2> DEFINE at == {i \in DOMAIN job[u].writes : job[u].writes[i][1] = key}
             done == DoneAt(u, table, key)
  <2>1. \/ done = {} /\ draft[table][key] = store[table][key]
        \/ \E i \in done : (\A j \in done : j <= i) /\ draft[table][key] = RowOf(u, i)
    BY <1>0, <1>1, <1>2 DEF DraftOK
  <2>2. table # job[u].table => done = {}
    BY DEF DoneAt
  <2>3. table = job[u].table => done = at
    BY <1>5 DEF DoneAt
  <2> HIDE DEF done, at
  <2>4. CASE table # job[u].table \/ at = {}
    <3>1. done = {}
      BY <2>2, <2>3, <2>4
    <3> QED
      BY <3>1, <2>1, <2>4, <1>1 DEF at
  <2>5. CASE ~(table # job[u].table \/ at = {})
    <3>1. done = at /\ at # {}
      BY <2>3, <2>5
    <3>2. \E i \in at : (\A j \in at : j <= i) /\ store'[table][key] = RowOf(u, i)
      BY <3>1, <2>1, <1>1
    <3> QED
      BY <3>2, <2>5 DEF at
  <2> QED
    BY <2>4, <2>5
<1>7. Lands(u)
  BY <1>1 DEF Lands, AtSlots
<1>8. AllAtOnce
  BY <1>6, <1>7 DEF AllAtOnce
<1> QED
  BY <1>4, <1>8 DEF Sound

\* Every step that changes something is sound.
LEMMA StepSound ==
  ASSUME SInv, StorageNext
  PROVE  Sound
<1>1. CASE \E u \in Users, target \in Targets, slots \in SlotLists :
             \/ \E values \in [DOMAIN slots -> Values] :
                  CmdTusSetMultiSlotVariable(u, target, [i \in DOMAIN slots |-> <<slots[i], values[i]>>])
             \/ CmdTusDeleteMultiSlotData(u, target, slots)
             \/ CmdTusDeleteMultiSlotVariable(u, target, slots)
  BY <1>1, StartCommitsNothing
     DEF CmdTusSetMultiSlotVariable, CmdTusDeleteMultiSlotData, CmdTusDeleteMultiSlotVariable, Delete
<1>2. CASE \E u \in Users, key \in Keys, check \in Guards \cup {NoCheck} :
             \/ \E delta \in Deltas : CmdTusAddAndGetVariable(u, key, delta, check)
             \/ \E op \in Ops, value, comparand \in Values :
                  CmdTusTryAndSetVariable(u, key, op, value, comparand, check)
  BY <1>2, StartCommitsNothing DEF CmdTusAddAndGetVariable, CmdTusTryAndSetVariable
<1>3. CASE \E u \in Users, key \in Keys, check \in Guards \cup {NoCheck}, value \in Values :
             CmdTusSetData(u, key, value, check)
  BY <1>3, CmdTusSetDataCommitsNothing
<1>4. CASE \E u \in Users :
             BeginWriteTxn(u) \/ BeginWriteTxnFails(u) \/ WriteSlot(u) \/ StatementFails(u)
  BY <1>4, InnerCommitsNothing
<1>5. CASE \E u \in Users : ReadVariable(u)
  BY <1>5, ReadCommitsNothing
<1>6. CASE \E u \in Users : WriteVariable(u)
  BY <1>6, WriteVariableSound
<1>7. CASE \E u \in Users : SetData(u)
  BY <1>7, SetDataSound
<1>8. CASE \E u \in Users : Commit(u)
  BY <1>8, CommitSound
<1>9. CASE Tick
  <2>1. store' = store /\ answer' = NoAnswer
    BY <1>9 DEF Tick
  <2> QED
    BY <2>1, NobodyAnswered, NothingLands
<1> QED
  BY <1>1, <1>2, <1>3, <1>4, <1>5, <1>6, <1>7, <1>8, <1>9 DEF StorageNext

\* Whatever the sessions do between a read and its write, with and without the lock: no
\* addition is lost, conditions hold when the write they were for is made, and slots of
\* one request change together (TusDb).
THEOREM WritesAlwaysSound == StorageSpec => WritesSound
<1>1. SInv /\ [StorageNext]_storageVars => [AddCounts /\ GuardHolds /\ AllAtOnce]_storageVars
  BY StepSound DEF Sound
<1> QED
  BY <1>1, StorageAlwaysSound, PTL DEF StorageSpec, WritesSound

-----------------------------------------------------------------------------
(* Pages of friends. *)

\* The division of a number by a page size.
LEMMA Division ==
  ASSUME NEW a \in Nat, NEW size \in Nat, size > 0
  PROVE  /\ (a \div size) * size \in Nat
         /\ a % size \in Nat /\ a % size < size
         /\ a = ((a \div size) * size) + (a % size)
<1>1. a \div size \in Nat /\ a % size \in 0 .. size - 1
  OBVIOUS
<1>2. a = ((a \div size) * size) + (a % size)
  OBVIOUS
<1>3. \A q \in Nat : q * size \in Nat
  OBVIOUS
<1> QED
  BY <1>1, <1>2, <1>3

\* A page from an offset within the list has what comes next, as much as fits.
LEMMA PageLength ==
  ASSUME NEW S, NEW rows \in Seq(S), NEW start \in Nat, start < Len(rows),
         NEW max \in 0 .. TusMaxSelectedFriends,
         NEW cap, cap = IF max > 0 /\ max < TusMaxSelectedFriends THEN max ELSE TusMaxSelectedFriends,
         NEW page, page = FriendsPage(rows, start, max)
  PROVE  /\ cap \in Nat /\ cap > 0
         /\ page \in Seq(S)
         /\ Len(page) = IF Len(rows) - start > cap THEN cap ELSE Len(rows) - start
         /\ \A at \in 1 .. Len(page) : page[at] = rows[start + at]
<1>1. TusMaxSelectedFriends \in Nat /\ TusMaxSelectedFriends > 0 /\ max \in Nat
  BY StorageConstants
<1>2. cap \in Nat /\ cap > 0
  BY <1>1
<1> DEFINE rest == SubSeq(rows, start + 1, Len(rows))
<1>3. Len(rows) \in Nat
  OBVIOUS
<1>4. /\ rest \in Seq(S) /\ Len(rest) = Len(rows) - start
      /\ \A i \in 1 .. Len(rows) - start : rest[i] = rows[start + i]
  <2>1. start + 1 \in 1 .. Len(rows) + 1
    BY <1>3
  <2>2. rest \in Seq(S) /\ Len(rest) = Len(rows) - start
    BY <1>3, <2>1
  <2>3. ASSUME NEW i \in 1 .. Len(rows) - start
        PROVE  rest[i] = rows[start + i]
    BY <1>3, <2>1
  <2> QED
    BY <2>2, <2>3
<1>5. page = IF Len(rest) > cap THEN SubSeq(rest, 1, cap) ELSE rest
  <2>1. ~(start >= Len(rows))
    BY <1>3
  <2> QED
    BY <2>1 DEF FriendsPage
<1> HIDE DEF rest
<1>6. CASE Len(rest) > cap
  <2>1. page = SubSeq(rest, 1, cap)
    BY <1>5, <1>6
  <2>2. Len(rest) \in Nat /\ cap <= Len(rest)
    BY <1>2, <1>3, <1>4, <1>6
  <2>3. page \in Seq(S) /\ Len(page) = cap /\ \A i \in 1 .. cap : page[i] = rest[i]
    BY <1>2, <1>4, <2>1, <2>2
  <2>4. \A at \in 1 .. cap : at \in 1 .. Len(rows) - start
    BY <1>2, <1>3, <1>4, <1>6
  <2> QED
    BY <1>2, <1>4, <1>6, <2>3, <2>4
<1>7. CASE ~(Len(rest) > cap)
  <2>1. page = rest
    BY <1>5, <1>7
  <2> QED
    BY <1>2, <1>4, <1>7, <2>1
<1> QED
  BY <1>6, <1>7

\* Page after page of a list shows every entry in its place.
PagesInPlace(rows) ==
  \A i \in DOMAIN rows, max \in 0 .. TusMaxSelectedFriends :
    LET size == Len(FriendsPage(rows, 0, max))
        page == FriendsPage(rows, ((i - 1) \div size) * size, max)
        at == ((i - 1) % size) + 1
    IN  at <= Len(page) /\ rows[i] = page[at]

\* The page an entry of a list belongs to shows it in its place.
LEMMA PageOfEntry ==
  ASSUME NEW S, NEW rows \in Seq(S), NEW i \in DOMAIN rows, NEW max \in 0 .. TusMaxSelectedFriends,
         NEW size, size = Len(FriendsPage(rows, 0, max)),
         NEW page, page = FriendsPage(rows, ((i - 1) \div size) * size, max)
  PROVE  ((i - 1) % size) + 1 <= Len(page) /\ rows[i] = page[((i - 1) % size) + 1]
<1>1. Len(rows) \in Nat /\ i \in Nat /\ i >= 1 /\ i <= Len(rows)
  OBVIOUS
<1>2. PICK n \in Nat : n = Len(rows) /\ n > 0
  BY <1>1
<1>3. PICK cap : cap = IF max > 0 /\ max < TusMaxSelectedFriends THEN max ELSE TusMaxSelectedFriends
  OBVIOUS
<1>4. PICK first : first = FriendsPage(rows, 0, max)
  OBVIOUS
<1>5. cap \in Nat /\ cap > 0 /\ Len(first) = IF Len(rows) - 0 > cap THEN cap ELSE Len(rows) - 0
  <2>1. 0 \in Nat /\ 0 < Len(rows)
    BY <1>2
  <2> QED
    BY <1>3, <1>4, <2>1, PageLength
<1>6. size \in Nat /\ size > 0 /\ size <= cap /\ (size = IF n > cap THEN cap ELSE n)
  BY <1>2, <1>4, <1>5
<1>7. PICK a \in Nat : a = i - 1
  BY <1>1
<1>8. PICK start \in Nat : start = (a \div size) * size
  BY <1>6, Division
<1>9. PICK r \in Nat : r = a % size
  BY <1>6, Division
<1>10. a = start + r /\ r < size
  BY <1>6, <1>8, <1>9, Division
<1>11. start < n /\ start < Len(rows) /\ i = start + (r + 1)
  BY <1>1, <1>2, <1>7, <1>10
<1>12. page = FriendsPage(rows, start, max)
  BY <1>7, <1>8
<1>13. /\ Len(page) = IF Len(rows) - start > cap THEN cap ELSE Len(rows) - start
       /\ \A at \in 1 .. Len(page) : page[at] = rows[start + at]
  <2>1. start \in Nat /\ start < Len(rows)
    BY <1>8, <1>11
  <2>2. PICK from \in Nat : from = start
    BY <2>1
  <2>3. PICK next : next = FriendsPage(rows, from, max)
    OBVIOUS
  <2>4. from \in Nat /\ from < Len(rows)
    BY <2>1, <2>2
  <2>5. /\ Len(next) = IF Len(rows) - from > cap THEN cap ELSE Len(rows) - from
        /\ \A at \in 1 .. Len(next) : next[at] = rows[from + at]
    BY <1>3, <2>3, <2>4, PageLength, SMTT(30)
  <2>6. page = next
    BY <1>12, <2>2, <2>3
  <2> QED
    BY <2>2, <2>5, <2>6
<1>14. r + 1 <= Len(page) /\ r + 1 \in 1 .. Len(page)
  BY <1>1, <1>2, <1>5, <1>6, <1>10, <1>11, <1>13
<1>15. page[r + 1] = rows[i]
  BY <1>11, <1>13, <1>14
<1> QED
  BY <1>7, <1>9, <1>14, <1>15

\* Every list can be shown in pages.
LEMMA PagesCoverList ==
  ASSUME NEW S, NEW rows \in Seq(S)
  PROVE  PagesInPlace(rows)
<1>1. ASSUME NEW i \in DOMAIN rows, NEW max \in 0 .. TusMaxSelectedFriends
      PROVE  LET size == Len(FriendsPage(rows, 0, max))
                 page == FriendsPage(rows, ((i - 1) \div size) * size, max)
                 at == ((i - 1) % size) + 1
             IN  at <= Len(page) /\ rows[i] = page[at]
  <2>1. PICK size : size = Len(FriendsPage(rows, 0, max))
    OBVIOUS
  <2>2. PICK page : page = FriendsPage(rows, ((i - 1) \div size) * size, max)
    OBVIOUS
  <2>3. ((i - 1) % size) + 1 <= Len(page) /\ rows[i] = page[((i - 1) % size) + 1]
    BY <2>1, <2>2, PageOfEntry
  <2> QED
    BY <2>1, <2>2, <2>3
<1> QED
  BY <1>1 DEF PagesInPlace

\* The number of rows of a set that a row comes after.
Rank(T, r, sorttype) == Cardinality({b \in T : Precedes(b, r, sorttype)})

\* Rows that differ in their owners are in one order, whatever they are sorted by.
LEMMA PrecedesIsOrder ==
  ASSUME NEW sorttype \in 1 .. 4,
         NEW a, a.row.changed \in Int, a.row.value \in Int, a.owner \in Int,
         NEW b, b.row.changed \in Int, b.row.value \in Int, b.owner \in Int,
         NEW c, c.row.changed \in Int, c.row.value \in Int, c.owner \in Int
  PROVE  /\ ~Precedes(a, a, sorttype)
         /\ Precedes(a, b, sorttype) /\ Precedes(b, c, sorttype) => Precedes(a, c, sorttype)
         /\ a.owner # b.owner => Precedes(a, b, sorttype) \/ Precedes(b, a, sorttype)
<1>1. CASE sorttype = 1
  BY <1>1 DEF Precedes
<1>2. CASE sorttype = 2
  BY <1>2 DEF Precedes
<1>3. CASE sorttype = 3
  BY <1>3 DEF Precedes
<1>4. CASE sorttype = 4
  BY <1>4 DEF Precedes
<1> QED
  BY <1>1, <1>2, <1>3, <1>4

\* The rows of T are in one order.
IsOrder(T, sorttype) ==
  /\ \A a \in T : ~Precedes(a, a, sorttype)
  /\ \A a, b, c \in T :
       Precedes(a, b, sorttype) /\ Precedes(b, c, sorttype) => Precedes(a, c, sorttype)
  /\ \A a, b \in T : a = b \/ Precedes(a, b, sorttype) \/ Precedes(b, a, sorttype)

\* A list has all of T, each row before those it precedes.
ListsInOrder(rows, T, sorttype) ==
  /\ \A r \in T : \E i \in DOMAIN rows : rows[i] = r
  /\ \A i, j \in DOMAIN rows : i < j => Precedes(rows[i], rows[j], sorttype)

\* A finite set in an order comes as a list of all of it, each row before those it precedes.
LEMMA SortedIsList ==
  ASSUME NEW T, IsFiniteSet(T), NEW sorttype, IsOrder(T, sorttype),
         NEW rows, rows = SortedFriends(T, sorttype)
  PROVE  rows \in Seq(T) /\ ListsInOrder(rows, T, sorttype)
<1>. USE DEF IsOrder
<1> DEFINE under(r) == {b \in T : Precedes(b, r, sorttype)}
           n == Cardinality(T)
<1>1. n \in Nat
  BY FS_CardinalityType
<1>2. ASSUME NEW r
      PROVE  IsFiniteSet(under(r)) /\ Cardinality(under(r)) \in Nat /\ Cardinality(under(r)) <= n
  <2>1. under(r) \in SUBSET T
    OBVIOUS
  <2> QED
    BY <2>1, FS_Subset, FS_CardinalityType
<1>3. ASSUME NEW a \in T, NEW b \in T, Precedes(a, b, sorttype)
      PROVE  Rank(T, a, sorttype) < Rank(T, b, sorttype)
  <2>1. under(a) \in SUBSET under(b)
    BY <1>3
  <2>2. a \in under(b) /\ a \notin under(a)
    BY <1>3
  <2>3. Cardinality(under(a)) <= Cardinality(under(b)) /\ Cardinality(under(a)) # Cardinality(under(b))
    BY <1>2, <2>1, <2>2, FS_Subset
  <2>4. Cardinality(under(a)) \in Nat /\ Cardinality(under(b)) \in Nat
    BY <1>2
  <2>5. Cardinality(under(a)) < Cardinality(under(b))
    BY <2>3, <2>4
  <2> QED
    BY <2>5 DEF Rank
<1>4. \A r \in T : Rank(T, r, sorttype) \in 0 .. n - 1
  <2>1. TAKE r \in T
  <2>2. under(r) \in SUBSET T /\ under(r) # T
    OBVIOUS
  <2>3. Cardinality(under(r)) # n
    BY <2>2, FS_Subset
  <2>4. Cardinality(under(r)) \in Nat /\ Cardinality(under(r)) <= n
    BY <1>2
  <2>5. PICK c : c = Cardinality(under(r))
    OBVIOUS
  <2>6. c \in 0 .. n - 1
    BY <1>1, <2>3, <2>4, <2>5
  <2> QED
    BY <2>5, <2>6 DEF Rank
<1>5. \A a, b \in T : Rank(T, a, sorttype) = Rank(T, b, sorttype) => a = b
  BY <1>1, <1>3, <1>4
<1> DEFINE rank == [r \in T |-> Rank(T, r, sorttype)]
<1>6. rank \in Injection(T, 0 .. n - 1)
  BY <1>4, <1>5 DEF Injection, IsInjective
<1>7. IsFiniteSet(0 .. n - 1) /\ Cardinality(0 .. n - 1) = n
  <2>1. 0 \in Int /\ n - 1 \in Int
    BY <1>1
  <2>2. IsFiniteSet(0 .. n - 1) /\ Cardinality(0 .. n - 1) = IF 0 > n - 1 THEN 0 ELSE (n - 1) - 0 + 1
    BY <2>1, FS_Interval
  <2> QED
    BY <1>1, <2>2
<1>8. rank \in Surjection(T, 0 .. n - 1)
  BY <1>6, <1>7, FS_Injection
<1>9. \A k \in 0 .. n - 1 : \E r \in T : Rank(T, r, sorttype) = k
  BY <1>8 DEF Surjection
<1>10. rows = [i \in 1 .. n |-> CHOOSE r \in T : Rank(T, r, sorttype) = i - 1]
  BY DEF SortedFriends, Rank
<1> HIDE DEF n, rank, under
<1>11. ASSUME NEW i \in 1 .. n
       PROVE  rows[i] \in T /\ Rank(T, rows[i], sorttype) = i - 1
  <2>1. i - 1 \in 0 .. n - 1
    BY <1>1
  <2>2. rows[i] = CHOOSE r \in T : Rank(T, r, sorttype) = i - 1
    BY <1>10
  <2>3. \E r \in T : Rank(T, r, sorttype) = i - 1
    BY <1>9, <2>1
  <2> QED
    BY <2>2, <2>3
<1>12. rows \in Seq(T) /\ DOMAIN rows = 1 .. n
  <2>1. DOMAIN rows = 1 .. n /\ rows = [i \in 1 .. n |-> rows[i]]
    BY <1>10
  <2>2. rows \in [1 .. n -> T]
    BY <1>11, <2>1
  <2> QED
    BY <1>1, <2>1, <2>2
<1>13. ASSUME NEW r \in T
       PROVE  \E i \in DOMAIN rows : rows[i] = r
  <2>1. PICK k \in 0 .. n - 1 : k = Rank(T, r, sorttype)
    BY <1>4
  <2>2. k + 1 \in 1 .. n /\ (k + 1) - 1 = k
    BY <1>1
  <2>3. rows[k + 1] \in T /\ Rank(T, rows[k + 1], sorttype) = k
    BY <1>11, <2>2
  <2> QED
    BY <1>5, <1>12, <2>1, <2>2, <2>3
<1>14. ASSUME NEW i \in DOMAIN rows, NEW j \in DOMAIN rows, i < j
       PROVE  Precedes(rows[i], rows[j], sorttype)
  <2>1. i \in 1 .. n /\ j \in 1 .. n
    BY <1>12
  <2>2. rows[i] \in T /\ rows[j] \in T
    BY <1>11, <2>1
  <2>3. Rank(T, rows[i], sorttype) < Rank(T, rows[j], sorttype)
    <3>1. Rank(T, rows[i], sorttype) = i - 1 /\ Rank(T, rows[j], sorttype) = j - 1
      BY <1>11, <2>1
    <3> QED
      BY <1>1, <1>14, <2>1, <3>1
  <2>4. ~(Rank(T, rows[j], sorttype) < Rank(T, rows[i], sorttype)) /\ rows[i] # rows[j]
    BY <1>1, <1>4, <2>2, <2>3
  <2>5. ~Precedes(rows[j], rows[i], sorttype)
    BY <1>3, <2>2, <2>4
  <2> QED
    BY <2>2, <2>4, <2>5
<1> QED
  BY <1>12, <1>13, <1>14 DEF ListsInOrder

\* The friends of a user with something in a slot are finitely many, one row each.
LEMMA SelectedRows ==
  ASSUME StorageTyped, NEW u \in Users, NEW slot \in Slots,
         NEW T, T = Selected(u, TRUE, "variable", slot)
  PROVE  /\ IsFiniteSet(T)
         /\ \A r \in T : r.row.changed \in Int /\ r.row.value \in Int /\ r.owner \in Int
         /\ \A a, b \in T : a.owner = b.owner => a = b
<1> DEFINE O == {f \in Friends[u] \cup {u} : store["variable"][<<f, slot>>] # NoRow}
           row(o) == [owner |-> o, row |-> store["variable"][<<o, slot>>]]
           f == [o \in O |-> row(o)]
<1>1. T = {row(o) : o \in O}
  BY DEF Selected
<1>2. O \in SUBSET Users
  BY StorageConstants
<1>3. IsFiniteSet(O)
  BY <1>2, StorageConstants, FS_Subset
<1>4. f \in Surjection(O, T)
  BY <1>1 DEF Surjection
<1>5. IsFiniteSet(T)
  <2> HIDE DEF f, O, row
  <2> QED
    BY <1>3, <1>4, FS_Surjection
<1>6. ASSUME NEW o \in O
      PROVE  store["variable"][<<o, slot>>] \in Row /\ o \in Int
  <2>1. <<o, slot>> \in Keys /\ "variable" \in Tables
    BY <1>2 DEF Keys, Targets, Tables
  <2>2. store["variable"][<<o, slot>>] \in Row \cup {NoRow}
    BY <2>1 DEF StorageTyped
  <2> QED
    BY <1>2, <2>2, StorageConstants
<1>7. ASSUME NEW r \in T
      PROVE  r.row.changed \in Int /\ r.row.value \in Int /\ r.owner \in Int
  <2>1. PICK o \in O : r = row(o)
    BY <1>1
  <2>2. r.owner = o /\ r.row = store["variable"][<<o, slot>>]
    BY <2>1
  <2>3. r.row \in Row /\ r.owner \in Int
    BY <1>6, <2>2
  <2>4. MaxTime \in Int
    BY StorageConstants
  <2> QED
    BY <2>3, <2>4 DEF Row
<1>8. ASSUME NEW a \in T, NEW b \in T, a.owner = b.owner
      PROVE  a = b
  <2>1. PICK o \in O : a = row(o)
    BY <1>1
  <2>2. PICK p \in O : b = row(p)
    BY <1>1
  <2>3. o = p
    BY <1>8, <2>1, <2>2
  <2> QED
    BY <2>1, <2>2, <2>3
<1> QED
  BY <1>5, <1>7, <1>8

\* The friends' rows in one slot are listed in order, and every page of them has its place.
LEMMA PagesOfSlot ==
  ASSUME StorageTyped, NEW u \in Users, NEW slot \in Slots, NEW sorttype \in 1 .. 4,
         NEW T, T = Selected(u, TRUE, "variable", slot),
         NEW rows, rows = SortedFriends(T, sorttype)
  PROVE  /\ ListsInOrder(rows, T, sorttype)
         /\ PagesInPlace(rows)
<1>1. /\ IsFiniteSet(T)
      /\ \A r \in T : r.row.changed \in Int /\ r.row.value \in Int /\ r.owner \in Int
      /\ \A a, b \in T : a.owner = b.owner => a = b
  BY SelectedRows
<1>2. \A a \in T : ~Precedes(a, a, sorttype)
  BY <1>1, PrecedesIsOrder
<1>3. \A a, b, c \in T :
        Precedes(a, b, sorttype) /\ Precedes(b, c, sorttype) => Precedes(a, c, sorttype)
  BY <1>1, PrecedesIsOrder
<1>4. \A a, b \in T : a = b \/ Precedes(a, b, sorttype) \/ Precedes(b, a, sorttype)
  BY <1>1, PrecedesIsOrder
<1>5. IsFiniteSet(T) /\ IsOrder(T, sorttype)
  BY <1>1, <1>2, <1>3, <1>4 DEF IsOrder
<1>6. rows \in Seq(T) /\ ListsInOrder(rows, T, sorttype)
  BY <1>5, SortedIsList
<1>7. PagesInPlace(rows)
  BY <1>6, PagesCoverList
<1> QED
  BY <1>6, <1>7

\* Pages are complete and in order wherever the types are right.
LEMMA TypesGivePages ==
  ASSUME StorageTyped
  PROVE  PagesCover
<1>1. ASSUME NEW u \in Users, NEW slot \in Slots, NEW sorttype \in 1 .. 4
      PROVE  LET found == Selected(u, TRUE, "variable", slot)
                 rows == SortedFriends(found, sorttype)
             IN  ListsInOrder(rows, found, sorttype) /\ PagesInPlace(rows)
  <2>1. PICK found : found = Selected(u, TRUE, "variable", slot)
    OBVIOUS
  <2>2. PICK rows : rows = SortedFriends(found, sorttype)
    OBVIOUS
  <2>3. ListsInOrder(rows, found, sorttype) /\ PagesInPlace(rows)
    BY <2>1, <2>2, PagesOfSlot
  <2> QED
    BY <2>1, <2>2, <2>3
<1> QED
  <2>1. ASSUME NEW u \in Users, NEW slot \in Slots, NEW sorttype \in 1 .. 4
        PROVE  LET found == Selected(u, TRUE, "variable", slot)
                   rows == SortedFriends(found, sorttype)
               IN  /\ \A r \in found : \E i \in DOMAIN rows : rows[i] = r
                   /\ \A i, j \in DOMAIN rows : i < j => Precedes(rows[i], rows[j], sorttype)
                   /\ \A i \in DOMAIN rows, max \in 0 .. TusMaxSelectedFriends :
                        LET size == Len(FriendsPage(rows, 0, max))
                            page == FriendsPage(rows, ((i - 1) \div size) * size, max)
                            at == ((i - 1) % size) + 1
                        IN  at <= Len(page) /\ rows[i] = page[at]
    <3>1. PICK found : found = Selected(u, TRUE, "variable", slot)
      OBVIOUS
    <3>2. PICK rows : rows = SortedFriends(found, sorttype)
      OBVIOUS
    <3>3. ListsInOrder(rows, found, sorttype) /\ PagesInPlace(rows)
      BY <1>1, <3>1, <3>2
    <3>4. /\ \A r \in found : \E i \in DOMAIN rows : rows[i] = r
          /\ \A i, j \in DOMAIN rows : i < j => Precedes(rows[i], rows[j], sorttype)
      BY <3>3, Zenon DEF ListsInOrder
    <3>5. \A i \in DOMAIN rows, max \in 0 .. TusMaxSelectedFriends :
            LET size == Len(FriendsPage(rows, 0, max))
                page == FriendsPage(rows, ((i - 1) \div size) * size, max)
                at == ((i - 1) % size) + 1
            IN  at <= Len(page) /\ rows[i] = page[at]
      BY <3>3, Zenon DEF PagesInPlace
    <3> QED
      BY <3>1, <3>2, <3>4, <3>5, ZenonT(30)
  <2> QED
    BY <2>1, Zenon DEF PagesCover

\* Paging through one's friends shows each of them once, in the order asked for, whatever
\* the page size (CmdTusGetFriendsVariable).
THEOREM PagesAlwaysCover == StorageSpec => []PagesCover
  BY StorageTypes, TypesGivePages, PTL
=============================================================================
