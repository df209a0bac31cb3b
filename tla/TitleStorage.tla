---------------------------- MODULE TitleStorage ----------------------------
(***************************************************************************)
(* Title user storage: the variables and the data of players and of a      *)
(* title's virtual users, in one title.                                    *)
(*                                                                         *)
(* Every session has its own connection to the database.  A command that   *)
(* changes rows is either one statement, or a transaction that begins with *)
(* BEGIN IMMEDIATE and so holds the write lock from its first read to its  *)
(* commit; one connection writes at a time and others wait at most the     *)
(* busy timeout.  TusDb::AddAndGetVariableEx and TryAndSetVariableEx go on *)
(* without a transaction when that wait fails: what follows then commits   *)
(* statement by statement.                                                 *)
(*                                                                         *)
(* The database is external (SQLite in WAL mode through QtSql).  One rule  *)
(* of it matters: a SELECT that has returned a row stays open as long as   *)
(* its query object, and a write on a connection whose open SELECT has     *)
(* been overtaken by another commit is refused.                            *)
(***************************************************************************)
EXTENDS Integers, FiniteSets, SequencesExt

CONSTANTS
  Users,        \* players, one session each; a user is an account id
  VirtualUsers, \* users a title has made up
  Friends,      \* Friends[u]: mutual friends of u
  Slots,        \* slot numbers
  Values,       \* values and data that are set
  Deltas,       \* amounts that are added
  NoRow,        \* the slot was never written, or was deleted
  Unasked,          \* no author or date is asked for
  Nobody,       \* no connection holds the write lock
  Ops,          \* conditions of TryAndSetVariable, 1 .. 6
  Guards,       \* checks of author and date that are asked for
  MaxValue,     \* adding stops here
  MaxTime,      \* bound on the clock
  TusMaxSlotsPerRequest, TusMaxSelectedFriends

Targets == Users \cup VirtualUsers
Keys == Targets \X Slots
Tables == {"variable", "data"}
Row == [value: Int, changed: 0 .. MaxTime, author: Users]

\* hasauthorcheck and hasdatecheck with their values.
Check == [author: Users \cup {Unasked}, date: Nat \cup {Unasked}]
NoCheck == [author |-> Unasked, date |-> Unasked]

ASSUME StorageConstants ==
  /\ IsFiniteSet(Users) /\ Friends \in [Users -> SUBSET Users]
  /\ Users \subseteq Int /\ Users \cap VirtualUsers = {}
  /\ Values \subseteq Int /\ Deltas \subseteq Int /\ MaxValue \in Int
  /\ Ops \subseteq 1 .. 6 /\ Guards \subseteq Check
  /\ MaxTime \in Nat /\ TusMaxSlotsPerRequest \in Nat /\ TusMaxSelectedFriends \in Nat \ {0}
  /\ NoRow \notin Row /\ Nobody \notin Users /\ Unasked \notin Users \cup Nat

VARIABLES
  store,  \* store[table][k]: the committed row, or NoRow
  writer, \* the user whose connection holds the write lock, or Nobody
  draft,  \* store as the writer sees it
  job,    \* job[u]: the request u's session has in hand
  answer, \* the answer this step sent, <<user, result>>, or NoAnswer
  now     \* the clock

storageVars == <<store, writer, draft, job, answer, now>>

NoAnswer == <<>>

IdleJob == [step |-> "idle", kind |-> "none", table |-> "variable", writes |-> <<>>, next |-> 1,
         op |-> 1, comparand |-> 0, check |-> NoCheck, stamp |-> 0,
         seen |-> NoRow, overtaken |-> FALSE]

-----------------------------------------------------------------------------
(* What a command asks of the row it finds. *)

\* An absent row fails any check that is asked for.
Passes(row, check) ==
  \/ check = NoCheck
  \/ /\ row # NoRow
     /\ check.author \in {Unasked, row.author}
     /\ check.date # Unasked => row.changed <= check.date

\* EQUAL .. LESS_OR_EQUAL are 1 .. 6; an unset slot meets every condition.
Met(row, op, comparand) ==
  row # NoRow =>
    CASE op = 1 -> comparand = row.value
      [] op = 2 -> comparand # row.value
      [] op = 3 -> comparand > row.value
      [] op = 4 -> comparand >= row.value
      [] op = 5 -> comparand < row.value
      [] op = 6 -> comparand <= row.value

Value(row) == IF row = NoRow THEN 0 ELSE row.value

\* A virtual user's slots belong to everybody, a player's to the player.
MayWrite(u, target) == target \in VirtualUsers \/ target = u

Written(rows, table, key, value, u, stamp) ==
  [rows EXCEPT ![table][key] = [value |-> value, changed |-> stamp, author |-> u]]

-----------------------------------------------------------------------------
(* The steps of a request. *)

Answer(u, result) ==
  /\ job' = [job EXCEPT ![u] = IdleJob]
  /\ answer' = <<u, result>>

\* u's request is done and its changes are committed: every other open SELECT
\* is overtaken.
AnswerCommitted(u) ==
  /\ job' = [v \in Users |->
       IF v = u THEN IdleJob
       ELSE [job[v] EXCEPT !.overtaken = job[v].step = "write" /\ job[v].seen # NoRow]]
  /\ answer' = <<u, "NoError">>

\* Mutant: a refusal forgets to end the transaction.
Rollback_Forgotten(u) == UNCHANGED <<writer, draft>>

\* m_db.rollback(), or WriteTxn's destructor; nothing without a transaction.
Rollback(u) ==
  IF writer = u THEN writer' = Nobody /\ draft' = store ELSE UNCHANGED <<writer, draft>>

\* A handler that is allowed to write to `target` starts its request; the date it
\* will write was taken before the database is asked for anything.
Start(u, target, request) ==
  /\ job[u] = IdleJob
  /\ IF MayWrite(u, target)
     THEN /\ job' = [job EXCEPT ![u] = [request EXCEPT !.stamp = now]]
          /\ answer' = NoAnswer
     ELSE Answer(u, "Unauthorized")
  /\ UNCHANGED <<store, writer, draft, now>>

\* Every slot of the request in order, all with the same date.
CmdTusSetMultiSlotVariable(u, target, requested) ==
  Start(u, target, [IdleJob EXCEPT !.step = "begin", !.kind = "set",
    !.writes = [i \in DOMAIN requested |-> <<<<target, requested[i][1]>>, requested[i][2]>>]])

\* Data and variable of a slot are deleted apart.
Delete(u, target, table, slots) ==
  Start(u, target, [IdleJob EXCEPT !.step = "begin", !.kind = "delete", !.table = table,
    !.writes = [i \in DOMAIN slots |-> <<<<target, slots[i]>>, 0>>]])

CmdTusDeleteMultiSlotData(u, target, slots) == Delete(u, target, "data", slots)
CmdTusDeleteMultiSlotVariable(u, target, slots) == Delete(u, target, "variable", slots)

CmdTusAddAndGetVariable(u, key, delta, check) ==
  /\ Value(store["variable"][key]) + delta <= MaxValue
  /\ Start(u, key[1], [IdleJob EXCEPT !.step = "begin", !.kind = "add",
       !.writes = <<<<key, delta>>>>, !.check = check])

CmdTusTryAndSetVariable(u, key, op, value, comparand, check) ==
  Start(u, key[1], [IdleJob EXCEPT !.step = "begin", !.kind = "try",
    !.writes = <<<<key, value>>>>, !.op = op, !.comparand = comparand, !.check = check])

\* The guard is read by a statement of its own, whose query is gone when the
\* write follows.
CmdTusSetData(u, key, value, check) ==
  IF MayWrite(u, key[1]) /\ ~Passes(store["data"][key], check)
  THEN /\ job[u] = IdleJob
       /\ Answer(u, "CondFail")
       /\ UNCHANGED <<store, writer, draft, now>>
  ELSE Start(u, key[1], [IdleJob EXCEPT !.step = "put", !.kind = "data", !.table = "data",
         !.writes = <<<<key, value>>>>, !.check = check])

-----------------------------------------------------------------------------
(* The database. *)

\* The date is taken between the guard and the write.
SetData(u) ==
  /\ job[u].step = "put" /\ writer = Nobody
  /\ \E date \in job[u].stamp .. now :
       store' = Written(store, "data", job[u].writes[1][1], job[u].writes[1][2], u, date)
  /\ draft' = store'
  /\ AnswerCommitted(u)
  /\ UNCHANGED <<writer, now>>

\* BEGIN IMMEDIATE.
BeginWriteTxn(u) ==
  /\ job[u].step = "begin" /\ writer = Nobody
  /\ writer' = u
  /\ job' = [job EXCEPT ![u].step = IF job[u].kind \in {"add", "try"} THEN "read" ELSE "write"]
  /\ answer' = NoAnswer
  /\ UNCHANGED <<store, draft, now>>

\* The lock does not come free in time.  Several slots are not written without
\* a transaction; a single variable is.
BeginWriteTxnFails(u) ==
  /\ job[u].step = "begin" /\ writer # Nobody
  /\ IF job[u].kind \in {"add", "try"}
     THEN job' = [job EXCEPT ![u].step = "read"] /\ answer' = NoAnswer
     ELSE Answer(u, "DbFail")
  /\ UNCHANGED <<store, writer, draft, now>>

\* AddAndGetVariableEx and TryAndSetVariableEx up to their upsert.
ReadVariable(u) ==
  LET rows == IF writer = u THEN draft ELSE store
      row == rows[job[u].table][job[u].writes[1][1]]
  IN  /\ job[u].step = "read"
      /\ \/ /\ ~Passes(row, job[u].check)
            /\ Rollback(u) /\ Answer(u, "CondFail")
         \/ /\ Passes(row, job[u].check)
            /\ job[u].kind = "try" /\ ~Met(row, job[u].op, job[u].comparand)
            /\ writer' = (IF writer = u THEN Nobody ELSE writer)
            /\ Answer(u, "NoError") /\ UNCHANGED draft
         \/ /\ Passes(row, job[u].check)
            /\ job[u].kind = "try" => Met(row, job[u].op, job[u].comparand)
            /\ job' = [job EXCEPT ![u].step = "write", ![u].seen = row]
            /\ answer' = NoAnswer /\ UNCHANGED <<writer, draft>>
      /\ UNCHANGED <<store, now>>

\* Mutant: the value that was read is left out.
NewValue_Fresh(u) == job[u].writes[1][2]

NewValue(u) ==
  IF job[u].kind = "add" THEN Value(job[u].seen) + job[u].writes[1][2] ELSE job[u].writes[1][2]

\* Their upsert and commit, inside the transaction or, without one, on its own.
WriteVariable(u) ==
  /\ job[u].step = "write" /\ job[u].kind \in {"add", "try"}
  /\ writer = u \/ (writer = Nobody /\ ~job[u].overtaken)
  /\ store' = Written(store, "variable", job[u].writes[1][1], NewValue(u), u, job[u].stamp)
  /\ draft' = store'
  /\ writer' = Nobody
  /\ AnswerCommitted(u)
  /\ UNCHANGED now

AtSlots(u) == job[u].step = "write" /\ job[u].kind \in {"set", "delete"}

WriteSlot(u) ==
  LET at == job[u].writes[job[u].next]
  IN  /\ AtSlots(u) /\ job[u].next <= Len(job[u].writes)
      /\ draft' = IF job[u].kind = "set"
                  THEN Written(draft, "variable", at[1], at[2], u, job[u].stamp)
                  ELSE [draft EXCEPT ![job[u].table][at[1]] = NoRow]
      /\ job' = [job EXCEPT ![u].next = @ + 1]
      /\ answer' = NoAnswer
      /\ UNCHANGED <<store, writer, now>>

Commit(u) ==
  /\ AtSlots(u) /\ job[u].next > Len(job[u].writes)
  /\ store' = draft
  /\ writer' = Nobody
  /\ AnswerCommitted(u)
  /\ UNCHANGED <<draft, now>>

\* A statement fails: the lock is not to be had in time, the read was overtaken,
\* or the file cannot grow.
StatementFails(u) ==
  /\ job[u].step \in {"put", "write"}
  /\ Rollback(u)
  /\ Answer(u, "DbFail")
  /\ UNCHANGED <<store, now>>

Tick ==
  /\ now < MaxTime /\ now' = now + 1
  /\ answer' = NoAnswer
  /\ UNCHANGED <<store, writer, draft, job>>

-----------------------------------------------------------------------------
(* Reading the slots of one's friends. *)

Selected(u, includeself, table, slot) ==
  {[owner |-> o, row |-> store[table][<<o, slot>>]] :
     o \in {f \in Friends[u] \cup (IF includeself THEN {u} ELSE {}) :
              store[table][<<f, slot>>] # NoRow}}

\* sorttype 1 and 2 are by date, 3 and 4 by value, the odd ones descending; the
\* owner decides between equals.
Precedes(a, b, sorttype) ==
  LET Of(r) == IF sorttype <= 2 THEN r.row.changed ELSE r.row.value
  IN  \/ IF sorttype \in {1, 3} THEN Of(a) > Of(b) ELSE Of(a) < Of(b)
      \/ Of(a) = Of(b) /\ a.owner < b.owner

\* The i-th row of the sorted list has i - 1 before it.
SortedFriends(rows, sorttype) ==
  [i \in 1 .. Cardinality(rows) |->
     CHOOSE r \in rows : Cardinality({b \in rows : Precedes(b, r, sorttype)}) = i - 1]

\* Mutant: the list is cut to the cap, then the offset is skipped.
FriendsPage_CapFirst(rows, start, max) ==
  LET cap == IF max > 0 /\ max < TusMaxSelectedFriends THEN max ELSE TusMaxSelectedFriends
      cut == IF Len(rows) > cap THEN SubSeq(rows, 1, cap) ELSE rows
  IN  IF start >= Len(cut) THEN <<>> ELSE SubSeq(cut, start + 1, Len(cut))

\* The offset is skipped, then the rest cut to the cap.
FriendsPage(rows, start, max) ==
  LET cap == IF max > 0 /\ max < TusMaxSelectedFriends THEN max ELSE TusMaxSelectedFriends
      rest == IF start >= Len(rows) THEN <<>> ELSE SubSeq(rows, start + 1, Len(rows))
  IN  IF Len(rest) > cap THEN SubSeq(rest, 1, cap) ELSE rest

-----------------------------------------------------------------------------
StorageInit ==
  /\ store = [table \in Tables |-> [k \in Keys |-> NoRow]]
  /\ draft = store
  /\ writer = Nobody
  /\ job = [u \in Users |-> IdleJob]
  /\ answer = NoAnswer
  /\ now = 0

\* The slots a request names, in any order, again or not at all.
SlotLists == UNION {[1 .. n -> Slots] : n \in 0 .. TusMaxSlotsPerRequest}

StorageNext ==
  \/ \E u \in Users :
       \/ \E target \in Targets, slots \in SlotLists :
            \/ \E values \in [DOMAIN slots -> Values] :
                 CmdTusSetMultiSlotVariable(u, target,
                   [i \in DOMAIN slots |-> <<slots[i], values[i]>>])
            \/ CmdTusDeleteMultiSlotData(u, target, slots)
            \/ CmdTusDeleteMultiSlotVariable(u, target, slots)
       \/ \E key \in Keys, check \in Guards \cup {NoCheck} :
            \/ \E delta \in Deltas : CmdTusAddAndGetVariable(u, key, delta, check)
            \/ \E op \in Ops, value, comparand \in Values :
                 CmdTusTryAndSetVariable(u, key, op, value, comparand, check)
            \/ \E value \in Values : CmdTusSetData(u, key, value, check)
       \/ BeginWriteTxn(u) \/ BeginWriteTxnFails(u)
       \/ ReadVariable(u) \/ WriteVariable(u)
       \/ WriteSlot(u) \/ Commit(u)
       \/ SetData(u)
       \/ StatementFails(u)
  \/ Tick

StorageSpec == StorageInit /\ [][StorageNext]_storageVars

-----------------------------------------------------------------------------
Job ==
  [step: {"idle", "begin", "read", "put", "write"},
   kind: {"none", "set", "delete", "add", "try", "data"},
   table: Tables, writes: Seq(Keys \X Int), next: Nat \ {0},
   op: 1 .. 6, comparand: Int, check: Guards \cup {NoCheck}, stamp: 0 .. MaxTime,
   seen: Row \cup {NoRow}, overtaken: BOOLEAN]

\* Every variable has its type.  A draft exists only while somebody writes, and a
\* connection whose request is over does not keep the write lock, whichever way
\* out it took: everybody's next write would time out.
StorageTyped ==
  /\ store \in [Tables -> [Keys -> Row \cup {NoRow}]]
  /\ draft \in [Tables -> [Keys -> Row \cup {NoRow}]]
  /\ writer \in Users \cup {Nobody}
  /\ IF writer = Nobody THEN draft = store ELSE job[writer].step \in {"read", "write"}
  /\ job \in [Users -> Job]
  /\ answer \in {NoAnswer} \cup (Users \X {"NoError", "Unauthorized", "CondFail", "DbFail"})
  /\ now \in 0 .. MaxTime

\* This step commits the changes of u's request.
Lands(u) == job[u].step \in {"put", "write"} /\ answer' = <<u, "NoError">>

\* A request that went on without the write lock and had found no row.
Unprotected(u) == writer # u /\ job[u].seen = NoRow

\* Nobody's addition is lost: an AddAndGetVariable that succeeds raises the value
\* that is there at that moment, whoever wrote it ("Atomic add-and-return",
\* tus_db.h:74), unless it timed out on the lock for a slot it saw unset.
AddCounts ==
  \A u \in Users : Lands(u) /\ job[u].kind = "add" /\ ~Unprotected(u) =>
    LET at == job[u].writes[1]
    IN  store'["variable"][at[1]].value = Value(store["variable"][at[1]]) + at[2]

\* What a conditional write replaces satisfies its author and date check and its
\* condition at the moment of the write, not only when they were looked at: for
\* all variables, and for data in the player's own slots.
GuardHolds ==
  \A u \in Users : Lands(u) /\ job[u].kind \in {"add", "try", "data"} =>
    LET key == job[u].writes[1][1]
        row == store[job[u].table][key]
    IN  /\ \/ job[u].kind = "data" /\ key[1] \in VirtualUsers
           \/ Passes(row, job[u].check)
        /\ job[u].kind = "try" /\ ~Unprotected(u) => Met(row, job[u].op, job[u].comparand)

\* What the i-th write of u's request leaves in its slot.
RowOf(u, i) ==
  IF job[u].kind = "delete" THEN NoRow
  ELSE [value |-> job[u].writes[i][2], changed |-> job[u].stamp, author |-> u]

\* Other players see all slots of a request change at once, when it is answered
\* NoError, each as the last write to it says, and never those of a request that
\* failed half-way (WriteTxn).
AllAtOnce ==
  store' # store => \E u \in Users :
    /\ Lands(u)
    /\ job[u].kind \in {"set", "delete"} => \A table \in Tables, key \in Keys :
         LET at == {i \in DOMAIN job[u].writes : job[u].writes[i][1] = key}
         IN  IF table # job[u].table \/ at = {}
             THEN store'[table][key] = store[table][key]
             ELSE \E i \in at : (\A j \in at : j <= i) /\ store'[table][key] = RowOf(u, i)

\* Nobody's addition is lost (tus_db.h:74), what a conditional write replaces satisfies
\* its conditions when it is written (tus_db.cpp:207), and a request over several slots
\* changes all of them at once or none (tus_db.cpp:500).
WritesSound == [][AddCounts /\ GuardHolds /\ AllAtOnce]_storageVars

\* Paging through one's friends shows each of them once, in the order asked
\* for, whatever the page size (startOffset and the cap of 100).  It is enough to look
\* when something was answered: the tables change in no other step.
PagesCover ==
  answer # NoAnswer =>
    \A u \in Users, slot \in Slots, sorttype \in 1 .. 4 :
      LET found == Selected(u, TRUE, "variable", slot)
          rows == SortedFriends(found, sorttype)
      IN  /\ \A r \in found : \E i \in DOMAIN rows : rows[i] = r
          /\ \A i, j \in DOMAIN rows : i < j => Precedes(rows[i], rows[j], sorttype)
          /\ \A i \in DOMAIN rows, max \in 0 .. TusMaxSelectedFriends :
               LET size == Len(FriendsPage(rows, 0, max))
                   page == FriendsPage(rows, ((i - 1) \div size) * size, max)
                   at == ((i - 1) % size) + 1
               IN  at <= Len(page) /\ rows[i] = page[at]
=============================================================================
