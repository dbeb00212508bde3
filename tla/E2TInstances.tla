---------------------------- MODULE E2TInstances ----------------------------
(***************************************************************************)
(* The E2 Manager's registry of E2 Terminations (E2Ts): the records and    *)
(* the address list it keeps in the R-NIB database, and every writer of    *)
(* them, interleaved at the granularity of one database call.              *)
(*                                                                         *)
(*   managers/e2t_instances_manager.go   the operations, under one mutex   *)
(*   managers/e2t_shutdown_manager.go    the one writer that saves a       *)
(*                                       record WITHOUT taking the mutex   *)
(*   managers/e2t_keep_alive_worker.go   the only caller of Shutdown       *)
(*   app/main.go                         the boot-time reset               *)
(*                                                                         *)
(* A goroutine (an element of Proc) performs one operation at a time.  Its *)
(* pc says which database call comes next; snap and asnap are the copies   *)
(* of database values it holds in local variables.  Taking the mutex is    *)
(* merged with the first database call made under it.                      *)
(***************************************************************************)
EXTENDS Naturals, FiniteSets

CONSTANTS
  E2T,            \* E2T addresses
  Ran,            \* RAN names (InventoryName)
  Proc,           \* goroutines of the E2 Manager
  Worker,         \* the keep-alive worker goroutine, a member of Proc
  NoProc,         \* the mutex is free
  NoInst,         \* no record under this key
  NoAddrs,        \* the E2TAddresses key does not exist yet
  Kinds,          \* the operations callers may issue
  KeepAliveTimeout,   \* KeepAliveResponseTimeoutMs, in ticks
  DeletionTimeout,    \* E2TInstanceDeletionTimeoutMs, in ticks
  MaxClock, MaxCalls, MaxFaults, MaxCrashes   \* bounds on the environment

States == {"Active", "ToBeDeleted"}
RmwKinds == {"AddRan", "RemoveRan", "Reset", "SetState"}
AllKinds == RmwKinds \cup {"Add", "Clear", "Shutdown"}

\* AssociatedRanList is a bag: its order decides nothing, but AddRansToInstance
\* appends without looking for duplicates and RemoveRanFromInstance filters all.
RanBag  == [Ran -> Nat]
AddrBag == [E2T -> Nat]
Instance == [rans: RanBag, state: States, ts: Nat, dts: Nat]

ASSUME ConstantsOK ==
  /\ Worker \in Proc /\ NoProc \notin Proc
  /\ NoInst \notin Instance /\ NoAddrs \notin AddrBag
  /\ Kinds \subseteq AllKinds
  /\ {KeepAliveTimeout, DeletionTimeout, MaxClock, MaxCalls, MaxFaults,
      MaxCrashes} \subseteq Nat

Record == Instance \cup {NoInst}

\* what the worker keeps of an address during one round: the record it read,
\* how often the address was listed, and how many of these are still to handle
Turn == [copy: Record, times: Nat, left: Nat]

Op == [kind: {"Add", "Reset", "Shutdown"}, addr: E2T]
      \cup [kind: {"AddRan", "RemoveRan"}, addr: E2T, ran: Ran]
      \cup [kind: {"SetState"}, addr: E2T, from: States, to: States]
      \cup [kind: {"Clear"}]
NoOp == [kind |-> "None"]

\* program counters of a goroutine that holds the mutex
LockedPc == {"update", "getAddrs", "saveAddrs", "clearing"}
Pc == LockedPc \cup {"idle", "call", "mark", "nodebs", "remove", "ret"}

VARIABLES
  records,    \* R-NIB: E2TInstance record per address
  addresses,  \* R-NIB: the E2TAddresses list, as a bag
  mux,        \* the holder of E2TInstancesManager.mux
  pc, op, snap, asnap, res,   \* per goroutine
  round,      \* the worker's slice e2tInstances, per address
  booted,     \* ResetKeepAliveTimestampsForAllE2TInstances has run
  clock,      \* time.Now(), in ticks
  calls, faults, crashes      \* what the environment has spent of its bounds

db == <<records, addresses>>
threads == <<pc, op, snap, asnap, res>>
budget == <<calls, faults, crashes>>
vars == <<records, addresses, mux, pc, op, snap, asnap, res, round, booted, clock,
          calls, faults, crashes>>

NoRans == [r \in Ran |-> 0]
NoSnap == [a \in E2T |-> NoInst]
NoRound == [a \in E2T |-> [copy |-> NoInst, times |-> 0, left |-> 0]]
NewE2TInstance ==
  [rans |-> NoRans, state |-> "Active", ts |-> clock, dts |-> 0]

TypeOK ==
  /\ records \in [E2T -> Record]
  /\ addresses \in AddrBag \cup {NoAddrs}
  /\ mux \in Proc \cup {NoProc}
  /\ pc \in [Proc -> Pc]
  /\ op \in [Proc -> Op \cup {NoOp}]
  /\ snap \in [Proc -> [E2T -> Record]]
  /\ asnap \in [Proc -> AddrBag]
  /\ res \in [Proc -> {"none", "ok", "error"}]
  /\ round \in [E2T -> Turn]
  /\ booted \in BOOLEAN
  /\ clock \in 0..MaxClock
  /\ calls \in 0..MaxCalls /\ faults \in 0..MaxFaults /\ crashes \in 0..MaxCrashes

Init ==
  /\ records = NoSnap /\ addresses = NoAddrs
  /\ mux = NoProc
  /\ pc = [p \in Proc |-> "idle"] /\ op = [p \in Proc |-> NoOp]
  /\ snap = [p \in Proc |-> NoSnap]
  /\ asnap = [p \in Proc |-> [a \in E2T |-> 0]]
  /\ res = [p \in Proc |-> "none"]
  /\ round = NoRound /\ booted = FALSE /\ clock = 0
  /\ calls = 0 /\ faults = 0 /\ crashes = 0

AddrList == IF addresses = NoAddrs THEN [a \in E2T |-> 0] ELSE addresses
Listed(a) == AddrList[a] > 0

-----------------------------------------------------------------------------
(* Helpers *)

\* A database call that fails after the retries of rNibDataService.retry.
Fault == faults < MaxFaults /\ faults' = faults + 1

\* A failed write is either not applied, or applied with its reply lost.
SaveRecord(a, i) == records' = [records EXCEPT ![a] = i]
MaybeSaveRecord(a, i) == SaveRecord(a, i) \/ UNCHANGED records

Goto(p, l) == pc' = [pc EXCEPT ![p] = l]

\* Faulty variants, one per property: each is what a plausible mistake in the
\* code would be.  They are used by no definition of this module.
UnlockedUpdate(p) == op[p].kind \in RmwKinds \/ mux = NoProc
UnlockedRemove(p) == op[p].kind = "Shutdown" \/ mux = NoProc
UnlockedClear(p)  == op[p].kind = "Clear" \/ mux = NoProc
LockKeptOnError(p, r) ==
  /\ pc' = [pc EXCEPT ![p] = "ret"] /\ res' = [res EXCEPT ![p] = r]
  /\ snap' = [snap EXCEPT ![p] = NoSnap]
  /\ asnap' = [asnap EXCEPT ![p] = [a \in E2T |-> 0]]
  /\ mux' = IF mux = p /\ r = "ok" THEN NoProc ELSE mux
  /\ UNCHANGED op
FirstCopyOnly(o, i) == [i EXCEPT !.rans[o.ran] = @ - 1]
FirstCopyRemoved(p) ==
  [asnap[p] EXCEPT ![op[p].addr] = IF op[p].kind = "Add" THEN @ + 1 ELSE @ - 1]

\* mux.Lock() returns
CanLock(p) == mux = NoProc

\* every return path runs the deferred mux.Unlock() of a method that locked
Finish(p, r) ==
  /\ pc' = [pc EXCEPT ![p] = "ret"]
  /\ res' = [res EXCEPT ![p] = r]
  /\ snap' = [snap EXCEPT ![p] = NoSnap]
  /\ asnap' = [asnap EXCEPT ![p] = [a \in E2T |-> 0]]
  /\ mux' = IF mux = p THEN NoProc ELSE mux
  /\ UNCHANGED op

At(p, l, kinds) == pc[p] = l /\ op[p].kind \in kinds

WithoutRan(o, i) == [i EXCEPT !.rans[o.ran] = 0]

\* the record a read-modify-write operation saves in place of i
Updated(o, i) ==
  CASE o.kind = "AddRan"    -> [i EXCEPT !.rans[o.ran] = @ + 1]
    [] o.kind = "RemoveRan" -> WithoutRan(o, i)
    [] o.kind = "Reset"     -> [i EXCEPT !.ts = clock]
    [] o.kind = "SetState"  -> [i EXCEPT !.state = o.to,
                                         !.ts = IF o.to = "Active" THEN clock ELSE @]

\* the early returns between Get and Save
Ignores(o, i) ==
  \/ o.kind = "Reset" /\ i.state = "ToBeDeleted"
  \/ o.kind = "SetState" /\ i.state # o.from

Expired(i) == clock - i.ts > KeepAliveTimeout
AlreadyBeingDeleted(i) == i.state = "ToBeDeleted" /\ clock - i.dts <= DeletionTimeout
Marked(i) == [i EXCEPT !.state = "ToBeDeleted", !.dts = clock]
-----------------------------------------------------------------------------
(* A handler calls an operation and takes its result. *)

\* AddE2TInstance is only called after the caller has seen that no record
\* exists; the mutex does not cover that check.
Call(p, o) ==
  /\ booted /\ p # Worker /\ pc[p] = "idle"
  /\ o.kind \in Kinds \ {"Shutdown"}
  /\ o.kind = "Add" => records[o.addr] = NoInst
  /\ calls < MaxCalls /\ calls' = calls + 1
  /\ op' = [op EXCEPT ![p] = o]
  /\ Goto(p, "call")
  /\ UNCHANGED <<db, mux, snap, asnap, res, round, booted, clock, faults, crashes>>

\* the worker's slice is dropped at the end of its loop
Return(p) ==
  /\ pc[p] = "ret"
  /\ Goto(p, "idle")
  /\ op' = [op EXCEPT ![p] = NoOp]
  /\ res' = [res EXCEPT ![p] = "none"]
  /\ round' = IF p = Worker /\ \A a \in E2T : round[a].left = 0 THEN NoRound ELSE round
  /\ UNCHANGED <<db, mux, snap, asnap, booted, clock, budget>>
-----------------------------------------------------------------------------
(* AddRansToInstance, RemoveRanFromInstance, ResetKeepAliveTimestamp and   *)
(* SetE2tInstanceState: Lock; GetE2TInstance; SaveE2TInstance; Unlock.     *)

Load(p) ==
  /\ At(p, "call", RmwKinds) /\ CanLock(p)
  /\ LET o == op[p]
         i == records[o.addr]
     IN \/ /\ i # NoInst
           /\ ~Ignores(o, i)
           /\ mux' = p
           /\ snap' = [snap EXCEPT ![p][o.addr] = i]
           /\ Goto(p, "update")
           /\ UNCHANGED <<op, asnap, res, faults>>
        \/ i = NoInst /\ Finish(p, "error") /\ UNCHANGED faults
        \/ /\ i # NoInst
           /\ Ignores(o, i)
           /\ Finish(p, IF o.kind = "Reset" THEN "ok" ELSE "error")
           /\ UNCHANGED faults
        \/ Fault /\ Finish(p, "error")
  /\ UNCHANGED <<db, round, booted, clock, calls, crashes>>

SaveUpdate(p) ==
  /\ pc[p] = "update"
  /\ LET o == op[p]
         new == Updated(o, snap[p][o.addr])
     IN \/ SaveRecord(o.addr, new) /\ Finish(p, "ok") /\ UNCHANGED faults
        \/ Fault /\ MaybeSaveRecord(o.addr, new) /\ Finish(p, "error")
  /\ UNCHANGED <<addresses, round, booted, clock, calls, crashes>>
-----------------------------------------------------------------------------
(* ClearRansOfAllE2TInstances: a failed save is logged and the loop goes on *)

LoadAll(p) ==
  /\ At(p, "call", {"Clear"}) /\ CanLock(p)
  /\ LET all == [a \in E2T |-> IF Listed(a) THEN records[a] ELSE NoInst]
     IN \/ /\ all # NoSnap
           /\ mux' = p
           /\ snap' = [snap EXCEPT ![p] = all]
           /\ Goto(p, "clearing")
           /\ UNCHANGED <<op, asnap, res, faults>>
        \/ all = NoSnap /\ Finish(p, "ok") /\ UNCHANGED faults
        \/ Fault /\ Finish(p, "error")
  /\ UNCHANGED <<db, round, booted, clock, calls, crashes>>

SaveCleared(p) ==
  /\ pc[p] = "clearing"
  /\ \E a \in E2T :
       LET new  == [snap[p][a] EXCEPT !.rans = NoRans]
           rest == [snap[p] EXCEPT ![a] = NoInst]
       IN /\ snap[p][a] # NoInst
          /\ \/ SaveRecord(a, new) /\ UNCHANGED faults
             \/ Fault /\ MaybeSaveRecord(a, new)
          /\ \/ rest = NoSnap /\ Finish(p, "ok")
             \/ /\ rest # NoSnap
                /\ snap' = [snap EXCEPT ![p] = rest]
                /\ UNCHANGED <<mux, pc, op, asnap, res>>
  /\ UNCHANGED <<addresses, round, booted, clock, calls, crashes>>
-----------------------------------------------------------------------------
(* AddE2TInstance and RemoveE2TInstance: write the record, then the list.  *)

PutRecord(p, i) ==
  LET a == op[p].addr
  IN /\ CanLock(p)
     /\ \/ /\ SaveRecord(a, i)
           /\ mux' = p
           /\ Goto(p, "getAddrs")
           /\ UNCHANGED <<op, snap, asnap, res, faults>>
        \/ Fault /\ MaybeSaveRecord(a, i) /\ Finish(p, "error")
     /\ UNCHANGED <<addresses, round, booted, clock, calls, crashes>>

SaveNew(p) == At(p, "call", {"Add"}) /\ PutRecord(p, NewE2TInstance)

RemoveRecord(p) == pc[p] = "remove" /\ PutRecord(p, NoInst)

GetAddrs(p) ==
  /\ pc[p] = "getAddrs"
  /\ \/ /\ asnap' = [asnap EXCEPT ![p] = AddrList]
        /\ Goto(p, "saveAddrs")
        /\ UNCHANGED <<mux, op, snap, res, faults>>
     \/ Fault /\ Finish(p, "error")
  /\ UNCHANGED <<db, round, booted, clock, calls, crashes>>

\* append adds a copy, removeAddressFromList drops every copy
NewAddrs(p) ==
  [asnap[p] EXCEPT ![op[p].addr] = IF op[p].kind = "Add" THEN @ + 1 ELSE 0]

SaveAddrs(p) ==
  /\ pc[p] = "saveAddrs"
  /\ LET new == NewAddrs(p)
     IN \/ addresses' = new /\ Finish(p, "ok") /\ UNCHANGED faults
        \/ /\ Fault
           /\ addresses' = new \/ UNCHANGED addresses
           /\ Finish(p, "error")
  /\ UNCHANGED <<records, round, booted, clock, calls, crashes>>
-----------------------------------------------------------------------------
(* The keep-alive worker.  It reads all listed records without the mutex,  *)
(* then handles them one after the other, so that any number of steps of   *)
(* the handlers lies between the read of a record and its mark.  An        *)
(* address that is listed twice is read twice and handled twice.           *)

ReadForShutdown ==
  /\ booted /\ pc[Worker] = "idle" /\ "Shutdown" \in Kinds
  /\ \A a \in E2T : round[a].left = 0
  /\ \E a \in E2T : Listed(a) /\ records[a] # NoInst
  /\ round' = [a \in E2T |->
       IF Listed(a) /\ records[a] # NoInst
       THEN [copy |-> records[a], times |-> AddrList[a], left |-> AddrList[a]]
       ELSE NoRound[a]]
  /\ UNCHANGED <<db, mux, threads, booted, clock, budget>>

\* one turn of the loop over the slice
NextInstance(a) ==
  /\ booted /\ pc[Worker] = "idle" /\ round[a].left > 0
  /\ round' = [round EXCEPT ![a].left = @ - 1]
  /\ op' = [op EXCEPT ![Worker] = [kind |-> "Shutdown", addr |-> a]]
  /\ Goto(Worker, "mark")
  /\ UNCHANGED <<db, mux, snap, asnap, res, booted, clock, budget>>

\* E2TKeepAliveExpired's test, then Shutdown up to markE2tInstanceToBeDeleted,
\* which saves the worker's own copy of the record.
Mark(p) ==
  /\ pc[p] = "mark"
  /\ LET a == op[p].addr
         i == round[a].copy
     IN \/ /\ ~Expired(i) \/ AlreadyBeingDeleted(i)
           /\ Finish(p, "ok")
           /\ UNCHANGED <<records, faults>>
        \/ /\ Expired(i) /\ ~AlreadyBeingDeleted(i)
           /\ SaveRecord(a, Marked(i))
           /\ Goto(p, "nodebs")
           /\ UNCHANGED <<mux, op, snap, asnap, res, faults>>
        \/ /\ Expired(i) /\ ~AlreadyBeingDeleted(i)
           /\ Fault /\ MaybeSaveRecord(a, Marked(i))
           /\ Finish(p, "error")
  /\ UNCHANGED <<addresses, round, booted, clock, calls, crashes>>

\* clearNodebsAssociation touches no E2T key; an error ends the shutdown
NodebsCleared(p) ==
  /\ pc[p] = "nodebs"
  /\ \/ Goto(p, "remove") /\ UNCHANGED <<mux, op, snap, asnap, res, faults>>
     \/ Fault /\ Finish(p, "error")
  /\ UNCHANGED <<db, round, booted, clock, calls, crashes>>
-----------------------------------------------------------------------------
(* The process: time, crash and boot.  Only the database survives a crash. *)

Tick ==
  /\ clock < MaxClock /\ clock' = clock + 1
  /\ UNCHANGED <<db, mux, threads, round, booted, budget>>

Crash ==
  /\ booted /\ crashes < MaxCrashes /\ crashes' = crashes + 1
  /\ booted' = FALSE /\ mux' = NoProc
  /\ pc' = [p \in Proc |-> "idle"] /\ op' = [p \in Proc |-> NoOp]
  /\ snap' = [p \in Proc |-> NoSnap]
  /\ asnap' = [p \in Proc |-> [a \in E2T |-> 0]]
  /\ res' = [p \in Proc |-> "none"]
  /\ round' = NoRound
  /\ UNCHANGED <<db, clock, calls, faults>>

\* ResetKeepAliveTimestampsForAllE2TInstances runs before any other goroutine
\* is started; a failed read or save leaves the rest of the records alone.
Boot ==
  /\ ~booted /\ booted' = TRUE
  /\ LET active == {a \in E2T : /\ Listed(a) /\ records[a] # NoInst
                                /\ records[a].state = "Active"}
     IN \E done \in SUBSET active :
          /\ records' = [a \in E2T |-> IF a \in done
                                       THEN [records[a] EXCEPT !.ts = clock]
                                       ELSE records[a]]
          /\ \/ done = active /\ UNCHANGED faults
             \/ done # active /\ Fault
  /\ UNCHANGED <<addresses, mux, threads, round, clock, calls, crashes>>
\* no request in progress and none arriving: not a deadlock
Rest ==
  /\ booted /\ mux = NoProc /\ \A p \in Proc : pc[p] = "idle"
  /\ UNCHANGED vars
-----------------------------------------------------------------------------
Acquire(p) == Load(p) \/ LoadAll(p) \/ SaveNew(p) \/ RemoveRecord(p)
Continue(p) ==
  \/ SaveUpdate(p) \/ SaveCleared(p) \/ GetAddrs(p) \/ SaveAddrs(p)
  \/ Mark(p) \/ NodebsCleared(p) \/ Return(p)

Next ==
  \/ \E p \in Proc : Acquire(p) \/ Continue(p) \/ \E o \in Op : Call(p, o)
  \/ ReadForShutdown \/ \E a \in E2T : NextInstance(a)
  \/ Tick \/ Crash \/ Boot \/ Rest

Spec == Init /\ [][Next]_vars

\* Go's sync.Mutex hands itself to a starving waiter, so a goroutine that
\* waits for it gets it (strong fairness); the scheduler runs every goroutine
\* that can run.  Callers, time and the worker's ticker need no fairness here.
Fairness == /\ WF_vars(Boot)
            /\ \A p \in Proc : SF_vars(Acquire(p)) /\ WF_vars(Continue(p))
FairSpec == Spec /\ Fairness
-----------------------------------------------------------------------------
(* Properties *)

\* A record held by a locked operation is still what the database holds, or
\* the shutdown manager has marked it in the meantime: the mutex keeps the
\* other operations of E2TInstancesManager out, but markE2tInstanceToBeDeleted
\* saves without it (e2t_shutdown_manager.go:116).
Held(p, a) == pc[p] \in {"update", "clearing"} /\ snap[p][a] # NoInst
FreshOrMarked ==
  \A p \in Proc, a \in E2T :
    Held(p, a) =>
      \/ records[a] = snap[p][a]
      \/ records[a] # NoInst /\ records[a].state = "ToBeDeleted"

\* The record of an E2T and its entry in the address list are written by two
\* calls.  Outside a locked section every entry that has one without the
\* other was torn by a failed call or a crash.  A failed call tears at most one
\* entry, a crash the one being written and the one the worker is reviving:
\* the further copy of an E2T that was listed twice brings its record back,
\* until that shutdown removes it again.
Torn == {a \in E2T : Listed(a) # (records[a] # NoInst)}
Reviving == {a \in E2T : /\ pc[Worker] \in {"nodebs", "remove"} /\ op[Worker].addr = a
                         /\ round[a].times > 1}
TornEntriesBounded ==
  mux = NoProc => Cardinality(Torn \ Reviving) <= faults + 2 * crashes

\* The timestamp of an active E2T never moves backwards: no operation that
\* read the record before a keep-alive response writes the older timestamp
\* back (ResetKeepAliveTimestamp against AddRans, RemoveRan and Clear).
HeartbeatNotLost ==
  [][\A a \in E2T :
       (/\ records[a] # NoInst /\ records'[a] # NoInst
        /\ records'[a].state = "Active") => records'[a].ts >= records[a].ts]_vars

\* A record that was removed comes back only through AddE2TInstance: no
\* goroutine saves a copy it read before the removal.  The exception is the
\* worker's mark of an E2T whose address was listed more than once when it read
\* the list, which it handles once per copy (e2t_keep_alive_worker.go:71).
Marking(a) == pc[Worker] = "mark" /\ op[Worker].addr = a
NoResurrection ==
  [][\A a \in E2T : records[a] = NoInst /\ records'[a] # NoInst =>
       \/ \E p \in Proc : At(p, "call", {"Add"}) /\ op[p].addr = a
       \/ Marking(a) /\ round[a].times > 1]_vars

\* Without the shutdown manager's unlocked save, the manager implements the
\* registry: every save is an update of the record's current value, so that
\* no RAN is lost from AssociatedRanList and no timestamp either.
Registry == INSTANCE E2TRegistry WITH reg <- records, dir <- addresses, now <- clock
ImplementsRegistry == Registry!RegSpec

\* Every operation returns to its caller, whatever fails: each error path of
\* each locked method releases the mutex.
EveryCallReturns ==
  \A p \in Proc \ {Worker} : pc[p] = "call" ~> pc[p] = "idle"

\* A keep-alive response leaves an E2T alone once it is marked for deletion
\* (e2t_instances_manager.go:374, "Ignore. This Instance is about to be
\* deleted").
KeepAliveRespectsMark ==
  [][\A a \in E2T, p \in Proc :
       (/\ records[a] # NoInst /\ records[a].state = "ToBeDeleted"
        /\ At(p, "update", {"Reset"}) /\ op[p].addr = a /\ pc'[p] = "ret")
       => records'[a] = records[a]]_vars
-----------------------------------------------------------------------------
(* The invariant behind the properties, proved in E2TInstances_proofs *)

\* what each program counter says of the operation and of the copies held
ReadyFor(p, kinds) == op[p] \in Op /\ op[p].kind \in kinds
OpInv ==
  \A p \in Proc :
    /\ pc[p] \in {"idle", "call", "ret"} => snap[p] = NoSnap
    /\ pc[p] = "call" => ReadyFor(p, AllKinds \ {"Shutdown"})
    /\ pc[p] = "update" => ReadyFor(p, RmwKinds) /\ snap[p][op[p].addr] # NoInst
    /\ pc[p] = "clearing" => ReadyFor(p, {"Clear"})
    /\ pc[p] \in {"getAddrs", "saveAddrs"} =>
         ReadyFor(p, {"Add", "Shutdown"}) /\ (op[p].kind = "Shutdown" => p = Worker)
    /\ pc[p] \in {"mark", "nodebs", "remove"} => ReadyFor(p, {"Shutdown"}) /\ p = Worker

\* the goroutine between Lock and Unlock is the one that holds the mutex
LockInv == \A p \in Proc : pc[p] \in LockedPc <=> mux = p

BootInv == ~booted => mux = NoProc /\ \A p \in Proc : pc[p] = "idle"

\* the worker has a copy of each record it still has to handle, and counts it
\* as handled when it starts
RoundInv ==
  \A a \in E2T :
    /\ round[a].times > 0 => round[a].copy # NoInst
    /\ round[a].left <= round[a].times
    /\ pc[Worker] \in {"mark", "nodebs", "remove"} /\ op[Worker].addr = a
         => round[a].left < round[a].times

\* only the worker removes records, so one it read once and has not handled exists
Awaited(a) == round[a].times = 1 /\ (round[a].left > 0 \/ Marking(a))
MarkTarget == \A a \in E2T : Awaited(a) => records[a] # NoInst

IInv == TypeOK /\ OpInv /\ LockInv /\ BootInv /\ FreshOrMarked /\ RoundInv /\ MarkTarget

\* No timestamp lies in the future; the copies of the worker's round are no
\* newer than an active record or an active copy held under the mutex; and no
\* mark is newer than the active copy whose save will overwrite it.
Active(i) == i # NoInst /\ i.state = "Active"
TimeInv ==
  \A a \in E2T :
    /\ records[a] # NoInst => records[a].ts <= clock
    /\ round[a].copy # NoInst =>
         /\ round[a].copy.ts <= clock
         /\ Active(records[a]) => round[a].copy.ts <= records[a].ts
    /\ \A p \in Proc :
         /\ snap[p][a] # NoInst => snap[p][a].ts <= clock
         /\ Held(p, a) /\ Active(snap[p][a]) =>
              /\ records[a].ts <= snap[p][a].ts
              /\ round[a].copy # NoInst => round[a].copy.ts <= snap[p][a].ts

\* While AddE2TInstance or RemoveE2TInstance is between its two writes, its
\* entry is being mended: the list it holds is the current one and what it
\* will save agrees with the record.  All other torn entries are counted.
Listing == {q \in Proc : pc[q] \in {"getAddrs", "saveAddrs"}}
Mending == {op[q].addr : q \in Listing}
Uneven == Torn \ (Mending \cup Reviving)
Counted == IsFiniteSet(Uneven) /\ Cardinality(Uneven) <= faults + 2 * crashes
ListingInv ==
  /\ \A p \in Listing : (records[op[p].addr] # NoInst) = (op[p].kind = "Add")
  /\ \A p \in Proc : pc[p] = "saveAddrs" => asnap[p] = AddrList
TornInv == Counted /\ ListingInv

\* Without the worker's unlocked save, what an operation holds is what the
\* database holds, and the test between its Get and its Save still holds.
AtomicInv ==
  /\ \A p \in Proc : op[p].kind # "Shutdown"
  /\ \A a \in E2T : round[a].left = 0
  /\ \A p \in Proc, a \in E2T : Held(p, a) => records[a] = snap[p][a]
  /\ \A p \in Proc : pc[p] = "update" => ~Ignores(op[p], snap[p][op[p].addr])
=============================================================================
