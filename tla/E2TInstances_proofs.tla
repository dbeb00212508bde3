------------------------- MODULE E2TInstances_proofs -------------------------
(***************************************************************************)
(* Proofs about E2TInstances: type correctness, and the invariant of the   *)
(* mutex on which the other results rest.                                  *)
(***************************************************************************)
EXTENDS E2TInstances, TLAPS

LEMMA UpdatedType ==
  ASSUME NEW o \in Op, o.kind \in RmwKinds, NEW i \in Instance, clock \in Nat
  PROVE  Updated(o, i) \in Instance
<1> USE DEF Instance, RanBag, Op, RmwKinds, States
<1>1. CASE o.kind = "AddRan"
  <2>1. o.ran \in Ran  BY <1>1
  <2>2. Updated(o, i) = [i EXCEPT !.rans[o.ran] = @ + 1]  BY <1>1 DEF Updated
  <2> QED  BY <2>1, <2>2
<1>2. CASE o.kind = "RemoveRan"
  <2>1. o.ran \in Ran  BY <1>2
  <2>2. Updated(o, i) = [i EXCEPT !.rans[o.ran] = 0]  BY <1>2 DEF Updated, WithoutRan
  <2> QED  BY <2>1, <2>2
<1>3. CASE o.kind = "Reset"
  <2>1. Updated(o, i) = [i EXCEPT !.ts = clock]  BY <1>3 DEF Updated
  <2> QED  BY <2>1
<1>4. CASE o.kind = "SetState"
  <2>1. o.to \in States  BY <1>4
  <2>2. Updated(o, i) = [i EXCEPT !.state = o.to,
                                  !.ts = IF o.to = "Active" THEN clock ELSE @]
    BY <1>4 DEF Updated
  <2> QED  BY <2>1, <2>2
<1> QED  BY <1>1, <1>2, <1>3, <1>4

ThreadsType ==
  /\ mux \in Proc \cup {NoProc}
  /\ pc \in [Proc -> Pc]
  /\ op \in [Proc -> Op \cup {NoOp}]
  /\ snap \in [Proc -> [E2T -> Record]]
  /\ asnap \in [Proc -> AddrBag]
  /\ res \in [Proc -> {"none", "ok", "error"}]

BudgetType ==
  /\ round \in [E2T -> Turn]
  /\ booted \in BOOLEAN
  /\ clock \in 0..MaxClock
  /\ calls \in 0..MaxCalls /\ faults \in 0..MaxFaults /\ crashes \in 0..MaxCrashes

DbType ==
  /\ records \in [E2T -> Record]
  /\ addresses \in AddrBag \cup {NoAddrs}

LEMMA TypeParts == TypeOK <=> DbType /\ ThreadsType /\ BudgetType
BY DEF TypeOK, DbType, ThreadsType, BudgetType

LEMMA FinishType ==
  ASSUME ThreadsType, NEW p \in Proc, NEW r \in {"ok", "error"}, Finish(p, r)
  PROVE  ThreadsType'
<1>1. NoSnap \in [E2T -> Record]  BY DEF NoSnap, Record
<1>2. [a \in E2T |-> 0] \in AddrBag  BY DEF AddrBag
<1> QED  BY <1>1, <1>2 DEF ThreadsType, Finish, Pc

LEMMA GotoType ==
  ASSUME ThreadsType, NEW p \in Proc, NEW l \in Pc, Goto(p, l)
  PROVE  pc' \in [Proc -> Pc]
BY DEF ThreadsType, Goto

LEMMA FaultType ==
  ASSUME BudgetType
  PROVE  /\ Fault => faults' \in 0..MaxFaults
         /\ UNCHANGED faults => faults' \in 0..MaxFaults
BY ConstantsOK DEF BudgetType, Fault

LEMMA MaybeSaveType ==
  ASSUME DbType, NEW a \in E2T, NEW i \in Record, UNCHANGED addresses,
         SaveRecord(a, i) \/ MaybeSaveRecord(a, i)
  PROVE  DbType'
BY DEF DbType, SaveRecord, MaybeSaveRecord

LEMMA AddrListType == DbType => AddrList \in AddrBag
BY DEF DbType, AddrList, AddrBag
-----------------------------------------------------------------------------
LEMMA CallType ==
  ASSUME TypeOK, NEW p \in Proc, NEW o \in Op, Call(p, o)
  PROVE  TypeOK'
BY ConstantsOK DEF TypeOK, Call, Goto, Pc, db

LEMMA NoRoundType == NoRound \in [E2T -> Turn]
BY DEF NoRound, Turn, Record

LEMMA ReturnType ==
  ASSUME TypeOK, NEW p \in Proc, Return(p)
  PROVE  TypeOK'
<1>1. round' \in [E2T -> Turn]  BY NoRoundType DEF TypeOK, Return
<1> QED  BY <1>1 DEF TypeOK, Return, Goto, Pc, db, budget

LEMMA LoadType ==
  ASSUME TypeOK, NEW p \in Proc, Load(p)
  PROVE  TypeOK'
<1> DEFINE o == op[p]
           i == records[o.addr]
<1>1. DbType /\ ThreadsType /\ BudgetType  BY TypeParts
<1>2. o \in Op /\ o.addr \in E2T
  BY <1>1 DEF Load, At, ThreadsType, Op, NoOp, RmwKinds
<1>3. i \in Record  BY <1>1, <1>2 DEF DbType
<1>4. DbType'  BY <1>1 DEF Load, DbType, db
<1>5. BudgetType'  BY <1>1, FaultType DEF Load, BudgetType
<1>6. ThreadsType'
  <2>1. CASE /\ mux' = p
             /\ snap' = [snap EXCEPT ![p][o.addr] = i]
             /\ Goto(p, "update")
             /\ UNCHANGED <<op, asnap, res, faults>>
    BY <1>1, <1>2, <1>3, <2>1 DEF ThreadsType, Goto, Pc, LockedPc
  <2>2. CASE \E r \in {"ok", "error"} : Finish(p, r)
    BY <1>1, <2>2, FinishType
  <2> QED  BY <2>1, <2>2 DEF Load
<1> QED  BY <1>4, <1>5, <1>6 DEF TypeOK, DbType, ThreadsType, BudgetType

LEMMA SaveUpdateType ==
  ASSUME TypeOK, NEW p \in Proc, SaveUpdate(p), op[p] \in Op,
         op[p].kind \in RmwKinds, snap[p][op[p].addr] # NoInst
  PROVE  TypeOK'
<1> DEFINE o == op[p]
           new == Updated(o, snap[p][o.addr])
<1>1. DbType /\ ThreadsType /\ BudgetType  BY TypeParts
<1>2. o.addr \in E2T  BY DEF Op, RmwKinds
<1>3. new \in Record
  <2>1. snap[p][o.addr] \in Instance  BY <1>1, <1>2 DEF ThreadsType, Record
  <2>2. clock \in Nat  BY <1>1, ConstantsOK DEF BudgetType
  <2> QED  BY <2>1, <2>2, UpdatedType DEF Record
<1>4. /\ SaveRecord(o.addr, new) \/ MaybeSaveRecord(o.addr, new)
      /\ UNCHANGED addresses
  BY DEF SaveUpdate
<1>5. DbType'  BY <1>1, <1>2, <1>3, <1>4, MaybeSaveType
<1>6. ThreadsType'  BY <1>1, FinishType DEF SaveUpdate
<1>7. BudgetType'  BY <1>1, FaultType DEF SaveUpdate, BudgetType
<1> QED  BY <1>5, <1>6, <1>7 DEF TypeOK, DbType, ThreadsType, BudgetType

LEMMA LoadAllType ==
  ASSUME TypeOK, NEW p \in Proc, LoadAll(p)
  PROVE  TypeOK'
<1> DEFINE all == [a \in E2T |-> IF Listed(a) THEN records[a] ELSE NoInst]
<1>1. DbType /\ ThreadsType /\ BudgetType  BY TypeParts
<1>2. all \in [E2T -> Record]  BY <1>1 DEF DbType, Record
<1>3. DbType' /\ BudgetType'
  BY <1>1, FaultType DEF LoadAll, DbType, BudgetType, db
<1>4. ThreadsType'
  <2>1. CASE /\ mux' = p
             /\ snap' = [snap EXCEPT ![p] = all]
             /\ Goto(p, "clearing")
             /\ UNCHANGED <<op, asnap, res>>
    BY <1>1, <1>2, <2>1 DEF ThreadsType, Goto, Pc, LockedPc
  <2>2. CASE \E r \in {"ok", "error"} : Finish(p, r)
    BY <1>1, <2>2, FinishType
  <2> QED  BY <2>1, <2>2 DEF LoadAll
<1> QED  BY <1>3, <1>4 DEF TypeOK, DbType, ThreadsType, BudgetType

LEMMA SaveClearedType ==
  ASSUME TypeOK, NEW p \in Proc, SaveCleared(p)
  PROVE  TypeOK'
<1>1. DbType /\ ThreadsType /\ BudgetType  BY TypeParts
<1>2. PICK a \in E2T :
        LET new  == [snap[p][a] EXCEPT !.rans = NoRans]
            rest == [snap[p] EXCEPT ![a] = NoInst]
        IN /\ snap[p][a] # NoInst
           /\ \/ SaveRecord(a, new) /\ UNCHANGED faults
              \/ Fault /\ MaybeSaveRecord(a, new)
           /\ \/ rest = NoSnap /\ Finish(p, "ok")
              \/ /\ rest # NoSnap
                 /\ snap' = [snap EXCEPT ![p] = rest]
                 /\ UNCHANGED <<mux, pc, op, asnap, res>>
  BY DEF SaveCleared
<1> DEFINE new  == [snap[p][a] EXCEPT !.rans = NoRans]
           rest == [snap[p] EXCEPT ![a] = NoInst]
<1>3. new \in Record
  <2>1. snap[p][a] \in Instance  BY <1>1, <1>2 DEF ThreadsType, Record
  <2> QED  BY <2>1 DEF Instance, RanBag, NoRans, Record
<1>4. rest \in [E2T -> Record]  BY <1>1 DEF ThreadsType, Record
<1>5. DbType'
  <2>1. SaveRecord(a, new) \/ MaybeSaveRecord(a, new)  BY <1>2
  <2>2. UNCHANGED addresses  BY DEF SaveCleared
  <2> HIDE DEF new
  <2> QED  BY <1>1, <1>3, <2>1, <2>2, MaybeSaveType
<1>6. BudgetType'  BY <1>1, <1>2, FaultType DEF SaveCleared, BudgetType
<1>7. ThreadsType'
  <2>1. CASE Finish(p, "ok")  BY <1>1, <2>1, FinishType
  <2>2. CASE /\ snap' = [snap EXCEPT ![p] = rest]
             /\ UNCHANGED <<mux, pc, op, asnap, res>>
    BY <1>1, <1>4, <2>2 DEF ThreadsType
  <2> QED  BY <1>2, <2>1, <2>2
<1> QED  BY <1>5, <1>6, <1>7 DEF TypeOK, DbType, ThreadsType, BudgetType

LEMMA PutRecordType ==
  ASSUME TypeOK, NEW p \in Proc, NEW i \in Record, op[p].addr \in E2T,
         PutRecord(p, i)
  PROVE  TypeOK'
<1> DEFINE a == op[p].addr
<1>1. DbType /\ ThreadsType /\ BudgetType  BY TypeParts
<1>2. DbType'  BY <1>1, MaybeSaveType DEF PutRecord
<1>3. BudgetType'  BY <1>1, FaultType DEF PutRecord, BudgetType
<1>4. ThreadsType'
  <2>1. CASE /\ mux' = p
             /\ Goto(p, "getAddrs")
             /\ UNCHANGED <<op, snap, asnap, res>>
    BY <1>1, <2>1 DEF ThreadsType, Goto, Pc, LockedPc
  <2>2. CASE Finish(p, "error")  BY <1>1, <2>2, FinishType
  <2> QED  BY <2>1, <2>2 DEF PutRecord
<1> QED  BY <1>2, <1>3, <1>4 DEF TypeOK, DbType, ThreadsType, BudgetType

LEMMA NewInstanceType == BudgetType => NewE2TInstance \in Instance
BY ConstantsOK DEF BudgetType, NewE2TInstance, Instance, RanBag, NoRans, States

LEMMA GetAddrsType ==
  ASSUME TypeOK, NEW p \in Proc, GetAddrs(p)
  PROVE  TypeOK'
<1>1. DbType /\ ThreadsType /\ BudgetType  BY TypeParts
<1>2. AddrList \in AddrBag  BY <1>1, AddrListType
<1>3. DbType' /\ BudgetType'
  BY <1>1, FaultType DEF GetAddrs, DbType, BudgetType, db
<1>4. ThreadsType'
  <2>1. CASE /\ asnap' = [asnap EXCEPT ![p] = AddrList]
             /\ Goto(p, "saveAddrs")
             /\ UNCHANGED <<mux, op, snap, res>>
    BY <1>1, <1>2, <2>1 DEF ThreadsType, Goto, Pc, LockedPc
  <2>2. CASE Finish(p, "error")  BY <1>1, <2>2, FinishType
  <2> QED  BY <2>1, <2>2 DEF GetAddrs
<1> QED  BY <1>3, <1>4 DEF TypeOK, DbType, ThreadsType, BudgetType

LEMMA SaveAddrsType ==
  ASSUME TypeOK, NEW p \in Proc, SaveAddrs(p)
  PROVE  TypeOK'
<1>1. DbType /\ ThreadsType /\ BudgetType  BY TypeParts
<1>2. NewAddrs(p) \in AddrBag
  <2> DEFINE a == op[p].addr
             n == IF op[p].kind = "Add" THEN asnap[p][a] + 1 ELSE 0
  <2>1. asnap[p] \in [E2T -> Nat]  BY <1>1 DEF ThreadsType, AddrBag
  <2>2. a \in E2T => n \in Nat  BY <2>1
  <2>3. NewAddrs(p) = [asnap[p] EXCEPT ![a] = n]  BY DEF NewAddrs
  <2> HIDE DEF n
  <2> QED  BY <2>1, <2>2, <2>3 DEF AddrBag
<1>3. DbType'  BY <1>1, <1>2 DEF SaveAddrs, DbType
<1>4. ThreadsType'  BY <1>1, FinishType DEF SaveAddrs
<1>5. BudgetType'  BY <1>1, FaultType DEF SaveAddrs, BudgetType
<1> QED  BY <1>3, <1>4, <1>5 DEF TypeOK, DbType, ThreadsType, BudgetType

LEMMA ReadForShutdownType ==
  ASSUME TypeOK, ReadForShutdown
  PROVE  TypeOK'
<1>1. AddrList \in [E2T -> Nat]
  BY AddrListType DEF TypeOK, DbType, AddrBag
<1>2. \A a \in E2T : [copy |-> records[a], times |-> AddrList[a],
                       left |-> AddrList[a]] \in Turn
  BY <1>1 DEF TypeOK, Turn
<1>3. round' \in [E2T -> Turn]
  BY <1>2, NoRoundType DEF ReadForShutdown
<1> QED  BY <1>3 DEF TypeOK, ReadForShutdown, db, threads, budget

LEMMA NextInstanceType ==
  ASSUME TypeOK, NEW a \in E2T, NextInstance(a)
  PROVE  TypeOK'
<1>1. [kind |-> "Shutdown", addr |-> a] \in Op  BY DEF Op
<1>2. Worker \in Proc  BY ConstantsOK
<1>3. round' \in [E2T -> Turn]
  <2>1. round[a] \in Turn /\ round[a].left \in Nat /\ round[a].left > 0
    BY DEF TypeOK, Turn, NextInstance
  <2>2. [round[a] EXCEPT !.left = @ - 1] \in Turn  BY <2>1 DEF Turn
  <2>3. round' = [round EXCEPT ![a] = [round[a] EXCEPT !.left = @ - 1]]
    BY DEF NextInstance, TypeOK
  <2> QED  BY <2>2, <2>3 DEF TypeOK
<1> QED  BY <1>1, <1>2, <1>3 DEF TypeOK, NextInstance, Goto, Pc, db, budget

LEMMA MarkType ==
  ASSUME TypeOK, NEW p \in Proc, Mark(p), op[p].addr \in E2T,
         round[op[p].addr].copy # NoInst
  PROVE  TypeOK'
<1> DEFINE a == op[p].addr
           i == round[a].copy
<1>1. DbType /\ ThreadsType /\ BudgetType  BY TypeParts
<1>2. Marked(i) \in Record
  <2>1. i \in Instance  BY <1>1 DEF BudgetType, Turn, Record
  <2>2. clock \in Nat  BY <1>1, ConstantsOK DEF BudgetType
  <2> QED  BY <2>1, <2>2 DEF Marked, Instance, Record, States
<1>3. DbType'
  <2>1. UNCHANGED records \/ SaveRecord(a, Marked(i)) \/ MaybeSaveRecord(a, Marked(i))
    BY DEF Mark
  <2>2. UNCHANGED addresses  BY DEF Mark
  <2>3. CASE UNCHANGED records  BY <1>1, <2>2, <2>3 DEF DbType
  <2> QED  BY <1>1, <1>2, <2>1, <2>2, <2>3, MaybeSaveType
<1>4. BudgetType'  BY <1>1, FaultType DEF Mark, BudgetType
<1>5. ThreadsType'
  <2>1. CASE Goto(p, "nodebs") /\ UNCHANGED <<mux, op, snap, asnap, res>>
    BY <1>1, <2>1 DEF ThreadsType, Goto, Pc
  <2>2. CASE \E r \in {"ok", "error"} : Finish(p, r)
    BY <1>1, <2>2, FinishType
  <2> QED  BY <2>1, <2>2 DEF Mark
<1> QED  BY <1>3, <1>4, <1>5 DEF TypeOK, DbType, ThreadsType, BudgetType

LEMMA NodebsClearedType ==
  ASSUME TypeOK, NEW p \in Proc, NodebsCleared(p)
  PROVE  TypeOK'
<1>1. DbType /\ ThreadsType /\ BudgetType  BY TypeParts
<1>2. DbType' /\ BudgetType'
  BY <1>1, FaultType DEF NodebsCleared, DbType, BudgetType, db
<1>3. ThreadsType'
  <2>1. CASE Goto(p, "remove") /\ UNCHANGED <<mux, op, snap, asnap, res>>
    BY <1>1, <2>1 DEF ThreadsType, Goto, Pc
  <2>2. CASE Finish(p, "error")  BY <1>1, <2>2, FinishType
  <2> QED  BY <2>1, <2>2 DEF NodebsCleared
<1> QED  BY <1>2, <1>3 DEF TypeOK, DbType, ThreadsType, BudgetType

LEMMA ProcessStepType ==
  ASSUME TypeOK, Tick \/ Crash \/ Boot \/ Rest
  PROVE  TypeOK'
<1>1. CASE Tick  BY <1>1, ConstantsOK DEF TypeOK, Tick, db, threads, budget
<1>2. CASE Crash
  <2>1. NoSnap \in [E2T -> Record] /\ [a \in E2T |-> 0] \in AddrBag
    BY DEF NoSnap, Record, AddrBag
  <2>2. DbType'  BY <1>2, TypeParts DEF DbType, Crash, db
  <2>3. ThreadsType'
    BY <1>2, <2>1 DEF ThreadsType, Crash, Pc
  <2>4. BudgetType'
    <3>1. MaxCrashes \in Nat  BY ConstantsOK
    <3>2. crashes' \in 0..MaxCrashes  BY <1>2, <3>1, TypeParts DEF BudgetType, Crash
    <3>3. UNCHANGED <<clock, calls, faults>> /\ booted' = FALSE /\ round' = NoRound
      BY <1>2 DEF Crash
    <3> QED  BY <3>2, <3>3, NoRoundType, TypeParts DEF BudgetType
  <2> QED  BY <2>2, <2>3, <2>4 DEF TypeOK, DbType, ThreadsType, BudgetType
<1>3. CASE Boot
  <2>1. PICK done \in SUBSET {a \in E2T : /\ Listed(a) /\ records[a] # NoInst
                                         /\ records[a].state = "Active"} :
          records' = [a \in E2T |-> IF a \in done
                                    THEN [records[a] EXCEPT !.ts = clock]
                                    ELSE records[a]]
    BY <1>3 DEF Boot
  <2>2. clock \in Nat  BY ConstantsOK DEF TypeOK
  <2>3. \A a \in done : [records[a] EXCEPT !.ts = clock] \in Instance
    BY <2>1, <2>2 DEF TypeOK, Record, Instance
  <2>4. records' \in [E2T -> Record]  BY <2>1, <2>3 DEF TypeOK, Record
  <2>5. faults' \in 0..MaxFaults  BY <1>3, FaultType DEF Boot, TypeOK, BudgetType
  <2> QED  BY <1>3, <2>4, <2>5 DEF Boot, TypeOK, threads
<1>4. CASE Rest  BY <1>4 DEF TypeOK, Rest, vars
<1> QED  BY <1>1, <1>2, <1>3, <1>4
-----------------------------------------------------------------------------
(* The invariant of the mutex.  Most steps end their operation (Finish);   *)
(* for those one lemma says what the write they make must leave intact.    *)

Others(p) == Proc \ {p}

\* what a goroutine may do to the records under the eyes of the other ones
Respects(p) ==
  /\ \A q \in Others(p), a \in E2T :
       Held(q, a) => \/ records'[a] = records[a]
                     \/ records'[a] # NoInst /\ records'[a].state = "ToBeDeleted"
  /\ \A a \in E2T :
       round[a].times = 1 /\ (round[a].left > 0 \/ (Marking(a) /\ p # Worker))
         => records'[a] # NoInst

LEMMA UntouchedRespects ==
  ASSUME IInv, NEW p \in Proc, UNCHANGED records
  PROVE  Respects(p)
BY DEF Respects, IInv, FreshOrMarked, MarkTarget, Awaited

LEMMA RunningMeansBooted ==
  ASSUME IInv, NEW p \in Proc, pc[p] # "idle"
  PROVE  booted
BY DEF IInv, BootInv

\* a goroutine that runs between Lock and Unlock runs alone
LEMMA HolderIsAlone ==
  ASSUME IInv, NEW p \in Proc, mux \in {p, NoProc}
  PROVE  \A q \in Others(p), a \in E2T : ~Held(q, a)
BY ConstantsOK DEF IInv, LockInv, LockedPc, Others, Held

\* the two ways to respect the others: hold the mutex, or leave what they hold
LEMMA HolderRespects ==
  ASSUME IInv, NEW p \in Proc, mux \in {p, NoProc},
         \A a \in E2T : records[a] # NoInst => records'[a] # NoInst
  PROVE  Respects(p)
<1>1. \A q \in Others(p), a \in E2T : ~Held(q, a)  BY HolderIsAlone
<1> QED  BY <1>1 DEF Respects, IInv, MarkTarget, Awaited

LEMMA FinishInv ==
  ASSUME IInv, TypeOK', NEW p \in Proc, NEW r \in {"ok", "error"}, Finish(p, r),
         UNCHANGED <<round, booted>>, pc[p] # "idle", Respects(p)
  PROVE  IInv'
<1> USE DEF IInv
<1>1. booted'  BY RunningMeansBooted
<1>2. /\ pc'[p] = "ret"
      /\ \A q \in Others(p) : pc'[q] = pc[q] /\ snap'[q] = snap[q]
      /\ op' = op /\ mux' = IF mux = p THEN NoProc ELSE mux
      /\ snap'[p] = NoSnap
  BY DEF Finish, TypeOK, Others
<1>3. OpInv'  BY <1>2 DEF OpInv, ReadyFor, Others
<1>4. LockInv'  BY <1>2, ConstantsOK DEF LockInv, LockedPc, Others
<1>5. BootInv'  BY <1>1 DEF BootInv
<1>6. FreshOrMarked'
  BY <1>2 DEF FreshOrMarked, Held, Respects, Others
<1>7. MarkTarget'
  BY <1>2, ConstantsOK DEF MarkTarget, Awaited, Marking, Respects, Others
<1>8. RoundInv'  BY <1>2, ConstantsOK DEF RoundInv, Others
<1> QED  BY <1>3, <1>4, <1>5, <1>6, <1>7, <1>8

LEMMA CallInv ==
  ASSUME IInv, NEW p \in Proc, NEW o \in Op, Call(p, o)
  PROVE  IInv'
<1> USE DEF IInv
<1>1. TypeOK'  BY CallType
<1>2. /\ pc' = [pc EXCEPT ![p] = "call"] /\ pc[p] = "idle" /\ p # Worker
      /\ op' = [op EXCEPT ![p] = o] /\ o.kind \in AllKinds \ {"Shutdown"}
      /\ UNCHANGED <<records, mux, snap, round, booted>> /\ booted
  BY ConstantsOK DEF Call, Goto, db
<1>3. OpInv'  BY <1>2 DEF OpInv, ReadyFor, TypeOK
<1>4. LockInv' /\ BootInv'  BY <1>2 DEF LockInv, LockedPc, BootInv, TypeOK
<1>5. FreshOrMarked'  BY <1>2 DEF FreshOrMarked, Held, TypeOK
<1>6. MarkTarget' /\ RoundInv'
  BY <1>2, ConstantsOK DEF MarkTarget, Awaited, Marking, RoundInv, TypeOK
<1> QED  BY <1>1, <1>3, <1>4, <1>5, <1>6

LEMMA ReturnInv ==
  ASSUME IInv, NEW p \in Proc, Return(p)
  PROVE  IInv'
<1> USE DEF IInv
<1>1. TypeOK'  BY ReturnType
<1>2. /\ pc' = [pc EXCEPT ![p] = "idle"] /\ pc[p] = "ret"
      /\ op' = [op EXCEPT ![p] = NoOp]
      /\ round' \in {round, NoRound}
      /\ UNCHANGED <<records, mux, snap, booted>>
  BY DEF Return, Goto, db
<1>3. OpInv'  BY <1>2 DEF OpInv, ReadyFor, TypeOK
<1>4. LockInv' /\ BootInv'  BY <1>2 DEF LockInv, LockedPc, BootInv, TypeOK
<1>5. FreshOrMarked'  BY <1>2 DEF FreshOrMarked, Held, TypeOK
<1>6. MarkTarget' /\ RoundInv'
  <2>1. \/ pc'[Worker] = pc[Worker] /\ op'[Worker] = op[Worker]
        \/ pc'[Worker] = "idle"
    BY <1>2, ConstantsOK DEF TypeOK
  <2>2. CASE round' = round
    BY <1>2, <2>1, <2>2 DEF MarkTarget, Awaited, Marking, RoundInv
  <2>3. CASE round' = NoRound
    <3>1. p = Worker \/ round' = round  BY DEF Return
    <3>2. CASE p = Worker
      BY <1>2, <2>3, <3>2, ConstantsOK
      DEF MarkTarget, Awaited, RoundInv, NoRound, TypeOK
    <3> QED  BY <2>2, <3>1, <3>2
  <2> QED  BY <1>2, <2>2, <2>3
<1> QED  BY <1>1, <1>3, <1>4, <1>5, <1>6

LEMMA LoadInv ==
  ASSUME IInv, NEW p \in Proc, Load(p)
  PROVE  IInv'
<1> USE DEF IInv
<1> DEFINE o == op[p]
           i == records[o.addr]
<1>1. TypeOK'  BY LoadType
<1>2. /\ pc[p] = "call" /\ mux = NoProc /\ o \in Op /\ o.kind \in RmwKinds
      /\ snap[p] = NoSnap /\ UNCHANGED <<records, round, booted>>
  BY DEF Load, At, CanLock, db, OpInv, ReadyFor
<1>3. booted  BY <1>2, RunningMeansBooted
<1>4. CASE /\ i # NoInst /\ mux' = p
           /\ snap' = [snap EXCEPT ![p][o.addr] = i]
           /\ Goto(p, "update") /\ op' = op
  <2>1. /\ pc' = [pc EXCEPT ![p] = "update"] /\ o.addr \in E2T
    BY <1>2, <1>4 DEF Goto, Op, RmwKinds
  <2>2. /\ \A q \in Others(p) : pc'[q] = pc[q] /\ snap'[q] = snap[q]
        /\ pc'[p] = "update" /\ snap'[p] = [NoSnap EXCEPT ![o.addr] = i]
    BY <1>2, <1>4, <2>1 DEF TypeOK, Others
  <2>3. \A q \in Others(p), a \in E2T : ~Held(q, a)  BY <1>2, HolderIsAlone
  <2>4. OpInv'  BY <1>2, <1>4, <2>1, <2>2 DEF OpInv, ReadyFor, Others, NoSnap
  <2>5. LockInv' /\ BootInv'
    BY <1>2, <1>3, <1>4, <2>2, ConstantsOK DEF LockInv, LockedPc, BootInv, Others
  <2>6. FreshOrMarked'
    BY <1>2, <2>1, <2>2, <2>3 DEF FreshOrMarked, Held, Others, NoSnap
  <2>7. MarkTarget' /\ RoundInv'
    BY <1>2, <1>4, <2>2, ConstantsOK DEF MarkTarget, Awaited, Marking, RoundInv, Others
  <2> QED  BY <1>1, <2>4, <2>5, <2>6, <2>7
<1>5. CASE \E r \in {"ok", "error"} : Finish(p, r)
  BY <1>1, <1>2, <1>5, UntouchedRespects, FinishInv
<1> QED  BY <1>4, <1>5 DEF Load

LEMMA LoadAllInv ==
  ASSUME IInv, NEW p \in Proc, LoadAll(p)
  PROVE  IInv'
<1> USE DEF IInv
<1> DEFINE all == [a \in E2T |-> IF Listed(a) THEN records[a] ELSE NoInst]
<1>1. TypeOK'  BY LoadAllType
<1>2. /\ pc[p] = "call" /\ op[p].kind = "Clear" /\ mux = NoProc
      /\ op[p] \in Op /\ UNCHANGED <<records, round, booted>>
  BY DEF LoadAll, At, CanLock, db, OpInv, ReadyFor
<1>3. booted  BY <1>2, RunningMeansBooted
<1>4. CASE /\ mux' = p /\ snap' = [snap EXCEPT ![p] = all]
           /\ Goto(p, "clearing") /\ op' = op
  <2>1. /\ \A q \in Others(p) : pc'[q] = pc[q] /\ snap'[q] = snap[q]
        /\ pc'[p] = "clearing" /\ snap'[p] = all
    BY <1>4 DEF TypeOK, Others, Goto
  <2>2. \A q \in Others(p), a \in E2T : ~Held(q, a)  BY <1>2, HolderIsAlone
  <2>3. OpInv'  BY <1>2, <1>4, <2>1 DEF OpInv, ReadyFor, Others
  <2>4. LockInv' /\ BootInv'
    BY <1>2, <1>3, <1>4, <2>1, ConstantsOK DEF LockInv, LockedPc, BootInv, Others
  <2>5. FreshOrMarked'
    BY <1>2, <2>1, <2>2 DEF FreshOrMarked, Held, Others
  <2>6. MarkTarget' /\ RoundInv'
    BY <1>2, <1>4, <2>1, ConstantsOK DEF MarkTarget, Awaited, Marking, RoundInv, Others
  <2> QED  BY <1>1, <2>3, <2>4, <2>5, <2>6
<1>5. CASE \E r \in {"ok", "error"} : Finish(p, r)
  BY <1>1, <1>2, <1>5, UntouchedRespects, FinishInv
<1> QED  BY <1>4, <1>5 DEF LoadAll

\* every operation that saves a record saves an instance, never NoInst
LEMMA UpdateSavesInstance ==
  ASSUME IInv, NEW p \in Proc, pc[p] = "update"
  PROVE  /\ op[p] \in Op /\ op[p].kind \in RmwKinds /\ op[p].addr \in E2T
         /\ snap[p][op[p].addr] \in Instance
         /\ Updated(op[p], snap[p][op[p].addr]) \in Instance
<1>1. op[p] \in Op /\ op[p].kind \in RmwKinds /\ snap[p][op[p].addr] # NoInst
  BY DEF IInv, OpInv, ReadyFor
<1>2. op[p].addr \in E2T  BY <1>1 DEF Op, RmwKinds
<1>3. snap[p][op[p].addr] \in Instance  BY <1>1, <1>2 DEF IInv, TypeOK, Record
<1>4. clock \in Nat  BY ConstantsOK DEF IInv, TypeOK
<1> QED  BY <1>1, <1>2, <1>3, <1>4, UpdatedType

LEMMA SaveUpdateInv ==
  ASSUME IInv, NEW p \in Proc, SaveUpdate(p)
  PROVE  IInv'
<1> DEFINE o == op[p]
           new == Updated(o, snap[p][o.addr])
<1>1. pc[p] = "update" /\ UNCHANGED <<round, booted>>  BY DEF SaveUpdate
<1>2. o \in Op /\ o.kind \in RmwKinds /\ o.addr \in E2T /\ new \in Instance
      /\ snap[p][o.addr] \in Instance
  BY <1>1, UpdateSavesInstance
<1>3. TypeOK'  BY <1>2, SaveUpdateType, ConstantsOK DEF IInv
<1>4. mux = p  BY <1>1 DEF IInv, LockInv, LockedPc
<1>5. records' = [records EXCEPT ![o.addr] = new] \/ UNCHANGED records
  BY DEF SaveUpdate, SaveRecord, MaybeSaveRecord
<1>6. \A a \in E2T : records[a] # NoInst => records'[a] # NoInst
  <2> HIDE DEF new
  <2> QED  BY <1>2, <1>5, ConstantsOK DEF IInv, TypeOK
<1>7. PICK r \in {"ok", "error"} : Finish(p, r)  BY DEF SaveUpdate
<1> QED  BY <1>1, <1>3, <1>4, <1>6, <1>7, HolderRespects, FinishInv

LEMMA SaveClearedInv ==
  ASSUME IInv, NEW p \in Proc, SaveCleared(p)
  PROVE  IInv'
<1>1. PICK a \in E2T :
        LET new  == [snap[p][a] EXCEPT !.rans = NoRans]
            rest == [snap[p] EXCEPT ![a] = NoInst]
        IN /\ snap[p][a] # NoInst
           /\ \/ SaveRecord(a, new) /\ UNCHANGED faults
              \/ Fault /\ MaybeSaveRecord(a, new)
           /\ \/ rest = NoSnap /\ Finish(p, "ok")
              \/ /\ rest # NoSnap
                 /\ snap' = [snap EXCEPT ![p] = rest]
                 /\ UNCHANGED <<mux, pc, op, asnap, res>>
  BY DEF SaveCleared
<1> DEFINE new  == [snap[p][a] EXCEPT !.rans = NoRans]
           rest == [snap[p] EXCEPT ![a] = NoInst]
<1>2. TypeOK'  BY SaveClearedType DEF IInv
<1>3. pc[p] = "clearing" /\ mux = p /\ UNCHANGED <<round, booted>>
  BY DEF SaveCleared, IInv, LockInv, LockedPc
<1>4. new \in Instance
  <2>1. snap[p][a] \in Instance  BY <1>1 DEF IInv, TypeOK, Record
  <2> QED  BY <2>1 DEF Instance, RanBag, NoRans
<1>5. records' = [records EXCEPT ![a] = new] \/ UNCHANGED records
  BY <1>1 DEF SaveRecord, MaybeSaveRecord
<1> HIDE DEF new
<1>6. \A b \in E2T : /\ records[b] # NoInst => records'[b] # NoInst
                     /\ b # a => records'[b] = records[b]
  BY <1>4, <1>5, ConstantsOK DEF IInv, TypeOK
<1>7. Respects(p)  BY <1>3, <1>6, HolderRespects
<1>8. CASE Finish(p, "ok")  BY <1>2, <1>3, <1>7, <1>8, FinishInv
<1>9. CASE snap' = [snap EXCEPT ![p] = rest] /\ UNCHANGED <<mux, pc, op>>
  <2> USE DEF IInv
  <2>1. /\ \A q \in Others(p) : snap'[q] = snap[q]
        /\ snap'[p] = rest
    BY <1>9 DEF TypeOK, Others
  <2>2. OpInv'  BY <1>3, <1>9, <2>1 DEF OpInv, ReadyFor, Others
  <2>3. LockInv' /\ BootInv'  BY <1>3, <1>9 DEF LockInv, BootInv
  <2>4. \A q \in Others(p), b \in E2T : ~Held(q, b)  BY <1>3, HolderIsAlone
  <2>5. \A b \in E2T : rest[b] # NoInst => b # a /\ rest[b] = snap[p][b]
    BY DEF TypeOK
  <2>6. FreshOrMarked'
    BY <1>3, <1>6, <1>9, <2>1, <2>4, <2>5 DEF FreshOrMarked, Held, Others
  <2>7. MarkTarget' /\ RoundInv'
    BY <1>3, <1>6, <1>9 DEF MarkTarget, Awaited, Marking, RoundInv
  <2> QED  BY <1>2, <2>2, <2>3, <2>6, <2>7
<1> QED  BY <1>1, <1>8, <1>9

\* a step that only moves p's program counter
LEMMA MoveInv ==
  ASSUME IInv, TypeOK', NEW p \in Proc, NEW l \in Pc, Goto(p, l),
         pc[p] # "idle", UNCHANGED <<op, snap, round, booted>>, Respects(p),
         \/ l = "saveAddrs" /\ pc[p] = "getAddrs" /\ UNCHANGED mux
         \/ /\ l = "getAddrs" /\ mux = NoProc /\ mux' = p
            /\ ReadyFor(p, {"Add", "Shutdown"}) /\ (op[p].kind = "Shutdown" => p = Worker)
         \/ l = "nodebs" /\ pc[p] = "mark" /\ UNCHANGED mux
         \/ l = "remove" /\ pc[p] = "nodebs" /\ UNCHANGED mux
  PROVE  IInv'
<1> USE DEF IInv
<1>1. booted'  BY RunningMeansBooted
<1>2. /\ pc'[p] = l
      /\ \A q \in Others(p) : pc'[q] = pc[q]
  BY DEF Goto, TypeOK, Others
<1>3. OpInv'  BY <1>2 DEF OpInv, ReadyFor, Others
<1>4. LockInv' /\ BootInv'
  BY <1>1, <1>2, ConstantsOK DEF LockInv, LockedPc, BootInv, Others
<1>5. FreshOrMarked'  BY <1>2 DEF FreshOrMarked, Held, Respects, Others
<1>6. MarkTarget'
  BY <1>2, ConstantsOK DEF MarkTarget, Awaited, Marking, Respects, Others
<1>7. RoundInv'  BY <1>2, ConstantsOK DEF RoundInv, Others
<1> QED  BY <1>3, <1>4, <1>5, <1>6, <1>7

LEMMA PutRecordInv ==
  ASSUME IInv, NEW p \in Proc, NEW i \in Record, PutRecord(p, i),
         ReadyFor(p, {"Add", "Shutdown"}), op[p].kind = "Shutdown" => p = Worker,
         pc[p] # "idle", i = NoInst => p = Worker /\ pc[p] = "remove"
  PROVE  IInv'
<1> USE DEF IInv
<1> DEFINE a == op[p].addr
<1>1. a \in E2T  BY DEF ReadyFor, Op
<1>2. TypeOK'  BY <1>1, PutRecordType
<1>3. mux = NoProc /\ UNCHANGED <<round, booted>>  BY DEF PutRecord, CanLock
<1>4. records' = [records EXCEPT ![a] = i] \/ UNCHANGED records
  BY DEF PutRecord, SaveRecord, MaybeSaveRecord
<1>5. Respects(p)
  <2>1. \A q \in Others(p), b \in E2T : ~Held(q, b)  BY <1>3, HolderIsAlone
  <2>2. ASSUME NEW b \in E2T, round[b].times = 1,
               round[b].left > 0 \/ (Marking(b) /\ p # Worker)
        PROVE  records'[b] # NoInst
    <3>1. records[b] # NoInst  BY <2>2 DEF MarkTarget, Awaited
    <3>2. ~(i = NoInst /\ b = a)
      BY <2>2 DEF RoundInv, TypeOK, Turn
    <3> QED  BY <1>1, <1>4, <3>1, <3>2 DEF TypeOK
  <2> QED  BY <2>1, <2>2 DEF Respects
<1>6. CASE mux' = p /\ Goto(p, "getAddrs") /\ UNCHANGED <<op, snap>>
  BY <1>2, <1>3, <1>5, <1>6, MoveInv DEF Pc, LockedPc
<1>7. CASE Finish(p, "error")  BY <1>2, <1>3, <1>5, <1>7, FinishInv
<1> QED  BY <1>6, <1>7 DEF PutRecord

LEMMA SaveNewInv ==
  ASSUME IInv, NEW p \in Proc, SaveNew(p)
  PROVE  IInv'
<1>1. ReadyFor(p, {"Add", "Shutdown"}) /\ op[p].kind = "Add" /\ pc[p] # "idle"
  BY DEF SaveNew, At, IInv, OpInv, ReadyFor
<1>2. NewE2TInstance \in Record /\ NewE2TInstance # NoInst
  BY NewInstanceType, TypeParts, ConstantsOK DEF IInv, Record
<1> QED  BY <1>1, <1>2, PutRecordInv DEF SaveNew

LEMMA RemoveRecordInv ==
  ASSUME IInv, NEW p \in Proc, RemoveRecord(p)
  PROVE  IInv'
<1>1. ReadyFor(p, {"Add", "Shutdown"}) /\ pc[p] = "remove" /\ p = Worker
  BY DEF RemoveRecord, IInv, OpInv, ReadyFor
<1>2. NoInst \in Record  BY DEF Record
<1> QED  BY <1>1, <1>2, PutRecordInv DEF RemoveRecord

LEMMA GetAddrsInv ==
  ASSUME IInv, NEW p \in Proc, GetAddrs(p)
  PROVE  IInv'
<1>1. TypeOK'  BY GetAddrsType DEF IInv
<1>2. pc[p] = "getAddrs" /\ UNCHANGED <<records, round, booted>>  BY DEF GetAddrs, db
<1>3. Respects(p)  BY <1>2, UntouchedRespects
<1>4. CASE Goto(p, "saveAddrs") /\ UNCHANGED <<mux, op, snap>>
  BY <1>1, <1>2, <1>3, <1>4, MoveInv DEF Pc, LockedPc
<1>5. CASE Finish(p, "error")  BY <1>1, <1>2, <1>3, <1>5, FinishInv
<1> QED  BY <1>4, <1>5 DEF GetAddrs

LEMMA SaveAddrsInv ==
  ASSUME IInv, NEW p \in Proc, SaveAddrs(p)
  PROVE  IInv'
<1>1. TypeOK'  BY SaveAddrsType DEF IInv
<1>2. pc[p] = "saveAddrs" /\ UNCHANGED <<records, round, booted>>  BY DEF SaveAddrs
<1>3. Respects(p)  BY <1>2, UntouchedRespects
<1> QED  BY <1>1, <1>2, <1>3, FinishInv DEF SaveAddrs

LEMMA ReadForShutdownInv ==
  ASSUME IInv, ReadForShutdown
  PROVE  IInv'
<1> USE DEF IInv
<1>1. TypeOK'  BY ReadForShutdownType
<1>2. /\ booted /\ pc[Worker] = "idle"
      /\ UNCHANGED <<records, mux, pc, op, snap, booted>>
  BY DEF ReadForShutdown, db, threads
<1>3. OpInv' /\ LockInv' /\ BootInv' /\ FreshOrMarked'
  BY <1>2 DEF OpInv, ReadyFor, LockInv, BootInv, FreshOrMarked, Held
<1>4. \A a \in E2T :
        \/ /\ records[a] # NoInst /\ round'[a].copy = records[a]
           /\ round'[a].times \in Nat /\ round'[a].left = round'[a].times
        \/ round'[a].times = 0 /\ round'[a].left = 0
  <2> SUFFICES ASSUME NEW a \in E2T
               PROVE  \/ /\ records[a] # NoInst /\ round'[a].copy = records[a]
                         /\ round'[a].times \in Nat /\ round'[a].left = round'[a].times
                      \/ round'[a].times = 0 /\ round'[a].left = 0
    OBVIOUS
  <2>1. AddrList[a] \in Nat  BY AddrListType DEF TypeOK, DbType, AddrBag
  <2>2. round'[a] = IF Listed(a) /\ records[a] # NoInst
                    THEN [copy |-> records[a], times |-> AddrList[a],
                          left |-> AddrList[a]]
                    ELSE [copy |-> NoInst, times |-> 0, left |-> 0]
    BY DEF ReadForShutdown, NoRound
  <2> QED  BY <2>1, <2>2
<1>5. RoundInv'  BY <1>2, <1>4 DEF RoundInv
<1>6. MarkTarget'  BY <1>2, <1>4 DEF MarkTarget, Awaited
<1> QED  BY <1>1, <1>3, <1>5, <1>6

LEMMA NextInstanceInv ==
  ASSUME IInv, NEW a \in E2T, NextInstance(a)
  PROVE  IInv'
<1> USE DEF IInv
<1>1. TypeOK'  BY NextInstanceType
<1>2. Worker \in Proc /\ [kind |-> "Shutdown", addr |-> a] \in Op
  BY ConstantsOK DEF Op
<1>3. /\ pc[Worker] = "idle" /\ round[a].left > 0
      /\ round' = [round EXCEPT ![a].left = @ - 1]
      /\ op' = [op EXCEPT ![Worker] = [kind |-> "Shutdown", addr |-> a]]
      /\ pc' = [pc EXCEPT ![Worker] = "mark"]
      /\ UNCHANGED <<records, mux, snap, booted>>
  BY DEF NextInstance, Goto, db
<1>4. /\ \A q \in Others(Worker) : pc'[q] = pc[q] /\ op'[q] = op[q]
      /\ pc'[Worker] = "mark"
      /\ op'[Worker] = [kind |-> "Shutdown", addr |-> a]
  BY <1>2, <1>3 DEF TypeOK, Others
<1>5. booted  BY DEF NextInstance
<1>6. OpInv'  BY <1>2, <1>3, <1>4 DEF OpInv, ReadyFor, Others
<1>7. LockInv' /\ BootInv'
  BY <1>2, <1>3, <1>4, <1>5 DEF LockInv, LockedPc, BootInv, Others
<1>8. FreshOrMarked'  BY <1>3, <1>4 DEF FreshOrMarked, Held, Others
<1>9. \A b \in E2T : /\ round[b] \in Turn
                     /\ round'[b].copy = round[b].copy /\ round'[b].times = round[b].times
                     /\ b # a => round'[b] = round[b]
                     /\ round'[a].left = round[a].left - 1
  BY <1>3 DEF TypeOK, Turn
<1>10. RoundInv'  BY <1>3, <1>4, <1>9 DEF RoundInv, Turn
<1>11. MarkTarget'
  BY <1>3, <1>4, <1>9 DEF MarkTarget, Awaited, Marking, Turn
<1> QED  BY <1>1, <1>6, <1>7, <1>8, <1>10, <1>11

LEMMA MarkInv ==
  ASSUME IInv, NEW p \in Proc, Mark(p)
  PROVE  IInv'
<1> USE DEF IInv
<1> DEFINE a == op[p].addr
           i == round[a].copy
<1>1. /\ pc[p] = "mark" /\ p = Worker /\ op[p] \in Op /\ a \in E2T
      /\ UNCHANGED <<round, booted>>
  BY DEF Mark, OpInv, ReadyFor, Op
<1>9. i # NoInst
  BY <1>1 DEF RoundInv, TypeOK, Turn
<1>2. TypeOK'  BY <1>1, <1>9, MarkType
<1>3. Marked(i) # NoInst /\ Marked(i).state = "ToBeDeleted"
  <2>1. i \in Instance /\ clock \in Nat
    BY <1>1, <1>9, ConstantsOK DEF TypeOK, Turn, Record
  <2>2. Marked(i) \in Instance /\ Marked(i).state = "ToBeDeleted"
    BY <2>1 DEF Marked, Instance, States
  <2> QED  BY <2>2, ConstantsOK
<1>4. records' = [records EXCEPT ![a] = Marked(i)] \/ UNCHANGED records
  BY DEF Mark, SaveRecord, MaybeSaveRecord
<1>5. Respects(p)
  <2>1. ASSUME NEW q \in Others(p), NEW b \in E2T, Held(q, b)
        PROVE  \/ records'[b] = records[b]
               \/ records'[b] # NoInst /\ records'[b].state = "ToBeDeleted"
    BY <1>1, <1>3, <1>4 DEF TypeOK
  <2>2. ASSUME NEW b \in E2T, round[b].times = 1, round[b].left > 0
        PROVE  records'[b] # NoInst
    BY <1>1, <1>3, <1>4, <2>2 DEF MarkTarget, Awaited, TypeOK
  <2> QED  BY <1>1, <2>1, <2>2 DEF Respects
<1>6. CASE Goto(p, "nodebs") /\ UNCHANGED <<mux, op, snap>>
  BY <1>1, <1>2, <1>5, <1>6, MoveInv DEF Pc
<1>7. CASE \E r \in {"ok", "error"} : Finish(p, r)
  BY <1>1, <1>2, <1>5, <1>7, FinishInv
<1> QED  BY <1>6, <1>7 DEF Mark

LEMMA NodebsClearedInv ==
  ASSUME IInv, NEW p \in Proc, NodebsCleared(p)
  PROVE  IInv'
<1>1. TypeOK'  BY NodebsClearedType DEF IInv
<1>2. pc[p] = "nodebs" /\ UNCHANGED <<records, round, booted>>  BY DEF NodebsCleared, db
<1>3. Respects(p)  BY <1>2, UntouchedRespects
<1>4. CASE Goto(p, "remove") /\ UNCHANGED <<mux, op, snap>>
  BY <1>1, <1>2, <1>3, <1>4, MoveInv DEF Pc
<1>5. CASE Finish(p, "error")  BY <1>1, <1>2, <1>3, <1>5, FinishInv
<1> QED  BY <1>4, <1>5 DEF NodebsCleared

LEMMA ProcessStepInv ==
  ASSUME IInv, Tick \/ Crash \/ Boot \/ Rest
  PROVE  IInv'
<1> USE DEF IInv
<1>1. TypeOK'  BY ProcessStepType
<1>2. CASE Tick \/ Rest
  <2>1. UNCHANGED <<records, mux, pc, op, snap, round, booted>>
    BY <1>2 DEF Tick, Rest, db, threads, vars
  <2> QED
    BY <1>1, <2>1 DEF OpInv, ReadyFor, LockInv, BootInv, FreshOrMarked, Held, RoundInv,
                      MarkTarget, Awaited, Marking
<1>3. CASE Crash
  <2>1. /\ \A p \in Proc : pc'[p] = "idle" /\ snap'[p] = NoSnap
        /\ mux' = NoProc /\ round' = NoRound
    BY <1>3 DEF Crash
  <2> QED
    BY <1>1, <2>1, ConstantsOK
    DEF OpInv, LockInv, LockedPc, BootInv, FreshOrMarked, Held, NoRound, RoundInv,
        MarkTarget, Awaited
<1>4. CASE Boot
  <2>1. booted' /\ UNCHANGED <<mux, pc, op, snap, round>> /\ \A p \in Proc : pc[p] = "idle"
    BY <1>4 DEF Boot, BootInv, threads
  <2>2. ASSUME NEW a \in E2T, records[a] # NoInst  PROVE records'[a] # NoInst
    <3>1. records[a] \in Instance /\ clock \in Nat
      BY <2>2, ConstantsOK DEF TypeOK, Record
    <3>2. [records[a] EXCEPT !.ts = clock] \in Instance  BY <3>1 DEF Instance
    <3>3. records'[a] \in {records[a], [records[a] EXCEPT !.ts = clock]}
      BY <1>4 DEF Boot
    <3> QED  BY <2>2, <3>2, <3>3, ConstantsOK
  <2> QED
    BY <1>1, <2>1, <2>2, ConstantsOK
    DEF OpInv, ReadyFor, LockInv, LockedPc, BootInv, FreshOrMarked, Held, RoundInv,
        MarkTarget, Awaited, Marking
<1> QED  BY <1>2, <1>3, <1>4
-----------------------------------------------------------------------------
LEMMA InitInv == Init => IInv
<1> SUFFICES ASSUME Init PROVE IInv
  OBVIOUS
<1> USE DEF Init
<1>1. TypeOK
  <2>1. NoSnap \in [E2T -> Record] /\ [a \in E2T |-> 0] \in AddrBag
    BY DEF NoSnap, Record, AddrBag
  <2>2. DbType  BY <2>1 DEF DbType
  <2>3. ThreadsType  BY <2>1 DEF ThreadsType, Pc
  <2>4. 0 \in 0..MaxClock /\ 0 \in 0..MaxCalls /\ 0 \in 0..MaxFaults /\ 0 \in 0..MaxCrashes
    BY ConstantsOK
  <2>5. BudgetType  BY <2>4, NoRoundType DEF BudgetType
  <2> QED  BY <2>2, <2>3, <2>5, TypeParts
<1>2. OpInv /\ LockInv /\ BootInv
  BY ConstantsOK DEF OpInv, LockInv, LockedPc, BootInv
<1>3. FreshOrMarked /\ RoundInv /\ MarkTarget
  BY ConstantsOK DEF FreshOrMarked, Held, NoRound, RoundInv, MarkTarget, Awaited
<1> QED  BY <1>1, <1>2, <1>3 DEF IInv

LEMMA NextInv == IInv /\ [Next]_vars => IInv'
<1> SUFFICES ASSUME IInv, [Next]_vars PROVE IInv'
  OBVIOUS
<1>1. CASE \E p \in Proc : Acquire(p)
  BY <1>1, LoadInv, LoadAllInv, SaveNewInv, RemoveRecordInv DEF Acquire
<1>2. CASE \E p \in Proc : Continue(p)
  BY <1>2, SaveUpdateInv, SaveClearedInv, GetAddrsInv, SaveAddrsInv, MarkInv,
     NodebsClearedInv, ReturnInv DEF Continue
<1>3. CASE \E p \in Proc, o \in Op : Call(p, o)  BY <1>3, CallInv
<1>4. CASE ReadForShutdown \/ \E a \in E2T : NextInstance(a)
  BY <1>4, ReadForShutdownInv, NextInstanceInv
<1>5. CASE Tick \/ Crash \/ Boot \/ Rest  BY <1>5, ProcessStepInv
<1>6. CASE UNCHANGED vars
  BY <1>6 DEF vars, IInv, TypeOK, OpInv, ReadyFor, LockInv, BootInv, FreshOrMarked,
              Held, RoundInv, MarkTarget, Awaited, Marking
<1> QED  BY <1>1, <1>2, <1>3, <1>4, <1>5, <1>6 DEF Next

LEMMA Invariance == Spec => []IInv
BY InitInv, NextInv, PTL DEF Spec

\* Every reachable state of the registry is well typed, for any set of E2Ts,
\* RANs and goroutines: in particular no operation works on a record, or with
\* an address, that it has not read.
THEOREM TypeCorrect == Spec => []TypeOK
<1>1. IInv => TypeOK  BY DEF IInv
<1> QED  BY Invariance, <1>1, PTL

\* The mutex protects what it is meant to protect: between its Get and its
\* Save an operation of E2TInstancesManager holds the record's current value,
\* unless the shutdown manager, which saves without the mutex, has marked it.
THEOREM LockProtects == Spec => []FreshOrMarked
<1>1. IInv => FreshOrMarked  BY DEF IInv
<1> QED  BY Invariance, <1>1, PTL

\* A removed E2T is not resurrected by a save of an older copy, although the
\* worker removes records while handlers update them; but for the worker's own
\* further copy of an E2T that was listed more than once.
THEOREM RemovedStaysRemoved == Spec => NoResurrection
<1> DEFINE Step == \A a \in E2T : records[a] = NoInst /\ records'[a] # NoInst =>
                     \/ \E p \in Proc : At(p, "call", {"Add"}) /\ op[p].addr = a
                     \/ Marking(a) /\ round[a].times > 1
<1>1. IInv /\ [Next]_vars => [Step]_vars
  <2> SUFFICES ASSUME IInv, Next, NEW a \in E2T,
                      records[a] = NoInst, records'[a] # NoInst
               PROVE  \/ \E p \in Proc : At(p, "call", {"Add"}) /\ op[p].addr = a
                      \/ Marking(a) /\ round[a].times > 1
    BY DEF vars
  <2>1. ASSUME NEW p \in Proc, SaveUpdate(p)  PROVE FALSE
    <3>1. pc[p] = "update" /\ op[p].addr \in E2T /\ snap[p][op[p].addr] # NoInst
      BY <2>1, UpdateSavesInstance, ConstantsOK DEF SaveUpdate
    <3>2. records[op[p].addr] # NoInst  BY <3>1 DEF IInv, FreshOrMarked, Held
    <3>3. \A b \in E2T : b # op[p].addr => records'[b] = records[b]
      BY <2>1 DEF SaveUpdate, SaveRecord, MaybeSaveRecord, IInv, TypeOK
    <3> QED  BY <3>1, <3>2, <3>3
  <2>2. ASSUME NEW p \in Proc, SaveCleared(p)  PROVE FALSE
    <3>1. PICK b \in E2T :
            /\ snap[p][b] # NoInst /\ pc[p] = "clearing"
            /\ \A c \in E2T : c # b => records'[c] = records[c]
      BY <2>2 DEF SaveCleared, SaveRecord, MaybeSaveRecord, IInv, TypeOK
    <3>2. records[b] # NoInst  BY <3>1 DEF IInv, FreshOrMarked, Held
    <3> QED  BY <3>1, <3>2
  <2>3. ASSUME NEW p \in Proc, Mark(p)  PROVE Marking(a) /\ round[a].times > 1
    <3>1. p = Worker /\ pc[p] = "mark"  BY <2>3 DEF Mark, IInv, OpInv
    <3>2. \A b \in E2T : b # op[p].addr => records'[b] = records[b]
      BY <2>3 DEF Mark, SaveRecord, MaybeSaveRecord, IInv, TypeOK
    <3>3. Marking(a)  BY <3>1, <3>2 DEF Marking
    <3>4. round[a].times # 1  BY <3>3 DEF IInv, MarkTarget, Awaited
    <3>5. round[a].times > round[a].left /\ round[a] \in Turn
      BY <3>3 DEF Marking, IInv, RoundInv, TypeOK
    <3> QED  BY <3>3, <3>4, <3>5 DEF Turn
  <2>4. ASSUME NEW p \in Proc, RemoveRecord(p)  PROVE FALSE
    BY <2>4 DEF RemoveRecord, PutRecord, SaveRecord, MaybeSaveRecord, IInv, TypeOK
  <2>5. ASSUME NEW p \in Proc, SaveNew(p)
        PROVE  At(p, "call", {"Add"}) /\ op[p].addr = a
    BY <2>5 DEF SaveNew, PutRecord, SaveRecord, MaybeSaveRecord, IInv, TypeOK
  <2>6. ASSUME Boot  PROVE FALSE
    BY <2>6 DEF Boot, IInv, TypeOK
  <2>7. CASE UNCHANGED records  BY <2>7
  <2>8. ASSUME NEW p \in Proc,
               \/ Load(p) \/ LoadAll(p) \/ GetAddrs(p) \/ SaveAddrs(p)
               \/ NodebsCleared(p) \/ Return(p) \/ \E o \in Op : Call(p, o)
        PROVE  UNCHANGED records
    BY <2>8 DEF Load, LoadAll, GetAddrs, SaveAddrs, NodebsCleared, Return, Call, db
  <2>9. ReadForShutdown \/ (\E b \in E2T : NextInstance(b)) \/ Tick \/ Crash \/ Rest
          => UNCHANGED records
    BY DEF ReadForShutdown, NextInstance, Tick, Crash, Rest, db, vars
  <2> QED  BY <2>1, <2>2, <2>3, <2>4, <2>5, <2>6, <2>7, <2>8, <2>9
           DEF Next, Acquire, Continue
<1> QED  BY Invariance, <1>1, PTL DEF Spec, NoResurrection
=============================================================================
