----------------------- MODULE E2TInstancesTime_proofs -----------------------
(***************************************************************************)
(* Proof that no keep-alive timestamp is lost: HeartbeatNotLost, from the  *)
(* invariant TimeInv on top of the invariant of the mutex.                 *)
(***************************************************************************)
EXTENDS E2TInstances_proofs

\* what p may write: a timestamp that is not in the future, not older than
\* the one it replaces nor than the worker's copy if the record stays active,
\* and not newer than an active copy that is still to be saved
TimelyWrite(p) ==
  \A a \in E2T :
    /\ records'[a] # NoInst => records'[a].ts <= clock
    /\ round[a].copy # NoInst /\ Active(records'[a]) =>
         round[a].copy.ts <= records'[a].ts
    /\ \A q \in Others(p) :
         Held(q, a) /\ Active(snap[q][a]) => records'[a].ts <= snap[q][a].ts
    /\ records[a] # NoInst /\ Active(records'[a]) => records'[a].ts >= records[a].ts

LEMMA TimesAreNumbers ==
  ASSUME IInv
  PROVE  /\ clock \in Nat
         /\ \A a \in E2T : records[a] # NoInst => records[a].ts \in Nat
         /\ \A p \in Proc, a \in E2T : snap[p][a] # NoInst => snap[p][a].ts \in Nat
         /\ \A a \in E2T : round[a].copy # NoInst => round[a].copy.ts \in Nat
BY ConstantsOK DEF IInv, TypeOK, Turn, Record, Instance

LEMMA MarkingHasCopy ==
  ASSUME IInv, NEW a \in E2T, Marking(a)
  PROVE  round[a].copy \in Instance
<1>1. round[a] \in Turn /\ round[a].left < round[a].times
  BY DEF IInv, TypeOK, RoundInv, Marking
<1> QED  BY <1>1 DEF IInv, RoundInv, Turn, Record

LEMMA HeldExists ==
  ASSUME IInv, NEW p \in Proc, NEW a \in E2T, Held(p, a)
  PROVE  records[a] # NoInst
BY DEF IInv, FreshOrMarked, Held

LEMMA UntouchedIsTimely ==
  ASSUME IInv, TimeInv, NEW p \in Proc, UNCHANGED records
  PROVE  TimelyWrite(p)
BY TimesAreNumbers DEF TimelyWrite, TimeInv, Others

\* a holder of the mutex that saves one record, with a timestamp that is
\* either the present or that of the active copy it holds
LEMMA HolderIsTimely ==
  ASSUME IInv, TimeInv, NEW p \in Proc, mux \in {p, NoProc},
         NEW a \in E2T, NEW new \in Record,
         records' = [records EXCEPT ![a] = new] \/ UNCHANGED records,
         new # NoInst => /\ new.ts <= clock
                         /\ Active(new) => \/ new.ts = clock
                                           \/ /\ Held(p, a) /\ Active(snap[p][a])
                                              /\ new.ts = snap[p][a].ts
  PROVE  TimelyWrite(p)
<1>1. CASE UNCHANGED records  BY <1>1, UntouchedIsTimely
<1>2. CASE records' = [records EXCEPT ![a] = new]
  <2>1. \A b \in E2T : records'[b] = IF b = a THEN new ELSE records[b]
    BY <1>2 DEF IInv, TypeOK
  <2>2. \A q \in Others(p), b \in E2T : ~Held(q, b)  BY HolderIsAlone
  <2>3. ASSUME NEW b \in E2T
        PROVE  /\ records'[b] # NoInst => records'[b].ts <= clock
               /\ round[b].copy # NoInst /\ Active(records'[b]) =>
                    round[b].copy.ts <= records'[b].ts
               /\ records[b] # NoInst /\ Active(records'[b]) =>
                    records'[b].ts >= records[b].ts
    <3>1. CASE b # a
      BY <2>1, <3>1, TimesAreNumbers DEF TimeInv
    <3>2. CASE b = a
      <4>1. records'[b] = new  BY <2>1, <3>2
      <4>2. ASSUME round[b].copy # NoInst, Active(new)
            PROVE  round[b].copy.ts <= new.ts
        <5>1. round[b].copy.ts <= clock  BY <4>2 DEF TimeInv
        <5> QED  BY <3>2, <4>2, <5>1 DEF TimeInv, Active
      <4>3. ASSUME records[b] # NoInst, Active(new)  PROVE new.ts >= records[b].ts
        <5>1. records[b].ts <= clock  BY <4>3 DEF TimeInv
        <5>2. records[b].ts \in Nat /\ clock \in Nat  BY <4>3, TimesAreNumbers
        <5>3. CASE new.ts = clock  BY <5>1, <5>2, <5>3
        <5>4. CASE /\ Held(p, a) /\ Active(snap[p][a]) /\ new.ts = snap[p][a].ts
          <6>1. records[a].ts <= snap[p][a].ts  BY <5>4 DEF TimeInv
          <6>2. snap[p][a].ts \in Nat  BY <5>4, TimesAreNumbers DEF Active
          <6> QED  BY <3>2, <5>2, <5>4, <6>1, <6>2
        <5> QED  BY <4>3, <5>3, <5>4 DEF Active
      <4> QED  BY <4>1, <4>2, <4>3
    <3> QED  BY <3>1, <3>2
  <2> QED  BY <2>2, <2>3 DEF TimelyWrite
<1> QED  BY <1>1, <1>2
-----------------------------------------------------------------------------
LEMMA SaveUpdateTimely ==
  ASSUME IInv, TimeInv, NEW p \in Proc, SaveUpdate(p)
  PROVE  TimelyWrite(p)
<1> DEFINE o == op[p]
           i == snap[p][o.addr]
           new == Updated(o, i)
<1>1. pc[p] = "update"  BY DEF SaveUpdate
<1>2. o \in Op /\ o.kind \in RmwKinds /\ o.addr \in E2T /\ i \in Instance /\ new \in Instance
  BY <1>1, UpdateSavesInstance
<1>3. mux = p  BY <1>1 DEF IInv, LockInv, LockedPc
<1>4. Held(p, o.addr) /\ i # NoInst  BY <1>1, <1>2, ConstantsOK DEF Held
<1>5. i.ts <= clock /\ i.ts \in Nat /\ clock \in Nat
  BY <1>2, <1>4, TimesAreNumbers DEF TimeInv
<1>6. new.ts <= clock /\ (new.state = "Active" =>
                             new.ts = clock \/ (i.state = "Active" /\ new.ts = i.ts))
  <2>1. CASE o.kind \in {"AddRan", "RemoveRan"}
    <3>1. new.ts = i.ts /\ new.state = i.state
      BY <1>2, <2>1 DEF Updated, WithoutRan, Instance
    <3> QED  BY <1>5, <3>1
  <2>2. CASE o.kind = "Reset"
    <3>1. new.ts = clock  BY <1>2, <2>2 DEF Updated, Instance
    <3> QED  BY <1>5, <3>1
  <2>3. CASE o.kind = "SetState"
    <3>1. new = [i EXCEPT !.state = o.to, !.ts = IF o.to = "Active" THEN clock ELSE @]
      BY <2>3 DEF Updated
    <3>2. new.state = o.to /\ new.ts = IF o.to = "Active" THEN clock ELSE i.ts
      BY <1>2, <3>1 DEF Instance
    <3> QED  BY <1>5, <3>2
  <2> QED  BY <1>2, <2>1, <2>2, <2>3 DEF RmwKinds
<1>7. records' = [records EXCEPT ![o.addr] = new] \/ UNCHANGED records
  BY DEF SaveUpdate, SaveRecord, MaybeSaveRecord
<1>8. new \in Record /\ new # NoInst  BY <1>2, ConstantsOK DEF Record
<1> HIDE DEF new
<1> QED  BY <1>2, <1>3, <1>4, <1>6, <1>7, <1>8, HolderIsTimely DEF Active

LEMMA SaveClearedTimely ==
  ASSUME IInv, TimeInv, NEW p \in Proc, SaveCleared(p)
  PROVE  TimelyWrite(p)
<1>1. PICK a \in E2T :
        /\ snap[p][a] # NoInst /\ pc[p] = "clearing"
        /\ \/ records' = [records EXCEPT ![a] = [snap[p][a] EXCEPT !.rans = NoRans]]
           \/ UNCHANGED records
  BY DEF SaveCleared, SaveRecord, MaybeSaveRecord
<1> DEFINE new == [snap[p][a] EXCEPT !.rans = NoRans]
<1>2. mux = p /\ Held(p, a)  BY <1>1 DEF IInv, LockInv, LockedPc, Held
<1>3. snap[p][a] \in Instance  BY <1>1 DEF IInv, TypeOK, Record
<1>4. /\ new \in Record /\ new.ts = snap[p][a].ts /\ new.state = snap[p][a].state
  BY <1>3 DEF Instance, RanBag, NoRans, Record
<1>5. new.ts <= clock  BY <1>1, <1>4 DEF TimeInv
<1> HIDE DEF new
<1>6. records' = [records EXCEPT ![a] = new] \/ UNCHANGED records  BY <1>1 DEF new
<1> QED  BY <1>1, <1>2, <1>4, <1>5, <1>6, HolderIsTimely DEF Active

LEMMA PutRecordTimely ==
  ASSUME IInv, TimeInv, NEW p \in Proc, SaveNew(p) \/ RemoveRecord(p)
  PROVE  TimelyWrite(p)
<1> DEFINE a == op[p].addr
<1>1. a \in E2T /\ mux = NoProc
  <2>1. ReadyFor(p, {"Add", "Shutdown"})
    BY DEF SaveNew, RemoveRecord, At, IInv, OpInv, ReadyFor
  <2> QED  BY <2>1 DEF SaveNew, RemoveRecord, PutRecord, CanLock, ReadyFor, Op
<1>2. /\ NewE2TInstance \in Record /\ NoInst \in Record
      /\ NewE2TInstance.ts = clock /\ clock \in Nat
  BY NewInstanceType, TypeParts, TimesAreNumbers DEF IInv, Record, NewE2TInstance
<1>3. CASE SaveNew(p)
  <2>1. records' = [records EXCEPT ![a] = NewE2TInstance] \/ UNCHANGED records
    BY <1>3 DEF SaveNew, PutRecord, SaveRecord, MaybeSaveRecord
  <2> QED  BY <1>1, <1>2, <2>1, HolderIsTimely
<1>4. CASE RemoveRecord(p)
  <2>1. records' = [records EXCEPT ![a] = NoInst] \/ UNCHANGED records
    BY <1>4 DEF RemoveRecord, PutRecord, SaveRecord, MaybeSaveRecord
  <2> QED  BY <1>1, <1>2, <2>1, HolderIsTimely
<1> QED  BY <1>3, <1>4

LEMMA MarkTimely ==
  ASSUME IInv, TimeInv, NEW p \in Proc, Mark(p)
  PROVE  TimelyWrite(p)
<1> DEFINE a == op[p].addr
           i == round[a].copy
<1>1. a \in E2T /\ Marking(a)
  BY DEF Mark, IInv, OpInv, ReadyFor, Op, Marking
<1>2. i \in Instance /\ i # NoInst  BY <1>1, MarkingHasCopy, ConstantsOK
<1>3. /\ Marked(i).ts = i.ts /\ Marked(i).state = "ToBeDeleted"
  BY <1>2 DEF Marked, Instance
<1>4. i.ts <= clock  BY <1>1, <1>2 DEF TimeInv
<1>5. CASE UNCHANGED records  BY <1>5, UntouchedIsTimely
<1>6. CASE records' = [records EXCEPT ![a] = Marked(i)]
  <2>1. \A b \in E2T : records'[b] = IF b = a THEN Marked(i) ELSE records[b]
    BY <1>6 DEF IInv, TypeOK
  <2>2. \A q \in Others(p) : Held(q, a) /\ Active(snap[q][a]) => i.ts <= snap[q][a].ts
    BY <1>1, <1>2 DEF TimeInv, Others
  <2> HIDE DEF i
  <2>3. ASSUME NEW b \in E2T
        PROVE  /\ records'[b] # NoInst => records'[b].ts <= clock
               /\ round[b].copy # NoInst /\ Active(records'[b]) =>
                    round[b].copy.ts <= records'[b].ts
               /\ \A q \in Others(p) :
                    Held(q, b) /\ Active(snap[q][b]) => records'[b].ts <= snap[q][b].ts
               /\ records[b] # NoInst /\ Active(records'[b]) =>
                    records'[b].ts >= records[b].ts
    <3>1. CASE b = a  BY <1>3, <1>4, <2>1, <2>2, <3>1 DEF Active
    <3>2. CASE b # a  BY <2>1, <3>2, TimesAreNumbers DEF TimeInv, Others
    <3> QED  BY <3>1, <3>2
  <2> QED  BY <1>1, <2>3 DEF TimelyWrite
<1> QED  BY <1>5, <1>6 DEF Mark, SaveRecord, MaybeSaveRecord
-----------------------------------------------------------------------------
(* How each kind of step treats the copies *)

\* the conjuncts of TimeInv for one E2T
TimeInvAt(a) ==
  /\ records[a] # NoInst => records[a].ts <= clock
  /\ round[a].copy # NoInst =>
       /\ round[a].copy.ts <= clock
       /\ Active(records[a]) => round[a].copy.ts <= records[a].ts
  /\ \A p \in Proc :
       /\ snap[p][a] # NoInst => snap[p][a].ts <= clock
       /\ Held(p, a) /\ Active(snap[p][a]) =>
            /\ records[a].ts <= snap[p][a].ts
            /\ round[a].copy # NoInst => round[a].copy.ts <= snap[p][a].ts

\* p ends its operation, or moves on without taking a new copy
LEMMA KeepCopiesTime ==
  ASSUME IInv, TimeInv, NEW p \in Proc, TimelyWrite(p), UNCHANGED clock,
         \A q \in Others(p) : pc'[q] = pc[q] /\ snap'[q] = snap[q],
         \A a \in E2T : snap'[p][a] \in {snap[p][a], NoInst},
         \A a \in E2T : round'[a].copy \in {round[a].copy, NoInst},
         pc'[p] \in {"update", "clearing"} => pc'[p] = pc[p],
         \A a \in E2T : Held(p, a)' => records'[a] = records[a]
  PROVE  TimeInv'
<1>1. ASSUME NEW a \in E2T  PROVE TimeInvAt(a)'
  <2>1. records'[a] # NoInst => records'[a].ts <= clock'  BY DEF TimelyWrite
  <2>2. round'[a].copy # NoInst => round'[a].copy = round[a].copy  OBVIOUS
  <2>3. round'[a].copy # NoInst =>
          /\ round'[a].copy.ts <= clock'
          /\ Active(records[a])' => round'[a].copy.ts <= records'[a].ts
    BY <2>2 DEF TimelyWrite, TimeInv, Active
  <2>4. ASSUME NEW q \in Proc
        PROVE  snap'[q][a] # NoInst => snap'[q][a].ts <= clock'
    BY DEF TimeInv, Others
  <2>5. ASSUME NEW q \in Proc, Held(q, a)', Active(snap[q][a])'
        PROVE  /\ records'[a].ts <= snap'[q][a].ts
               /\ round'[a].copy # NoInst => round'[a].copy.ts <= snap'[q][a].ts
    <3>1. Held(q, a) /\ snap'[q][a] = snap[q][a]  BY <2>5 DEF Held, Others
    <3>2. Active(snap[q][a])  BY <2>5, <3>1 DEF Active
    <3>3. round'[a].copy # NoInst => round'[a].copy.ts <= snap'[q][a].ts
      BY <2>2, <3>1, <3>2 DEF TimeInv
    <3>4. CASE q # p  BY <3>1, <3>2, <3>3, <3>4 DEF TimelyWrite, Others
    <3>5. CASE q = p  BY <2>5, <3>1, <3>2, <3>3, <3>5 DEF TimeInv
    <3> QED  BY <3>4, <3>5
  <2> QED  BY <2>1, <2>3, <2>4, <2>5 DEF TimeInvAt
<1> QED  BY <1>1 DEF TimeInv, TimeInvAt

LEMMA FinishTime ==
  ASSUME IInv, TimeInv, NEW p \in Proc, NEW r \in {"ok", "error"}, Finish(p, r),
         UNCHANGED <<round, clock>>, TimelyWrite(p)
  PROVE  TimeInv'
<1>1. /\ pc'[p] = "ret" /\ snap'[p] = NoSnap
      /\ \A q \in Others(p) : pc'[q] = pc[q] /\ snap'[q] = snap[q]
  BY DEF Finish, IInv, TypeOK, Others
<1> QED  BY <1>1, KeepCopiesTime DEF NoSnap, Held

LEMMA GotoTime ==
  ASSUME IInv, TimeInv, NEW p \in Proc, NEW l \in Pc, Goto(p, l),
         l \notin {"update", "clearing"},
         UNCHANGED <<snap, clock>>, TimelyWrite(p),
         \A a \in E2T : round'[a].copy \in {round[a].copy, NoInst}
  PROVE  TimeInv'
<1>1. /\ pc'[p] = l /\ \A q \in Others(p) : pc'[q] = pc[q]
  BY DEF Goto, IInv, TypeOK, Others
<1> QED  BY <1>1, KeepCopiesTime DEF Held

\* p, alone under the mutex, takes copies of records that it leaves alone
LEMMA TakeCopiesTime ==
  ASSUME IInv, TimeInv, NEW p \in Proc, mux = NoProc, pc[p] = "call",
         NEW l \in {"update", "clearing"}, Goto(p, l), UNCHANGED <<records, round, clock>>,
         NEW s, snap' = [snap EXCEPT ![p] = s],
         \A a \in E2T : s[a] \in {records[a], NoInst}
  PROVE  TimeInv'
<1>1. /\ pc'[p] = l /\ snap'[p] = s
      /\ \A q \in Others(p) : pc'[q] = pc[q] /\ snap'[q] = snap[q]
  BY DEF Goto, IInv, TypeOK, Others
<1>2. \A q \in Others(p), a \in E2T : ~Held(q, a)  BY HolderIsAlone
<1>3. ASSUME NEW a \in E2T  PROVE TimeInvAt(a)'
  <2>2. round'[a].copy # NoInst =>
          /\ round'[a].copy.ts <= clock'
          /\ Active(records[a])' => round'[a].copy.ts <= records'[a].ts
    BY DEF TimeInv, Active
  <2>3. ASSUME NEW q \in Proc
        PROVE  snap'[q][a] # NoInst => snap'[q][a].ts <= clock'
    BY <1>1 DEF TimeInv, Others
  <2>4. ASSUME NEW q \in Proc, Held(q, a)', Active(snap[q][a])'
        PROVE  /\ records'[a].ts <= snap'[q][a].ts
               /\ round'[a].copy # NoInst => round'[a].copy.ts <= snap'[q][a].ts
    <3>1. q = p  BY <1>1, <1>2, <2>4 DEF Held, Others
    <3>2. snap'[q][a] = records[a] /\ Active(records[a])
      BY <1>1, <2>4, <3>1 DEF Active
    <3>3. records[a].ts \in Nat  BY <3>2, TimesAreNumbers DEF Active
    <3>4. round[a].copy # NoInst => round[a].copy.ts <= records[a].ts
      BY <3>2 DEF TimeInv
    <3> QED  BY <3>2, <3>3, <3>4
  <2> QED  BY <2>2, <2>3, <2>4 DEF TimeInv, TimeInvAt
<1> QED  BY <1>3 DEF TimeInv, TimeInvAt
-----------------------------------------------------------------------------
LEMMA ReadForShutdownTime ==
  ASSUME IInv, TimeInv, ReadForShutdown
  PROVE  TimeInv'
<1>1. UNCHANGED <<records, pc, snap, clock>>  BY DEF ReadForShutdown, db, threads
<1>2. \A a \in E2T : round'[a].copy \in {records[a], NoInst}
  BY DEF ReadForShutdown, NoRound
<1>3. ASSUME NEW a \in E2T  PROVE TimeInvAt(a)'
  <2>1. records[a] # NoInst => records[a].ts <= clock /\ records[a].ts \in Nat
    BY TimesAreNumbers DEF TimeInv
  <2>2. ASSUME NEW q \in Proc, Held(q, a), Active(snap[q][a]), round'[a].copy # NoInst
        PROVE  round'[a].copy.ts <= snap[q][a].ts
    BY <1>2, <2>2 DEF TimeInv
  <2> QED  BY <1>1, <1>2, <2>1, <2>2 DEF TimeInv, TimeInvAt, Held, Active
<1> QED  BY <1>3 DEF TimeInv, TimeInvAt

LEMMA NextInstanceTime ==
  ASSUME IInv, TimeInv, NEW a \in E2T, NextInstance(a)
  PROVE  TimeInv'
<1>1. Worker \in Proc  BY ConstantsOK
<1>2. Goto(Worker, "mark") /\ UNCHANGED <<records, snap, clock>>
  BY DEF NextInstance, db
<1>3. \A b \in E2T : round'[b].copy = round[b].copy
  BY DEF NextInstance, IInv, TypeOK, Turn
<1>4. TimelyWrite(Worker)  BY <1>1, <1>2, UntouchedIsTimely
<1> QED  BY <1>1, <1>2, <1>3, <1>4, GotoTime DEF Pc

LEMMA ProcessStepTime ==
  ASSUME IInv, TimeInv, Tick \/ Crash \/ Boot \/ Rest
  PROVE  TimeInv'
<1>1. CASE Tick \/ Rest
  <2>1. /\ UNCHANGED <<records, pc, snap, round>> /\ clock' \in Nat /\ clock' >= clock
    BY <1>1, TimesAreNumbers DEF Tick, Rest, db, threads, vars
  <2>2. ASSUME NEW a \in E2T  PROVE TimeInvAt(a)'
    <3>1. records[a] # NoInst => records[a].ts <= clock'
      BY <2>1, TimesAreNumbers DEF TimeInv
    <3>2. \A p \in Proc : snap[p][a] # NoInst => snap[p][a].ts <= clock'
      BY <2>1, TimesAreNumbers DEF TimeInv
    <3>3. round[a].copy # NoInst => round[a].copy.ts <= clock'
      BY <2>1, TimesAreNumbers DEF TimeInv
    <3> QED  BY <2>1, <3>1, <3>2, <3>3 DEF TimeInv, TimeInvAt, Held, Active
  <2> QED  BY <2>2 DEF TimeInv, TimeInvAt
<1>2. CASE Crash
  <2>1. /\ \A p \in Proc : pc'[p] = "idle" /\ snap'[p] = NoSnap
        /\ UNCHANGED <<records, clock>> /\ round' = NoRound
    BY <1>2 DEF Crash, db
  <2>2. ASSUME NEW a \in E2T  PROVE TimeInvAt(a)'
    BY <2>1, ConstantsOK DEF TimeInv, TimeInvAt, Held, NoSnap, NoRound
  <2> QED  BY <2>2 DEF TimeInv, TimeInvAt
<1>3. CASE Boot
  <2>1. /\ UNCHANGED <<pc, snap, round, clock>> /\ \A p \in Proc : pc[p] = "idle"
    BY <1>3 DEF Boot, threads, IInv, BootInv
  <2>2. PICK done \in SUBSET {a \in E2T : /\ Listed(a) /\ records[a] # NoInst
                                         /\ records[a].state = "Active"} :
          records' = [a \in E2T |-> IF a \in done
                                    THEN [records[a] EXCEPT !.ts = clock]
                                    ELSE records[a]]
    BY <1>3 DEF Boot
  <2>3. ASSUME NEW a \in E2T
        PROVE  /\ records'[a] # NoInst => records'[a].ts <= clock'
               /\ round[a].copy # NoInst /\ Active(records'[a]) =>
                    round[a].copy.ts <= records'[a].ts
    <3>1. CASE a \in done
      <4>1. records[a] \in Instance  BY <2>2, <3>1 DEF IInv, TypeOK, Record
      <4>2. records'[a].ts = clock  BY <2>2, <3>1, <4>1 DEF Instance
      <4> QED  BY <2>1, <4>2, TimesAreNumbers DEF TimeInv
    <3>2. CASE a \notin done  BY <2>1, <2>2, <3>2 DEF TimeInv
    <3> QED  BY <3>1, <3>2
  <2>4. ASSUME NEW a \in E2T  PROVE TimeInvAt(a)'
    BY <2>1, <2>3 DEF TimeInv, TimeInvAt, Held, Active
  <2> QED  BY <2>4 DEF TimeInv, TimeInvAt
<1> QED  BY <1>1, <1>2, <1>3
-----------------------------------------------------------------------------
\* no step of the worker or of a handler writes an untimely record
Writer(p) == SaveUpdate(p) \/ SaveCleared(p) \/ SaveNew(p) \/ RemoveRecord(p) \/ Mark(p)
Reader(p) == Load(p) \/ LoadAll(p) \/ GetAddrs(p) \/ SaveAddrs(p) \/ NodebsCleared(p)
             \/ Return(p) \/ \E o \in Op : Call(p, o)

LEMMA NextCases ==
  Next <=> \/ \E p \in Proc : Writer(p) \/ Reader(p)
           \/ ReadForShutdown \/ \E a \in E2T : NextInstance(a)
           \/ Tick \/ Crash \/ Boot \/ Rest
BY DEF Next, Acquire, Continue, Writer, Reader

LEMMA StepTimely ==
  ASSUME IInv, TimeInv, NEW p \in Proc, Writer(p) \/ Reader(p)
  PROVE  TimelyWrite(p)
<1>1. CASE Writer(p)
  BY <1>1, SaveUpdateTimely, SaveClearedTimely, PutRecordTimely, MarkTimely DEF Writer
<1>2. CASE Reader(p)
  <2>1. UNCHANGED records
    BY <1>2 DEF Reader, Load, LoadAll, GetAddrs, SaveAddrs, NodebsCleared, Return, Call, db
  <2> QED  BY <2>1, UntouchedIsTimely
<1> QED  BY <1>1, <1>2

LEMMA WriterTime ==
  ASSUME IInv, TimeInv, NEW p \in Proc, Writer(p)
  PROVE  TimeInv'
<1>1. TimelyWrite(p)  BY StepTimely
<1>2. UNCHANGED <<round, clock>>
  BY DEF Writer, SaveUpdate, SaveCleared, SaveNew, RemoveRecord, PutRecord, Mark
<1>3. CASE \E r \in {"ok", "error"} : Finish(p, r)  BY <1>1, <1>2, <1>3, FinishTime
<1>4. CASE \E l \in {"getAddrs", "nodebs"} : Goto(p, l) /\ UNCHANGED <<op, snap>>
  BY <1>1, <1>2, <1>4, GotoTime DEF Pc, LockedPc
<1>5. CASE SaveCleared(p) /\ UNCHANGED <<pc, op>>
  <2>1. PICK a \in E2T :
          /\ snap' = [snap EXCEPT ![p] = [snap[p] EXCEPT ![a] = NoInst]]
             \/ Finish(p, "ok")
          /\ \A b \in E2T : b # a => records'[b] = records[b]
    BY <1>5 DEF SaveCleared, SaveRecord, MaybeSaveRecord, IInv, TypeOK
  <2>2. CASE Finish(p, "ok")  BY <1>1, <1>2, <2>2, FinishTime
  <2>3. CASE snap' = [snap EXCEPT ![p] = [snap[p] EXCEPT ![a] = NoInst]]
    <3>1. /\ \A q \in Others(p) : snap'[q] = snap[q]
          /\ \A b \in E2T : snap'[p][b] = IF b = a THEN NoInst ELSE snap[p][b]
      BY <2>3 DEF IInv, TypeOK, Others
    <3>2. pc[p] = "clearing"  BY <1>5 DEF SaveCleared
    <3> QED  BY <1>1, <1>2, <1>5, <2>1, <3>1, <3>2, KeepCopiesTime DEF Held
  <2> QED  BY <2>1, <2>2, <2>3
<1> QED  BY <1>3, <1>4, <1>5
         DEF Writer, SaveUpdate, SaveCleared, SaveNew, RemoveRecord, PutRecord, Mark

LEMMA ReaderTime ==
  ASSUME IInv, TimeInv, NEW p \in Proc, Reader(p)
  PROVE  TimeInv'
<1>1. TimelyWrite(p)  BY StepTimely
<1>2. UNCHANGED clock /\ \A a \in E2T : round'[a].copy \in {round[a].copy, NoInst}
  BY DEF Reader, Load, LoadAll, GetAddrs, SaveAddrs, NodebsCleared, Return, Call, NoRound
<1>3. CASE UNCHANGED round /\ \E r \in {"ok", "error"} : Finish(p, r)
  BY <1>1, <1>2, <1>3, FinishTime
<1>4. CASE \E l \in {"saveAddrs", "remove"} : Goto(p, l) /\ UNCHANGED <<op, snap>>
  BY <1>1, <1>2, <1>4, GotoTime DEF Pc, LockedPc
<1>5. CASE Load(p) /\ Goto(p, "update")
           /\ snap' = [snap EXCEPT ![p][op[p].addr] = records[op[p].addr]]
           /\ UNCHANGED round
  <2>1. pc[p] = "call" /\ mux = NoProc /\ snap[p] = NoSnap /\ UNCHANGED records
    BY <1>5 DEF Load, At, CanLock, db, IInv, OpInv
  <2> DEFINE s == [NoSnap EXCEPT ![op[p].addr] = records[op[p].addr]]
  <2>2. snap' = [snap EXCEPT ![p] = s]  BY <1>5, <2>1
  <2>3. \A a \in E2T : s[a] \in {records[a], NoInst}  BY DEF NoSnap
  <2> HIDE DEF s
  <2> QED  BY <1>2, <1>5, <2>1, <2>2, <2>3, TakeCopiesTime
<1>6. CASE LoadAll(p) /\ Goto(p, "clearing") /\ UNCHANGED round
           /\ snap' = [snap EXCEPT ![p] = [a \in E2T |-> IF Listed(a) THEN records[a]
                                                        ELSE NoInst]]
  <2>1. pc[p] = "call" /\ mux = NoProc /\ UNCHANGED records
    BY <1>6 DEF LoadAll, At, CanLock, db
  <2> DEFINE s == [a \in E2T |-> IF Listed(a) THEN records[a] ELSE NoInst]
  <2>2. \A a \in E2T : s[a] \in {records[a], NoInst}  OBVIOUS
  <2>3. snap' = [snap EXCEPT ![p] = s]  BY <1>6
  <2> HIDE DEF s
  <2> QED  BY <1>2, <1>6, <2>1, <2>2, <2>3, TakeCopiesTime
<1>7. CASE Return(p)
  <2>1. Goto(p, "idle") /\ UNCHANGED snap  BY <1>7 DEF Return
  <2> QED  BY <1>1, <1>2, <2>1, GotoTime DEF Pc
<1>8. ASSUME NEW o \in Op, Call(p, o)  PROVE TimeInv'
  <2>1. Goto(p, "call") /\ UNCHANGED snap  BY <1>8 DEF Call
  <2> QED  BY <1>1, <1>2, <2>1, GotoTime DEF Pc
<1> QED  BY <1>3, <1>4, <1>5, <1>6, <1>7, <1>8
         DEF Reader, Load, LoadAll, GetAddrs, SaveAddrs, NodebsCleared

LEMMA InitTime == Init => TimeInv
BY ConstantsOK DEF Init, TimeInv, NoSnap, NoRound, Active, Held

LEMMA NextTime == IInv /\ TimeInv /\ [Next]_vars => TimeInv'
<1> SUFFICES ASSUME IInv, TimeInv, [Next]_vars PROVE TimeInv'
  OBVIOUS
<1>1. CASE Next
  BY <1>1, NextCases, WriterTime, ReaderTime, ReadForShutdownTime, NextInstanceTime,
     ProcessStepTime
<1>2. CASE UNCHANGED vars
  BY <1>2 DEF vars, TimeInv, Active, Held
<1> QED  BY <1>1, <1>2

\* Timestamps never run ahead of the clock, and no copy that is still to be
\* saved is older than what its save would replace.
THEOREM TimeInvariance == Spec => [](IInv /\ TimeInv)
BY InitInv, NextInv, InitTime, NextTime, PTL DEF Spec

\* No keep-alive response is forgotten: no save of an older copy moves the
\* timestamp of an active E2T backwards, for any number of handlers, any
\* failures and crashes, although the worker saves without the mutex.
THEOREM NoHeartbeatIsLost == Spec => HeartbeatNotLost
<1> DEFINE Step ==
      \A a \in E2T : (/\ records[a] # NoInst /\ records'[a] # NoInst
                      /\ records'[a].state = "Active") => records'[a].ts >= records[a].ts
<1>1. IInv /\ TimeInv /\ [Next]_vars => [Step]_vars
  <2> SUFFICES ASSUME IInv, TimeInv, Next, NEW a \in E2T,
                      records[a] # NoInst, records'[a] # NoInst,
                      records'[a].state = "Active"
               PROVE  records'[a].ts >= records[a].ts
    OBVIOUS
  <2>1. CASE \E p \in Proc : Writer(p) \/ Reader(p)
    BY <2>1, StepTimely DEF TimelyWrite, Active
  <2>2. CASE UNCHANGED records  BY <2>2, TimesAreNumbers
  <2>3. CASE Boot
    <3>1. records'[a].ts = clock \/ records'[a] = records[a]
      BY <2>3 DEF Boot, IInv, TypeOK, Record, Instance
    <3> QED  BY <3>1, TimesAreNumbers DEF TimeInv
  <2>4. ReadForShutdown \/ (\E b \in E2T : NextInstance(b)) \/ Tick \/ Crash \/ Rest
          => UNCHANGED records
    BY DEF ReadForShutdown, NextInstance, Tick, Crash, Rest, db, vars
  <2> QED  BY <2>1, <2>2, <2>3, <2>4, NextCases
<1> QED  BY TimeInvariance, <1>1, PTL DEF Spec, HeartbeatNotLost
=============================================================================
