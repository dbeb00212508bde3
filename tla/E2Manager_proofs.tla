--------------------------- MODULE E2Manager_proofs ---------------------------
(***************************************************************************)
(* Proofs about E2Manager.  The database and the copies the goroutines     *)
(* hold satisfy the same relations, so writing any copy at any time keeps  *)
(* them; no assumption is made about which requests overlap.               *)
(***************************************************************************)
EXTENDS E2Manager, FiniteSetTheorems, TLAPS

-----------------------------------------------------------------------------
(* Threads *)

LEMMA HoldsMore ==
  ASSUME NEW l, NEW j, NEW n, NEW t, NEW k1, NEW k2, k1 \subseteq k2, Holds(l, j, n, t, k1)
  PROVE  Holds(l, j, n, t, k2)
BY DEF Holds

LEMMA StepInv ==
  ASSUME ThreadInv, Known \subseteq Known', NEW p \in Proc,
         NEW l, NEW j, NEW n, NEW t, Holds(l, j, n, t, Known'), Step(p, l, j, n, t)
  PROVE  ThreadInv'
<1>1. l \in Pc /\ j \in Job /\ n \in CleanNodeb \cup {NoNodeb} /\ t \in RanBag
  BY DEF Holds
<1>2. /\ pc' \in [Proc -> Pc] /\ job' \in [Proc -> Job]
      /\ nb' \in [Proc -> CleanNodeb \cup {NoNodeb}] /\ todo' \in [Proc -> RanBag]
  BY <1>1 DEF ThreadInv, Step
<1>3. ASSUME NEW q \in Proc
      PROVE  Holds(pc'[q], job'[q], nb'[q], todo'[q], Known')
  <2>1. CASE q = p
    <3>1. pc'[q] = l /\ job'[q] = j /\ nb'[q] = n /\ todo'[q] = t
      BY <2>1 DEF ThreadInv, Step
    <3> QED  BY <3>1
  <2>2. CASE q # p
    <3>1. pc'[q] = pc[q] /\ job'[q] = job[q] /\ nb'[q] = nb[q] /\ todo'[q] = todo[q]
      BY <2>2 DEF ThreadInv, Step
    <3>2. Holds(pc[q], job[q], nb[q], todo[q], Known)  BY DEF ThreadInv
    <3> QED  BY <3>1, <3>2, HoldsMore
  <2> QED  BY <2>1, <2>2
<1> QED  BY <1>2, <1>3 DEF ThreadInv, CleanNodeb, Nodeb, RanBag, Job, Pc

LEMMA WaitInv ==
  ASSUME ThreadInv, Known \subseteq Known', UNCHANGED threads
  PROVE  ThreadInv'
<1>1. pc' = pc /\ job' = job /\ nb' = nb /\ todo' = todo  BY DEF threads
<1>2. ASSUME NEW q \in Proc
      PROVE  Holds(pc'[q], job'[q], nb'[q], todo'[q], Known')
  BY <1>1, HoldsMore DEF ThreadInv
<1> QED  BY <1>1, <1>2 DEF ThreadInv, CleanNodeb, Nodeb, RanBag, Job, Pc

LEMMA NothingType ==
  NoRans \in RanBag /\ NoJob \in Job /\ NoNodeb \in CleanNodeb \cup {NoNodeb}
BY DEF NoRans, RanBag, NoJob, Job

LEMMA IdleHolds == ASSUME NEW k PROVE Holds("idle", NoJob, NoNodeb, NoRans, k)
BY NothingType DEF Holds, Pc

LEMMA EndInv ==
  ASSUME ThreadInv, Known \subseteq Known', NEW p \in Proc, End(p)
  PROVE  ThreadInv'
<1>1. Holds("idle", NoJob, NoNodeb, NoRans, Known')  BY IdleHolds
<1> QED  BY <1>1, StepInv DEF End

LEMMA GotoInv ==
  ASSUME ThreadInv, Known \subseteq Known', NEW p \in Proc, NEW l,
         Holds(l, job[p], nb[p], todo[p], Known'), Goto(p, l)
  PROVE  ThreadInv'
BY StepInv DEF Goto

LEMMA FaultType ==
  ASSUME CountInv, Fault
  PROVE  faults' \in 0..MaxFaults
BY ConstantsOK DEF CountInv, Fault

LEMMA FailsInv ==
  ASSUME ThreadInv, CountInv, Known \subseteq Known', NEW p \in Proc, Fails(p)
  PROVE  ThreadInv' /\ faults' \in 0..MaxFaults
<1>1. faults' \in 0..MaxFaults  BY FaultType DEF Fails
<1>2. CASE End(p)  BY <1>1, <1>2, EndInv
<1>3. CASE UNCHANGED threads  BY <1>1, <1>3, WaitInv
<1> QED  BY <1>2, <1>3 DEF Fails

LEMMA RequestType ==
  ASSUME NEW k \in AllKinds \cup {"None", "ForceShutDown", "ShuttingDown", "ShutDown"},
         NEW a \in E2T \cup {NoE2T}, NEW r \in Ran \cup {NoRan}
  PROVE  /\ Request(k, a, r) \in Job
         /\ Request(k, a, r).kind = k /\ Request(k, a, r).addr = a /\ Request(k, a, r).ran = r
BY DEF Request, NoJob, Job

LEMMA HandledType ==
  ASSUME ThreadInv, NEW p \in Proc, NEW r \in Ran, todo[p][r] > 0
  PROVE  Handled(p, r) \in RanBag
BY DEF ThreadInv, Handled, RanBag

\* the loop over the single RAN of a lost connection ends with it
LEMMA OneRanOnly ==
  ASSUME ThreadInv, NEW p \in Proc, NEW r \in Ran, pc[p] \in {"fetch", "down", "removeRan"},
         todo[p][r] > 0, Handled(p, r) # NoRans
  PROVE  job[p].kind = "TermInit"
<1>1. Holds(pc[p], job[p], nb[p], todo[p], Known)  BY DEF ThreadInv
<1>2. ASSUME NEW s \in Ran, todo[p] = [NoRans EXCEPT ![s] = 1]  PROVE FALSE
  <2>1. r = s  BY <1>2 DEF NoRans
  <2>2. Handled(p, r) = NoRans  BY <1>2, <2>1 DEF Handled, NoRans
  <2> QED  BY <2>2
<1> QED  BY <1>1, <1>2 DEF Holds

LEMMA NextRanInv ==
  ASSUME ThreadInv, Known \subseteq Known', NEW p \in Proc, NEW r \in Ran,
         pc[p] \in {"fetch", "down", "removeRan"}, todo[p][r] > 0, NextRan(p, r)
  PROVE  ThreadInv'
<1>1. CASE End(p)  BY <1>1, EndInv
<1>2. CASE /\ Handled(p, r) # NoRans
           /\ Step(p, "fetch", Request(job[p].kind, NoE2T, NoRan), NoNodeb, Handled(p, r))
  <2>0. job[p].kind = "TermInit"  BY <1>2, OneRanOnly
  <2>1. job[p].kind \in AllKinds \cup {"None", "ForceShutDown", "ShuttingDown", "ShutDown"}
    BY DEF ThreadInv, Job
  <2>2. Request(job[p].kind, NoE2T, NoRan) \in Job  BY <2>1, RequestType
  <2>3. Holds("fetch", Request(job[p].kind, NoE2T, NoRan), NoNodeb, Handled(p, r), Known')
    BY <2>0, <2>1, <2>2, RequestType, HandledType DEF Holds, Pc
  <2> QED  BY <1>2, <2>3, StepInv
<1> QED  BY <1>1, <1>2 DEF NextRan
-----------------------------------------------------------------------------
(* The database *)

LEMMA PutInv ==
  ASSUME NodebInv, NEW r \in Ran, NEW n \in CleanNodeb, Put(r, n), UNCHANGED ids
  PROVE  NodebInv' /\ Known \subseteq Known' /\ r \in Known'
<1>1. n # NoNodeb  BY ConstantsOK DEF CleanNodeb
<1>2. nodebs' \in [Ran -> CleanNodeb \cup {NoNodeb}]  BY DEF NodebInv, Put
<1>3. nodebs'[r] = n /\ \A s \in Ran : s # r => nodebs'[s] = nodebs[s]
  BY DEF NodebInv, Put
<1> QED  BY <1>1, <1>2, <1>3 DEF NodebInv, Known, CleanNodeb, Nodeb

LEMMA MaybePutInv ==
  ASSUME NodebInv, NEW r \in Ran, NEW n \in CleanNodeb, MaybePut(r, n), UNCHANGED ids
  PROVE  NodebInv' /\ Known \subseteq Known'
<1>1. CASE Put(r, n)  BY <1>1, PutInv
<1>2. CASE UNCHANGED nodebs  BY <1>2 DEF NodebInv, Known, CleanNodeb, Nodeb
<1> QED  BY <1>1, <1>2 DEF MaybePut

LEMMA SameNodebs ==
  ASSUME NodebInv, UNCHANGED <<nodebs, ids>>
  PROVE  NodebInv' /\ Known' = Known
BY DEF NodebInv, Known, CleanNodeb, Nodeb

LEMMA SameReg ==
  ASSUME RegInv, UNCHANGED <<reg, dir>>, Known \subseteq Known'
  PROVE  RegInv'
BY DEF RegInv, ListsOnly, Instance, RanBag

LEMMA SameCopies ==
  ASSUME CopyInv, UNCHANGED copies, Known \subseteq Known'
  PROVE  CopyInv'
BY DEF CopyInv, ListsOnly, Instance, RanBag

LEMMA KnownNodeb ==
  ASSUME NodebInv, NEW r \in Ran, nodebs[r] # NoNodeb
  PROVE  nodebs[r] \in CleanNodeb /\ r \in Known
BY DEF NodebInv, Known

LEMMA RegisterInv ==
  ASSUME RegInv, NEW a \in E2T, Registry!Register(a), UNCHANGED nodebs
  PROVE  RegInv'
<1> DEFINE new == [rans |-> [r \in Ran |-> 0], state |-> "Active", ts |-> 0, dts |-> 0]
<1>1. new \in Instance  BY DEF Instance, RanBag
<1>2. reg' = [reg EXCEPT ![a] = new] /\ dir' = dir  BY DEF Registry!Register
<1>3. \A r \in Ran : ~(new.rans[r] > 0)  OBVIOUS
<1> HIDE DEF new
<1>4. reg' \in [E2T -> Instance \cup {NoInst}]  BY <1>1, <1>2 DEF RegInv
<1>5. Known' = Known  BY DEF Known
<1>6. ASSUME NEW b \in E2T  PROVE ListsOnly(Known, reg'[b])
  BY <1>2, <1>3 DEF RegInv, ListsOnly
<1> QED  BY <1>2, <1>4, <1>5, <1>6 DEF RegInv, ListsOnly, Instance, RanBag

LEMMA UnregisterInv ==
  ASSUME RegInv, NEW a \in E2T, Registry!Unregister(a), UNCHANGED nodebs
  PROVE  RegInv'
<1>1. reg' = [reg EXCEPT ![a] = NoInst] /\ dir' = dir  BY DEF Registry!Unregister
<1>2. reg' \in [E2T -> Instance \cup {NoInst}]  BY <1>1 DEF RegInv
<1>3. Known' = Known  BY DEF Known
<1>4. ASSUME NEW b \in E2T  PROVE ListsOnly(Known, reg'[b])
  BY <1>1 DEF RegInv, ListsOnly
<1> QED  BY <1>1, <1>2, <1>3, <1>4 DEF RegInv, ListsOnly, Instance, RanBag

LEMMA DirectoryInv ==
  ASSUME RegInv, NEW a \in E2T, Registry!List(a) \/ Registry!Unlist(a),
         UNCHANGED nodebs
  PROVE  RegInv'
<1>1. Registry!Directory \in [E2T -> Nat]
  BY DEF RegInv, Registry!Directory, Registry!NoneListed
<1>2. reg' = reg  BY DEF Registry!List, Registry!Unlist
<1>3. dir' \in [E2T -> Nat]  BY <1>1 DEF Registry!List, Registry!Unlist
<1>4. Known' = Known  BY DEF Known
<1> QED  BY <1>2, <1>3, <1>4 DEF RegInv, ListsOnly, Instance, RanBag

LEMMA AddRanInv ==
  ASSUME RegInv, NEW a \in E2T, NEW r \in Known, Registry!AddRan(a, r),
         UNCHANGED nodebs
  PROVE  RegInv'
<1>1. reg[a] \in Instance /\ dir' = dir /\ reg' = [reg EXCEPT ![a].rans[r] = @ + 1]
  BY DEF Registry!AddRan, Registry!Exists, RegInv
<1>2. Known' = Known /\ r \in Ran  BY DEF Known
<1> DEFINE new == [reg[a] EXCEPT !.rans[r] = @ + 1]
<1>3. new \in Instance  BY <1>1, <1>2 DEF Instance, RanBag
<1>4. reg' = [reg EXCEPT ![a] = new]  BY <1>1
<1>5. \A s \in Ran : s # r => new.rans[s] = reg[a].rans[s]  BY <1>1, <1>2 DEF Instance, RanBag
<1> HIDE DEF new
<1>6. reg' \in [E2T -> Instance \cup {NoInst}]  BY <1>3, <1>4 DEF RegInv
<1>7. ASSUME NEW b \in E2T  PROVE ListsOnly(Known, reg'[b])
  <2>1. CASE b = a
    <3>1. reg'[b] = new  BY <1>4, <2>1 DEF RegInv
    <3>2. ListsOnly(Known, reg[a]) /\ reg[a] # NoInst  BY <1>1, ConstantsOK DEF RegInv
    <3> QED  BY <1>5, <3>1, <3>2 DEF ListsOnly
  <2>2. CASE b # a  BY <1>4, <2>2 DEF RegInv
  <2> QED  BY <2>1, <2>2
<1> QED  BY <1>1, <1>2, <1>6, <1>7 DEF RegInv, ListsOnly, Instance, RanBag

LEMMA RemoveRanInv ==
  ASSUME RegInv, NEW a \in E2T, NEW r \in Ran, Registry!RemoveRan(a, r),
         UNCHANGED nodebs
  PROVE  RegInv'
<1>1. reg[a] \in Instance /\ dir' = dir /\ reg' = [reg EXCEPT ![a].rans[r] = 0]
  BY DEF Registry!RemoveRan, Registry!Exists, RegInv
<1>2. Known' = Known  BY DEF Known
<1> DEFINE new == [reg[a] EXCEPT !.rans[r] = 0]
<1>3. new \in Instance  BY <1>1, <1>2 DEF Instance, RanBag
<1>4. reg' = [reg EXCEPT ![a] = new]  BY <1>1
<1>5. \A s \in Ran : new.rans[s] > 0 => reg[a].rans[s] > 0  BY <1>1 DEF Instance, RanBag
<1> HIDE DEF new
<1>6. reg' \in [E2T -> Instance \cup {NoInst}]  BY <1>3, <1>4 DEF RegInv
<1>7. ASSUME NEW b \in E2T  PROVE ListsOnly(Known, reg'[b])
  <2>1. CASE b = a
    <3>1. reg'[b] = new  BY <1>4, <2>1 DEF RegInv
    <3>2. ListsOnly(Known, reg[a]) /\ reg[a] # NoInst  BY <1>1, ConstantsOK DEF RegInv
    <3> QED  BY <1>5, <3>1, <3>2 DEF ListsOnly
  <2>2. CASE b # a  BY <1>4, <2>2 DEF RegInv
  <2> QED  BY <2>1, <2>2
<1> QED  BY <1>1, <1>2, <1>6, <1>7 DEF RegInv, ListsOnly, Instance, RanBag

LEMMA ClearedInv ==
  ASSUME RegInv, NEW S \in SUBSET {a \in E2T : reg[a] # NoInst}, reg' = Cleared(S),
         UNCHANGED <<dir, nodebs>>
  PROVE  RegInv'
<1>1. Known' = Known  BY DEF Known
<1>2. ASSUME NEW b \in E2T
      PROVE  reg'[b] \in Instance \cup {NoInst} /\ ListsOnly(Known, reg'[b])
  <2>1. CASE b \in S
    <3>1. reg[b] \in Instance  BY <2>1 DEF RegInv
    <3>2. reg'[b] = [reg[b] EXCEPT !.rans = NoRans]  BY <2>1 DEF Cleared
    <3>3. NoRans \in RanBag /\ \A r \in Ran : ~(NoRans[r] > 0)  BY DEF NoRans, RanBag
    <3> QED  BY <3>1, <3>2, <3>3 DEF Instance, ListsOnly
  <2>2. CASE b \notin S
    <3>1. reg'[b] = reg[b]  BY <2>2 DEF Cleared
    <3> QED  BY <3>1 DEF RegInv
  <2> QED  BY <2>1, <2>2
<1>3. reg' \in [E2T -> Instance \cup {NoInst}]
  <2>1. reg' = [b \in E2T |-> reg'[b]]  BY DEF Cleared
  <2> QED  BY <1>2, <2>1
<1> QED  BY <1>1, <1>2, <1>3 DEF RegInv, ListsOnly, Instance, RanBag
-----------------------------------------------------------------------------
(* One lemma per action: arrivals, E2_SETUP *)

LEMMA CountsKept ==
  ASSUME CountInv, UNCHANGED <<calls, overlap, cut>>, UNCHANGED faults \/ faults' \in 0..MaxFaults
  PROVE  CountInv'
BY DEF CountInv

LEMMA ArrivesCounted ==
  ASSUME CountInv, NEW k, NEW S, Arrives(k, S), UNCHANGED <<faults, cut>>
  PROVE  CountInv'
<1>1. overlap' \in Overlaps  BY DEF Arrives, CountInv, Overlaps
<1>2. MaxCalls[overlap'] \in Nat  BY <1>1, ConstantsOK
<1>3. MaxCalls[overlap] \in Nat  BY ConstantsOK DEF CountInv
<1>4. calls \in Nat  BY <1>3 DEF CountInv
<1>5. calls < MaxCalls[overlap'] /\ calls' = calls + 1  BY DEF Arrives
<1>6. calls' \in 0..MaxCalls[overlap']  BY <1>2, <1>4, <1>5
<1> QED  BY <1>1, <1>6 DEF CountInv

LEMMA StartInv ==
  ASSUME IInv, NEW p \in Proc, NEW k, NEW l, NEW j, NEW n, NEW t,
         Holds(l, j, n, t, Known), Start(p, k, l, j, n, t)
  PROVE  IInv'
<1>1. UNCHANGED <<reg, dir, nodebs, ids, copies, faults, cut>> /\ Step(p, l, j, n, t)
  BY DEF Start, db
<1>2. NodebInv' /\ Known' = Known  BY <1>1, SameNodebs DEF IInv
<1>3. RegInv' /\ CopyInv'  BY <1>1, <1>2, SameReg, SameCopies DEF IInv
<1>4. ThreadInv'  BY <1>1, <1>2, StepInv DEF IInv
<1>5. CountInv'
  <2>1. Arrives(k, Scope(j))  BY DEF Start
  <2> QED  BY <1>1, <2>1, ArrivesCounted DEF IInv
<1> QED  BY <1>2, <1>3, <1>4, <1>5 DEF IInv

LEMMA ArriveInv ==
  ASSUME IInv, NEW p \in Proc, Arrive(p)
  PROVE  IInv'
<1> USE NothingType DEF AllKinds, Pc
<1>1. ASSUME NEW a \in E2T, TermInit(p, a)  PROVE IInv'
  <2>1. reg[a] # NoInst
        /\ Start(p, "TermInit", "fetch", Request("TermInit", NoE2T, NoRan), NoNodeb, reg[a].rans)
    BY <1>1 DEF TermInit
  <2>2. reg[a].rans \in RanBag  BY <2>1 DEF IInv, RegInv, Instance
  <2>3. Request("TermInit", NoE2T, NoRan) \in Job  BY RequestType
  <2>4. Holds("fetch", Request("TermInit", NoE2T, NoRan), NoNodeb, reg[a].rans, Known)
    BY <2>2, <2>3, RequestType DEF Holds
  <2> QED  BY <2>1, <2>4, StartInv
<1>2. ASSUME NEW a \in E2T, NewE2T(p, a)  PROVE IInv'
  <2>1. Holds("register", Request("NewE2T", a, NoRan), NoNodeb, NoRans, Known)
    BY RequestType DEF Holds
  <2> QED  BY <1>2, <2>1, StartInv DEF NewE2T
<1>3. ASSUME NEW a \in E2T, NEW r \in Ran, Setup(p, a, r)  PROVE IInv'
  <2>1. Holds("lookup", Request("Setup", a, r), NoNodeb, NoRans, Known)
    BY RequestType DEF Holds
  <2> QED  BY <1>3, <2>1, StartInv DEF Setup
<1>4. ASSUME NEW r \in Ran, Lost(p, r)  PROVE IInv'
  <2>1. [NoRans EXCEPT ![r] = 1] \in RanBag  BY DEF RanBag
  <2>2. /\ Request("Lost", NoE2T, r) \in Job /\ Request("Lost", NoE2T, r).kind = "Lost"
        /\ Request("Lost", NoE2T, r).ran = r
    BY RequestType
  <2>3. Holds("fetch", Request("Lost", NoE2T, r), NoNodeb, [NoRans EXCEPT ![r] = 1], Known)
    BY <2>1, <2>2 DEF Holds
  <2> QED  BY <1>4, <2>3, StartInv DEF Lost
<1>5. ASSUME NEW r \in Ran, UpdateGnb(p, r)  PROVE IInv'
  <2>1. nodebs[r] \in CleanNodeb /\ nodebs[r] # NoNodeb /\ r \in Known
    BY <1>5, KnownNodeb DEF UpdateGnb, IInv
  <2>2. Holds("writeBack", Request("UpdateGnb", NoE2T, r), nodebs[r], NoRans, Known)
    BY <2>1, RequestType DEF Holds
  <2> QED  BY <1>5, <2>2, StartInv DEF UpdateGnb
<1>6. ASSUME RedButton(p)  PROVE IInv'
  <2> DEFINE pass == IF Registry!Directory = Registry!NoneListed THEN "ForceShutDown"
                     ELSE "ShuttingDown"
  <2>1. Holds("listRans", Request(pass, NoE2T, NoRan), NoNodeb, NoRans, Known)
    BY RequestType DEF Holds
  <2> QED  BY <1>6, <2>1, StartInv DEF RedButton
<1> QED  BY <1>1, <1>2, <1>3, <1>4, <1>5, <1>6 DEF Arrive

LEMMA HoldsNow ==
  ASSUME IInv, NEW p \in Proc
  PROVE  Holds(pc[p], job[p], nb[p], todo[p], Known)
BY DEF IInv, ThreadInv

\* a step that only reads the database
LEMMA ReadInv ==
  ASSUME IInv, UNCHANGED <<reg, dir, nodebs, ids, copies, calls, overlap, cut>>, ThreadInv',
         UNCHANGED faults \/ faults' \in 0..MaxFaults
  PROVE  IInv'
BY SameNodebs, SameReg, SameCopies, CountsKept DEF IInv

\* a step that writes a nodeb
LEMMA WriteInv ==
  ASSUME IInv, UNCHANGED <<reg, dir, ids, copies, calls, overlap, cut>>, ThreadInv', NodebInv',
         Known \subseteq Known', UNCHANGED faults \/ faults' \in 0..MaxFaults
  PROVE  IInv'
BY SameReg, SameCopies, CountsKept DEF IInv

LEMMA LookupRanInv ==
  ASSUME IInv, NEW p \in Proc, LookupRan(p)
  PROVE  IInv'
<1> DEFINE r == job[p].ran
           n == nodebs[r]
<1>1. r \in Ran /\ job[p].addr \in E2T /\ job[p] \in Job /\ job[p].kind = "Setup"
  BY HoldsNow DEF LookupRan, Holds
<1>2. UNCHANGED <<reg, dir, nodebs, ids, copies, calls, overlap, cut>>  BY DEF LookupRan, db
<1>3. Known' = Known  BY <1>2 DEF Known
<1>4. CASE UNCHANGED faults /\ NewRan(p)
  <2>1. NewNodeb(job[p].addr) \in CleanNodeb /\ NewNodeb(job[p].addr) # NoNodeb
    BY <1>1, ConstantsOK DEF NewNodeb, CleanNodeb, Nodeb, Status
  <2>2. Holds("saveNew", job[p], NewNodeb(job[p].addr), NoRans, Known')
    BY <1>1, <2>1, NothingType DEF Holds, Pc
  <2>3. ThreadInv'  BY <1>3, <1>4, <2>2, StepInv DEF NewRan, IInv
  <2> QED  BY <1>2, <1>4, <2>3, ReadInv
<1>5. CASE UNCHANGED faults /\ End(p)
  <2>1. ThreadInv'  BY <1>3, <1>5, EndInv DEF IInv
  <2> QED  BY <1>2, <1>5, <2>1, ReadInv
<1>6. CASE UNCHANGED faults /\ n # NoNodeb /\ Step(p, "associate", job[p], n, NoRans)
  <2>1. n \in CleanNodeb /\ r \in Known'  BY <1>1, <1>3, <1>6, KnownNodeb DEF IInv
  <2>2. Holds("associate", job[p], n, NoRans, Known')
    BY <1>1, <1>6, <2>1, NothingType DEF Holds, Pc
  <2>3. ThreadInv'  BY <1>3, <1>6, <2>2, StepInv DEF IInv
  <2> QED  BY <1>2, <1>6, <2>3, ReadInv
<1>7. CASE Fault /\ End(p)
  <2>1. ThreadInv'  BY <1>3, <1>7, EndInv DEF IInv
  <2> QED  BY <1>2, <1>7, <2>1, FaultType, ReadInv DEF IInv
<1> QED  BY <1>4, <1>5, <1>6, <1>7 DEF LookupRan

LEMMA SaveNewInv ==
  ASSUME IInv, NEW p \in Proc, SaveNew(p)
  PROVE  IInv'
<1>1. /\ job[p].ran \in Ran /\ job[p].addr \in E2T /\ nb[p] \in CleanNodeb
      /\ job[p] \in Job /\ job[p].kind = "Setup"
  BY HoldsNow DEF SaveNew, Holds
<1>2. UNCHANGED <<reg, dir, ids, copies, calls, overlap, cut>>  BY DEF SaveNew
<1>3. CASE Put(job[p].ran, nb[p]) /\ Goto(p, "addMember") /\ UNCHANGED faults
  <2>1. NodebInv' /\ Known \subseteq Known' /\ job[p].ran \in Known'  BY <1>1, <1>2, <1>3, PutInv DEF IInv
  <2>2. Holds("addMember", job[p], nb[p], todo[p], Known')
    BY <1>1, <2>1, HoldsNow DEF SaveNew, Holds, Pc
  <2>3. ThreadInv'  BY <1>3, <2>1, <2>2, GotoInv DEF IInv
  <2> QED  BY <1>2, <1>3, <2>1, <2>3, WriteInv
<1>4. CASE Fails(p) /\ MaybePut(job[p].ran, nb[p])
  <2>1. NodebInv' /\ Known \subseteq Known'  BY <1>1, <1>2, <1>4, MaybePutInv DEF IInv
  <2> QED  BY <1>2, <1>4, <2>1, FailsInv, WriteInv DEF IInv
<1> QED  BY <1>3, <1>4 DEF SaveNew

LEMMA AddMemberInv ==
  ASSUME IInv, NEW p \in Proc, AddMember(p)
  PROVE  IInv'
<1>1. /\ job[p].ran \in Ran /\ job[p].addr \in E2T /\ job[p] \in Job
      /\ job[p].kind = "Setup" /\ job[p].ran \in Known
  BY HoldsNow DEF AddMember, Holds
<1>2. UNCHANGED <<reg, dir, nodebs, copies, calls, overlap, cut>>  BY DEF AddMember
<1>3. ids' \subseteq Ran /\ Known' = Known  BY <1>1, <1>2 DEF AddMember, IInv, NodebInv, Known
<1>4. NodebInv'  BY <1>2, <1>3 DEF IInv, NodebInv, CleanNodeb, Nodeb
<1>5. RegInv' /\ CopyInv'  BY <1>2, <1>3, SameReg, SameCopies DEF IInv
<1>6. CASE Goto(p, "associate") /\ UNCHANGED faults
  <2>1. Holds("associate", job[p], nb[p], todo[p], Known')
    BY <1>1, <1>3, HoldsNow DEF AddMember, Holds, Pc
  <2>2. ThreadInv'  BY <1>3, <1>6, <2>1, GotoInv DEF IInv
  <2> QED  BY <1>2, <1>4, <1>5, <1>6, <2>2, CountsKept DEF IInv
<1>7. CASE Fault /\ End(p)
  <2>1. ThreadInv' /\ faults' \in 0..MaxFaults  BY <1>3, <1>7, EndInv, FaultType DEF IInv
  <2> QED  BY <1>2, <1>4, <1>5, <2>1, CountsKept DEF IInv
<1>8. CASE Fault /\ Goto(p, "saveNew")
  <2>1. Holds("saveNew", job[p], nb[p], todo[p], Known')
    BY <1>1, <1>3, HoldsNow DEF AddMember, Holds, Pc
  <2>2. ThreadInv' /\ faults' \in 0..MaxFaults  BY <1>3, <1>8, <2>1, GotoInv, FaultType DEF IInv
  <2> QED  BY <1>2, <1>4, <1>5, <2>2, CountsKept DEF IInv
<1> QED  BY <1>6, <1>7, <1>8 DEF AddMember

LEMMA AssociateInv ==
  ASSUME IInv, NEW p \in Proc, Associate(p)
  PROVE  IInv'
<1> DEFINE r   == job[p].ran
           up  == [status |-> "CONNECTED", assoc |-> job[p].addr]
           off == [nb[p] EXCEPT !.status = "DISCONNECTED"]
<1>1. /\ r \in Ran /\ job[p].addr \in E2T /\ nb[p] \in CleanNodeb
      /\ job[p] \in Job /\ job[p].kind = "Setup"
  BY HoldsNow DEF Associate, Holds
<1>2. UNCHANGED <<reg, dir, ids, copies, calls, overlap, cut>>  BY DEF Associate
<1>3. up \in CleanNodeb /\ off \in CleanNodeb  BY <1>1 DEF CleanNodeb, Nodeb, Status
<1> HIDE DEF up, off
<1>4. CASE Put(r, up) /\ Goto(p, "addRan") /\ UNCHANGED faults
  <2>1. NodebInv' /\ Known \subseteq Known' /\ r \in Known'
    BY <1>1, <1>2, <1>3, <1>4, PutInv DEF IInv
  <2>2. Holds("addRan", job[p], nb[p], todo[p], Known')
    BY <1>1, <2>1, HoldsNow DEF Associate, Holds, Pc
  <2>3. ThreadInv'  BY <1>4, <2>1, <2>2, GotoInv DEF IInv
  <2> QED  BY <1>2, <1>4, <2>1, <2>3, WriteInv
<1>5. CASE Fails(p) /\ MaybePut(r, up)
  <2>1. NodebInv' /\ Known \subseteq Known'  BY <1>1, <1>2, <1>3, <1>5, MaybePutInv DEF IInv
  <2> QED  BY <1>2, <1>5, <2>1, FailsInv, WriteInv DEF IInv
<1>6. CASE Fault /\ MaybePut(r, off) /\ End(p)
  <2>1. NodebInv' /\ Known \subseteq Known'  BY <1>1, <1>2, <1>3, <1>6, MaybePutInv DEF IInv
  <2>2. ThreadInv'  BY <1>6, <2>1, EndInv DEF IInv
  <2> QED  BY <1>2, <1>6, <2>1, <2>2, FaultType, WriteInv DEF IInv
<1> QED  BY <1>4, <1>5, <1>6 DEF Associate, up, off

\* a step of the registry
LEMMA RegistryStep ==
  ASSUME IInv, UNCHANGED <<nodebs, ids, copies, calls, overlap, cut>>, ThreadInv', RegInv',
         UNCHANGED faults \/ faults' \in 0..MaxFaults
  PROVE  IInv'
BY SameNodebs, SameCopies, CountsKept DEF IInv

LEMMA AddRanStep ==
  ASSUME IInv, NEW p \in Proc, AddRan(p)
  PROVE  IInv'
<1>1. job[p].addr \in E2T /\ job[p].ran \in Known  BY HoldsNow DEF AddRan, Holds
<1>2. UNCHANGED <<nodebs, ids, copies, calls, overlap, cut>> /\ End(p)  BY DEF AddRan
<1>3. Known' = Known  BY <1>2 DEF Known
<1>4. ThreadInv'  BY <1>2, <1>3, EndInv DEF IInv
<1>5. UNCHANGED faults \/ faults' \in 0..MaxFaults  BY FaultType DEF AddRan, IInv
<1>6. RegInv'
  <2>1. CASE Registry!AddRan(job[p].addr, job[p].ran)  BY <1>1, <1>2, <2>1, AddRanInv DEF IInv
  <2>2. CASE UNCHANGED <<reg, dir>>  BY <1>2, <1>3, <2>2, SameReg DEF IInv
  <2> QED  BY <2>1, <2>2 DEF AddRan
<1> QED  BY <1>2, <1>4, <1>5, <1>6, RegistryStep
-----------------------------------------------------------------------------
(* Lost connection, E2_TERM_INIT *)

LEMMA FetchInv ==
  ASSUME IInv, NEW p \in Proc, Fetch(p)
  PROVE  IInv'
<1>1. UNCHANGED <<reg, dir, nodebs, ids, copies, calls, overlap, cut>>  BY DEF Fetch, db
<1>2. Known' = Known  BY <1>1 DEF Known
<1>3. ASSUME NEW r \in Ran, todo[p][r] > 0, UNCHANGED faults, NextRan(p, r)
      PROVE  IInv'
  <2>1. ThreadInv'  BY <1>2, <1>3, NextRanInv DEF IInv, Fetch
  <2> QED  BY <1>1, <1>3, <2>1, ReadInv
<1>4. ASSUME NEW r \in Ran, todo[p][r] > 0, UNCHANGED faults, nodebs[r] # NoNodeb,
             Step(p, "down", Request(job[p].kind, nodebs[r].assoc, r), nodebs[r], todo[p])
      PROVE  IInv'
  <2>1. nodebs[r] \in CleanNodeb /\ r \in Known'  BY <1>2, <1>4, KnownNodeb DEF IInv
  <2>2. job[p].kind \in AllKinds \cup {"None", "ForceShutDown", "ShuttingDown", "ShutDown"}
    BY DEF IInv, ThreadInv, Job
  <2>3. nodebs[r].assoc \in E2T \cup {NoE2T}  BY <2>1 DEF CleanNodeb, Nodeb
  <2>4. todo[p] \in RanBag  BY DEF IInv, ThreadInv
  <2>5. Request(job[p].kind, nodebs[r].assoc, r) \in Job
        /\ Request(job[p].kind, nodebs[r].assoc, r).ran = r
        /\ Request(job[p].kind, nodebs[r].assoc, r).kind = job[p].kind
    BY <2>2, <2>3 DEF Request, NoJob, Job
  <2>8. \/ job[p].kind = "TermInit"
        \/ job[p].kind = "Lost" /\ todo[p] = [NoRans EXCEPT ![r] = 1]
    <3>1. ASSUME NEW s \in Ran, todo[p] = [NoRans EXCEPT ![s] = 1]  PROVE r = s
      BY <1>4, <3>1 DEF NoRans
    <3> QED  BY <3>1, HoldsNow DEF Holds, Fetch
  <2>6. Holds("down", Request(job[p].kind, nodebs[r].assoc, r), nodebs[r], todo[p], Known')
    BY <1>4, <2>1, <2>4, <2>5, <2>8 DEF Holds, Pc
  <2>7. ThreadInv'  BY <1>2, <1>4, <2>6, StepInv DEF IInv
  <2> QED  BY <1>1, <1>4, <2>7, ReadInv
<1>5. CASE Fault /\ End(p)
  <2>1. ThreadInv'  BY <1>2, <1>5, EndInv DEF IInv
  <2> QED  BY <1>1, <1>5, <2>1, FaultType, ReadInv DEF IInv
<1> QED  BY <1>3, <1>4, <1>5 DEF Fetch

LEMMA DownInv ==
  ASSUME IInv, NEW p \in Proc, Down(p)
  PROVE  IInv'
<1> DEFINE r    == job[p].ran
           off  == [nb[p] EXCEPT !.status = "DISCONNECTED"]
           shut == [nb[p] EXCEPT !.status = "SHUT_DOWN"]
           closing == nb[p].status = "SHUTTING_DOWN"
<1>1. /\ r \in Ran /\ todo[p][r] > 0 /\ nb[p] \in CleanNodeb /\ job[p] \in Job
      /\ pc[p] = "down"
  BY HoldsNow DEF Down, Holds
<1>2. UNCHANGED <<reg, dir, ids, copies, calls, overlap, cut>>  BY DEF Down
<1>3. off \in CleanNodeb /\ (closing => shut \in CleanNodeb)
  BY <1>1 DEF CleanNodeb, Nodeb, Status
<1> HIDE DEF off, shut
<1>4. CASE closing /\ Put(r, shut) /\ NextRan(p, r) /\ UNCHANGED faults
  <2>1. NodebInv' /\ Known \subseteq Known'  BY <1>1, <1>2, <1>3, <1>4, PutInv DEF IInv
  <2>2. ThreadInv'  BY <1>1, <1>4, <2>1, NextRanInv DEF IInv
  <2> QED  BY <1>2, <1>4, <2>1, <2>2, WriteInv
<1>5. CASE ~closing /\ Put(r, off) /\ Goto(p, "dissociate") /\ UNCHANGED faults
  <2>1. NodebInv' /\ Known \subseteq Known' /\ r \in Known'
    BY <1>1, <1>2, <1>3, <1>5, PutInv DEF IInv
  <2>2. Holds("dissociate", job[p], nb[p], todo[p], Known')
    BY <1>1, <2>1, HoldsNow DEF Down, Holds, Pc
  <2>3. ThreadInv'  BY <1>5, <2>1, <2>2, GotoInv DEF IInv
  <2> QED  BY <1>2, <1>5, <2>1, <2>3, WriteInv
<1>6. CASE Fails(p) /\ MaybePut(r, IF closing THEN shut ELSE off)
  <2>1. NodebInv' /\ Known \subseteq Known'  BY <1>1, <1>2, <1>3, <1>6, MaybePutInv DEF IInv
  <2> QED  BY <1>2, <1>6, <2>1, FailsInv, WriteInv DEF IInv
<1> QED  BY <1>4, <1>5, <1>6 DEF Down, off, shut

LEMMA DissociateInv ==
  ASSUME IInv, NEW p \in Proc, Dissociate(p)
  PROVE  IInv'
<1>1. job[p].ran \in Ran /\ job[p].ran \in Known /\ job[p] \in Job
  BY HoldsNow DEF Dissociate, Holds
<1>2. UNCHANGED <<reg, dir, nodebs, ids, copies, calls, overlap, cut>>  BY DEF Dissociate, db
<1>3. Known' = Known  BY <1>2 DEF Known
<1>4. CASE Step(p, "clearAssoc", job[p], nodebs[job[p].ran], todo[p]) /\ UNCHANGED faults
  <2>1. nodebs[job[p].ran] # NoNodeb /\ nodebs[job[p].ran] \in CleanNodeb
    BY <1>1, KnownNodeb DEF IInv, Known
  <2>2. Holds("clearAssoc", job[p], nodebs[job[p].ran], todo[p], Known')
    BY <1>1, <1>3, <2>1, HoldsNow DEF Dissociate, Holds, Pc
  <2>3. ThreadInv'  BY <1>3, <1>4, <2>2, StepInv DEF IInv
  <2> QED  BY <1>2, <1>4, <2>3, ReadInv
<1>5. CASE Fault /\ End(p)
  <2>1. ThreadInv'  BY <1>3, <1>5, EndInv DEF IInv
  <2> QED  BY <1>2, <1>5, <2>1, FaultType, ReadInv DEF IInv
<1> QED  BY <1>4, <1>5 DEF Dissociate

LEMMA ClearAssocInv ==
  ASSUME IInv, NEW p \in Proc, ClearAssoc(p)
  PROVE  IInv'
<1> DEFINE free == [nb[p] EXCEPT !.assoc = NoE2T]
<1>1. job[p].ran \in Ran /\ nb[p] \in CleanNodeb /\ job[p] \in Job
  BY HoldsNow DEF ClearAssoc, Holds
<1>2. UNCHANGED <<reg, dir, ids, copies, calls, overlap, cut>>  BY DEF ClearAssoc
<1>3. free \in CleanNodeb  BY <1>1 DEF CleanNodeb, Nodeb
<1> HIDE DEF free
<1>4. CASE Put(job[p].ran, free) /\ Goto(p, "removeRan") /\ UNCHANGED faults
  <2>1. NodebInv' /\ Known \subseteq Known'  BY <1>1, <1>2, <1>3, <1>4, PutInv DEF IInv
  <2>2. Holds("removeRan", job[p], nb[p], todo[p], Known')
    BY HoldsNow DEF ClearAssoc, Holds, Pc
  <2>3. ThreadInv'  BY <1>4, <2>1, <2>2, GotoInv DEF IInv
  <2> QED  BY <1>2, <1>4, <2>1, <2>3, WriteInv
<1>5. CASE Fails(p) /\ MaybePut(job[p].ran, free)
  <2>1. NodebInv' /\ Known \subseteq Known'  BY <1>1, <1>2, <1>3, <1>5, MaybePutInv DEF IInv
  <2> QED  BY <1>2, <1>5, <2>1, FailsInv, WriteInv DEF IInv
<1> QED  BY <1>4, <1>5 DEF ClearAssoc, free

LEMMA RemoveRanStep ==
  ASSUME IInv, NEW p \in Proc, RemoveRan(p)
  PROVE  IInv'
<1> DEFINE a == job[p].addr
           r == job[p].ran
<1>1. r \in Ran /\ todo[p][r] > 0 /\ a \in E2T \cup {NoE2T} /\ pc[p] = "removeRan"
  BY HoldsNow DEF RemoveRan, Holds, Job
<1>2. UNCHANGED <<nodebs, ids, copies, calls, overlap, cut>>  BY DEF RemoveRan
<1>3. Known' = Known  BY <1>2 DEF Known
<1>4. ASSUME End(p)  PROVE ThreadInv'  BY <1>3, <1>4, EndInv DEF IInv
<1>5. ASSUME a # NoE2T, Registry!RemoveRan(a, r)  PROVE RegInv'
  BY <1>1, <1>2, <1>5, RemoveRanInv DEF IInv
<1>6. ASSUME UNCHANGED <<reg, dir>>  PROVE RegInv'
  BY <1>2, <1>3, <1>6, SameReg DEF IInv
<1>7. CASE a # NoE2T /\ Registry!RemoveRan(a, r) /\ NextRan(p, r) /\ UNCHANGED faults
  <2>1. ThreadInv'  BY <1>1, <1>3, <1>7, NextRanInv DEF IInv
  <2> QED  BY <1>2, <1>5, <1>7, <2>1, RegistryStep
<1>8. CASE End(p) /\ UNCHANGED <<reg, dir, faults>>
  BY <1>2, <1>4, <1>6, <1>8, RegistryStep
<1>9. CASE a # NoE2T /\ Fault /\ End(p) /\ (Registry!RemoveRan(a, r) \/ UNCHANGED <<reg, dir>>)
  <2>1. RegInv'  BY <1>5, <1>6, <1>9
  <2> QED  BY <1>2, <1>4, <1>9, <2>1, FaultType, RegistryStep DEF IInv
<1> QED  BY <1>7, <1>8, <1>9 DEF RemoveRan
-----------------------------------------------------------------------------
(* Registration, red button, update of the cells *)

LEMMA RegisterStep ==
  ASSUME IInv, NEW p \in Proc, Register(p)
  PROVE  IInv'
<1> DEFINE a == job[p].addr
<1>1. a \in E2T /\ job[p] \in Job  BY HoldsNow DEF Register, Holds
<1>2. UNCHANGED <<nodebs, ids, copies, calls, overlap, cut>>  BY DEF Register
<1>3. Known' = Known  BY <1>2 DEF Known
<1>4. RegInv'
  <2>1. CASE Registry!Register(a)  BY <1>1, <1>2, <2>1, RegisterInv DEF IInv
  <2>2. CASE UNCHANGED <<reg, dir>>  BY <1>2, <1>3, <2>2, SameReg DEF IInv
  <2> QED  BY <2>1, <2>2 DEF Register
<1>5. CASE Goto(p, "list") /\ UNCHANGED faults
  <2>1. Holds("list", job[p], nb[p], todo[p], Known')
    BY <1>1, HoldsNow DEF Register, Holds, Pc
  <2>2. ThreadInv'  BY <1>3, <1>5, <2>1, GotoInv DEF IInv
  <2> QED  BY <1>2, <1>4, <1>5, <2>2, RegistryStep
<1>6. CASE Fault /\ End(p)
  <2>1. ThreadInv'  BY <1>3, <1>6, EndInv DEF IInv
  <2> QED  BY <1>2, <1>4, <1>6, <2>1, FaultType, RegistryStep DEF IInv
<1> QED  BY <1>5, <1>6 DEF Register

LEMMA ListStep ==
  ASSUME IInv, NEW p \in Proc, List(p)
  PROVE  IInv'
<1> DEFINE a == job[p].addr
<1>1. a \in E2T  BY HoldsNow DEF List, Holds
<1>2. UNCHANGED <<nodebs, ids, copies, calls, overlap, cut>> /\ End(p)  BY DEF List
<1>3. Known' = Known  BY <1>2 DEF Known
<1>4. ThreadInv'  BY <1>2, <1>3, EndInv DEF IInv
<1>5. UNCHANGED faults \/ faults' \in 0..MaxFaults  BY FaultType DEF List, IInv
<1>6. RegInv'
  <2>1. CASE Registry!List(a)  BY <1>1, <1>2, <2>1, DirectoryInv DEF IInv
  <2>2. CASE UNCHANGED <<reg, dir>>  BY <1>2, <1>3, <2>2, SameReg DEF IInv
  <2> QED  BY <2>1, <2>2 DEF List
<1> QED  BY <1>2, <1>4, <1>5, <1>6, RegistryStep

LEMMA ListRansInv ==
  ASSUME IInv, NEW p \in Proc, ListRans(p)
  PROVE  IInv'
<1> DEFINE t == [r \in Ran |-> IF r \in ids THEN 1 ELSE 0]
<1>1. UNCHANGED <<reg, dir, nodebs, ids, copies, calls, overlap, cut>>  BY DEF ListRans, db
<1>2. Known' = Known  BY <1>1 DEF Known
<1>3. CASE Step(p, "redGet", job[p], NoNodeb, t) /\ UNCHANGED faults
  <2>1. t \in RanBag  BY DEF RanBag
  <2> HIDE DEF t
  <2>2. Holds("redGet", job[p], NoNodeb, t, Known')
    BY <2>1, HoldsNow DEF ListRans, Holds, Pc
  <2>3. ThreadInv'  BY <1>2, <1>3, <2>2, StepInv DEF IInv
  <2> QED  BY <1>1, <1>3, <2>3, ReadInv
<1>4. CASE Fault /\ End(p)
  <2>1. ThreadInv'  BY <1>2, <1>4, EndInv DEF IInv
  <2> QED  BY <1>1, <1>4, <2>1, FaultType, ReadInv DEF IInv
<1> QED  BY <1>3, <1>4 DEF ListRans

LEMMA RedGetInv ==
  ASSUME IInv, NEW p \in Proc, RedGet(p)
  PROVE  IInv'
<1>1. UNCHANGED <<reg, dir, nodebs, ids, copies, calls, overlap, cut>>  BY DEF RedGet, db
<1>2. Known' = Known  BY <1>1 DEF Known
<1>3. job[p] \in Job /\ job[p].kind \in {"ForceShutDown", "ShuttingDown", "ShutDown"}
  BY HoldsNow DEF RedGet, Holds
<1>4. ASSUME NEW r \in Ran, todo[p][r] > 0, UNCHANGED faults,
             Step(p, "redGet", job[p], NoNodeb, Handled(p, r))
      PROVE  IInv'
  <2>1. Holds("redGet", job[p], NoNodeb, Handled(p, r), Known')
    BY <1>3, <1>4, HandledType DEF IInv, Holds, Pc
  <2>2. ThreadInv'  BY <1>2, <1>4, <2>1, StepInv DEF IInv
  <2> QED  BY <1>1, <1>4, <2>2, ReadInv
<1>5. ASSUME NEW r \in Ran, todo[p][r] > 0, UNCHANGED faults, nodebs[r] # NoNodeb,
             ~PassSkips(job[p].kind, nodebs[r]),
             Step(p, "redPut", [job[p] EXCEPT !.ran = r], nodebs[r], Handled(p, r))
      PROVE  IInv'
  <2>1. nodebs[r] \in CleanNodeb /\ r \in Known'  BY <1>2, <1>5, KnownNodeb DEF IInv
  <2>2. Handled(p, r) \in RanBag  BY <1>5, HandledType DEF IInv
  <2>3. /\ [job[p] EXCEPT !.ran = r] \in Job /\ [job[p] EXCEPT !.ran = r].ran = r
        /\ [job[p] EXCEPT !.ran = r].kind = job[p].kind
    BY <1>3 DEF Job
  <2>4. Holds("redPut", [job[p] EXCEPT !.ran = r], nodebs[r], Handled(p, r), Known')
    BY <1>3, <1>5, <2>1, <2>2, <2>3 DEF Holds, Pc
  <2>5. ThreadInv'  BY <1>2, <1>5, <2>4, StepInv DEF IInv
  <2> QED  BY <1>1, <1>5, <2>5, ReadInv
<1>6. CASE Fault /\ End(p)
  <2>1. ThreadInv'  BY <1>2, <1>6, EndInv DEF IInv
  <2> QED  BY <1>1, <1>6, <2>1, FaultType, ReadInv DEF IInv
<1> QED  BY <1>4, <1>5, <1>6 DEF RedGet

LEMMA RedPutInv ==
  ASSUME IInv, NEW p \in Proc, RedPut(p)
  PROVE  IInv'
<1> DEFINE new == PassSaves(job[p].kind, nb[p])
<1>1. /\ job[p] \in Job /\ job[p].kind \in {"ForceShutDown", "ShuttingDown", "ShutDown"}
      /\ job[p].ran \in Ran /\ nb[p] \in CleanNodeb /\ todo[p] \in RanBag
      /\ ~PassSkips(job[p].kind, nb[p])
  BY HoldsNow DEF RedPut, Holds
<1>2. UNCHANGED <<reg, dir, ids, copies, calls, overlap, cut>>  BY DEF RedPut
\* the second pass saves a nodeb that the callback found SHUTTING_DOWN
<1>3. new \in CleanNodeb
  <2>1. CASE job[p].kind = "ForceShutDown"
    BY <2>1 DEF PassSaves, CleanNodeb, Nodeb, Status
  <2>2. CASE job[p].kind = "ShuttingDown"
    BY <2>2 DEF PassSaves, CleanNodeb, Nodeb, Status
  <2>3. CASE job[p].kind = "ShutDown"
    <3>1. nb[p].status = "SHUTTING_DOWN"  BY <1>1, <2>3 DEF PassSkips
    <3>2. new = [nb[p] EXCEPT !.status = "SHUT_DOWN"]  BY <2>3 DEF PassSaves
    <3> QED  BY <1>1, <3>1, <3>2 DEF CleanNodeb, Nodeb, Status
  <2> QED  BY <1>1, <2>1, <2>2, <2>3
<1> HIDE DEF new
<1>4. CASE /\ Put(job[p].ran, new) /\ UNCHANGED faults
           /\ Step(p, "redGet", Counted(job[p]), NoNodeb, todo[p])
  <2>1. NodebInv' /\ Known \subseteq Known'  BY <1>1, <1>2, <1>3, <1>4, PutInv DEF IInv
  <2>2. Counted(job[p]) \in Job /\ Counted(job[p]).kind = job[p].kind
    BY <1>1 DEF Counted, Job
  <2>3. Holds("redGet", Counted(job[p]), NoNodeb, todo[p], Known')
    BY <1>1, <2>2 DEF Holds, Pc
  <2>4. ThreadInv'  BY <1>4, <2>1, <2>3, StepInv DEF IInv
  <2> QED  BY <1>2, <1>4, <2>1, <2>4, WriteInv
<1>5. CASE Fails(p) /\ MaybePut(job[p].ran, new)
  <2>1. NodebInv' /\ Known \subseteq Known'  BY <1>1, <1>2, <1>3, <1>5, MaybePutInv DEF IInv
  <2> QED  BY <1>2, <1>5, <2>1, FailsInv, WriteInv DEF IInv
<1> QED  BY <1>4, <1>5 DEF RedPut, new

LEMMA PassDoneInv ==
  ASSUME IInv, NEW p \in Proc, PassDone(p)
  PROVE  IInv'
<1>1. UNCHANGED <<reg, dir, nodebs, ids, copies, calls, overlap, faults, cut>>  BY DEF PassDone, db
<1>2. Known' = Known  BY <1>1 DEF Known
<1>3. CASE job[p].kind = "ShuttingDown" /\ Goto(p, "clearRans")
  <2>1. Holds("clearRans", job[p], nb[p], todo[p], Known')
    BY <1>3, HoldsNow DEF PassDone, Holds, Pc
  <2>2. ThreadInv'  BY <1>2, <1>3, <2>1, GotoInv DEF IInv
  <2> QED  BY <1>1, <2>2, ReadInv
<1>4. CASE End(p)
  <2>1. ThreadInv'  BY <1>2, <1>4, EndInv DEF IInv
  <2> QED  BY <1>1, <2>1, ReadInv
<1> QED  BY <1>3, <1>4 DEF PassDone

LEMMA ClearRansInv ==
  ASSUME IInv, NEW p \in Proc, ClearRans(p)
  PROVE  IInv'
<1> DEFINE known == {a \in E2T : Registry!Directory[a] > 0 /\ reg[a] # NoInst}
<1>1. UNCHANGED <<dir, nodebs, ids, copies, calls, overlap, cut>>  BY DEF ClearRans
<1>2. Known' = Known  BY <1>1 DEF Known
<1>3. ASSUME End(p)  PROVE ThreadInv'  BY <1>2, <1>3, EndInv DEF IInv
<1>4. ASSUME NEW S \in SUBSET known, reg' = Cleared(S)  PROVE RegInv'
  <2>1. S \in SUBSET {a \in E2T : reg[a] # NoInst}  OBVIOUS
  <2> QED  BY <1>1, <1>4, <2>1, ClearedInv DEF IInv
<1>5. ASSUME NEW unsaved \in SUBSET known, reg' = Cleared(known \ unsaved),
             faults' = faults + Cardinality(unsaved), faults' <= MaxFaults,
             \/ Step(p, "listRans", Request("ShutDown", NoE2T, NoRan), NoNodeb, NoRans)
             \/ End(p)
      PROVE  IInv'
  <2>1. known \ unsaved \in SUBSET known  OBVIOUS
  <2> HIDE DEF known
  <2>2. RegInv'  BY <1>4, <1>5, <2>1
  <2>3. Cardinality(unsaved) \in Nat
    <3>1. unsaved \subseteq E2T  BY DEF known
    <3>2. IsFiniteSet(unsaved)  BY <3>1, FS_Subset, ConstantsOK
    <3> QED  BY <3>2, FS_CardinalityType
  <2>4. faults' \in 0..MaxFaults
    <3>1. faults \in Nat  BY DEF IInv, CountInv
    <3>2. MaxFaults \in Nat  BY ConstantsOK
    <3> QED  BY <1>5, <2>3, <3>1, <3>2
  <2>5. Holds("listRans", Request("ShutDown", NoE2T, NoRan), NoNodeb, NoRans, Known')
    BY RequestType, NothingType DEF Holds, Pc
  <2>6. ThreadInv'  BY <1>2, <1>3, <1>5, <2>5, StepInv DEF IInv
  <2> QED  BY <1>1, <2>2, <2>4, <2>6, RegistryStep
<1>6. CASE Fault /\ reg' \in {reg, Cleared(known)} /\ End(p)
  <2>1. RegInv'
    <3>1. CASE reg' = reg  BY <1>1, <1>2, <3>1, SameReg DEF IInv
    <3>2. CASE reg' = Cleared(known)  BY <1>4, <3>2
    <3> QED  BY <1>6, <3>1, <3>2
  <2> QED  BY <1>1, <1>3, <1>6, <2>1, FaultType, RegistryStep DEF IInv
<1> QED  BY <1>5, <1>6 DEF ClearRans

LEMMA WriteBackInv ==
  ASSUME IInv, NEW p \in Proc, WriteBack(p)
  PROVE  IInv'
<1>1. job[p].ran \in Ran /\ nb[p] \in CleanNodeb  BY HoldsNow DEF WriteBack, Holds
<1>2. UNCHANGED <<reg, dir, ids, copies, calls, overlap, cut>>  BY DEF WriteBack
<1>3. CASE Put(job[p].ran, nb[p]) /\ End(p) /\ UNCHANGED faults
  <2>1. NodebInv' /\ Known \subseteq Known'  BY <1>1, <1>2, <1>3, PutInv DEF IInv
  <2>2. ThreadInv'  BY <1>3, <2>1, EndInv DEF IInv
  <2> QED  BY <1>2, <1>3, <2>1, <2>2, WriteInv
<1>4. CASE Fails(p) /\ MaybePut(job[p].ran, nb[p])
  <2>1. NodebInv' /\ Known \subseteq Known'  BY <1>1, <1>2, <1>4, MaybePutInv DEF IInv
  <2> QED  BY <1>2, <1>4, <2>1, FailsInv, WriteInv DEF IInv
<1> QED  BY <1>3, <1>4 DEF WriteBack

LEMMA ContinueInv ==
  ASSUME IInv, NEW p \in Proc, Continue(p)
  PROVE  IInv'
BY LookupRanInv, SaveNewInv, AddMemberInv, AssociateInv, AddRanStep, FetchInv, DownInv,
   DissociateInv, ClearAssocInv, RemoveRanStep, RegisterStep, ListStep, ListRansInv,
   RedGetInv, RedPutInv, PassDoneInv, ClearRansInv, WriteBackInv DEF Continue
-----------------------------------------------------------------------------
(* The worker *)

LEMMA WorkerHolds ==
  ASSUME IInv
  PROVE  /\ Worker \in Proc
         /\ Holds(pc[Worker], job[Worker], nb[Worker], todo[Worker], Known)
BY HoldsNow, ConstantsOK

LEMMA MarkHolds ==
  ASSUME NEW k
  PROVE  Holds("mark", Request("Shutdown", NoE2T, NoRan), NoNodeb, NoRans, k)
BY RequestType, NothingType DEF Holds, Pc, AllKinds

LEMMA NextE2TInv ==
  ASSUME IInv, Known \subseteq Known', NEW a \in E2T, NextE2T(a)
  PROVE  ThreadInv' /\ CopyInv'
<1>1. Worker \in Proc  BY ConstantsOK
<1>2. ThreadInv'
  <2>1. CASE End(Worker)  BY <1>1, <2>1, EndInv DEF IInv
  <2>2. CASE Step(Worker, "mark", Request("Shutdown", NoE2T, NoRan), NoNodeb, NoRans)
    BY <1>1, <2>2, MarkHolds, StepInv DEF IInv
  <2> QED  BY <2>1, <2>2 DEF NextE2T
<1>3. copies' = [copies EXCEPT ![a] = NoInst]  BY DEF NextE2T
<1>4. copies' \in [E2T -> Instance \cup {NoInst}]  BY <1>3 DEF IInv, CopyInv
<1>5. ASSUME NEW b \in E2T  PROVE ListsOnly(Known', copies'[b])
  BY <1>3 DEF IInv, CopyInv, ListsOnly
<1>6. CopyInv'  BY <1>4, <1>5 DEF CopyInv, ListsOnly, Instance, RanBag
<1> QED  BY <1>2, <1>6

LEMMA ExpireInv ==
  ASSUME IInv, NEW S \in SUBSET E2T, Expire(S)
  PROVE  IInv'
<1>1. /\ UNCHANGED <<reg, dir, nodebs, ids, faults, cut>> /\ Arrives("Shutdown", Ran)
      /\ copies' = [a \in E2T |-> IF a \in S THEN reg[a] ELSE NoInst]
      /\ Step(Worker, "mark", Request("Shutdown", NoE2T, NoRan), NoNodeb, NoRans)
  BY DEF Expire, db
<1>2. NodebInv' /\ Known' = Known  BY <1>1, SameNodebs DEF IInv
<1>3. RegInv'  BY <1>1, <1>2, SameReg DEF IInv
<1>4. ThreadInv'  BY <1>1, <1>2, WorkerHolds, MarkHolds, StepInv DEF IInv
<1>5. CopyInv'
  <2>1. copies' \in [E2T -> Instance \cup {NoInst}]  BY <1>1 DEF IInv, RegInv
  <2>2. ASSUME NEW b \in E2T  PROVE ListsOnly(Known, copies'[b])
    BY <1>1 DEF IInv, RegInv, ListsOnly
  <2> QED  BY <1>2, <2>1, <2>2 DEF CopyInv, ListsOnly, Instance, RanBag
<1>6. CountInv'  BY <1>1, ArrivesCounted DEF IInv
<1> QED  BY <1>2, <1>3, <1>4, <1>5, <1>6 DEF IInv

LEMMA MarkInv ==
  ASSUME IInv, Mark
  PROVE  IInv'
<1>1. UNCHANGED <<dir, nodebs, ids, calls, overlap, cut>>  BY DEF Mark
<1>2. NodebInv' /\ Known' = Known  BY <1>1, SameNodebs DEF IInv
<1>3. PICK a \in E2T :
        /\ copies[a] # NoInst
        /\ \/ /\ reg' = [reg EXCEPT ![a] = [copies[a] EXCEPT !.state = "ToBeDeleted"]]
              /\ UNCHANGED <<copies, faults>>
              /\ Step(Worker, "getNodeb", Request("Shutdown", a, NoRan), NoNodeb, copies[a].rans)
           \/ /\ Fault /\ NextE2T(a)
              /\ reg' \in {reg, [reg EXCEPT ![a] = [copies[a] EXCEPT !.state = "ToBeDeleted"]]}
  BY DEF Mark
<1> DEFINE new == [copies[a] EXCEPT !.state = "ToBeDeleted"]
<1>4. copies[a] \in Instance /\ ListsOnly(Known, copies[a])  BY <1>3 DEF IInv, CopyInv
<1>5. new \in Instance /\ new.rans = copies[a].rans  BY <1>4 DEF Instance
<1>6. ListsOnly(Known, new)  BY <1>3, <1>4, <1>5 DEF ListsOnly
<1> HIDE DEF new
<1>7. RegInv'
  <2>1. CASE reg' = reg  BY <1>1, <1>2, <2>1, SameReg DEF IInv
  <2>2. CASE reg' = [reg EXCEPT ![a] = new]
    <3>1. reg' \in [E2T -> Instance \cup {NoInst}]  BY <1>5, <2>2 DEF IInv, RegInv
    <3>2. ASSUME NEW b \in E2T  PROVE ListsOnly(Known, reg'[b])
      BY <1>6, <2>2 DEF IInv, RegInv
    <3> QED  BY <1>1, <1>2, <3>1, <3>2 DEF IInv, RegInv, ListsOnly, Instance, RanBag
  <2> QED  BY <1>3, <2>1, <2>2 DEF new
<1>8. CASE /\ UNCHANGED <<copies, faults>>
           /\ Step(Worker, "getNodeb", Request("Shutdown", a, NoRan), NoNodeb, copies[a].rans)
  <2>1. copies[a].rans \in RanBag  BY <1>4 DEF Instance
  <2>2. Holds("getNodeb", Request("Shutdown", a, NoRan), NoNodeb, copies[a].rans, Known')
    BY <2>1, RequestType, NothingType DEF Holds, Pc, AllKinds
  <2>3. ThreadInv'  BY <1>2, <1>8, <2>2, WorkerHolds, StepInv DEF IInv
  <2> QED  BY <1>1, <1>7, <1>8, <2>3, RegistryStep
<1>9. CASE Fault /\ NextE2T(a)
  <2>1. ThreadInv' /\ CopyInv'  BY <1>2, <1>9, NextE2TInv
  <2>2. CountInv'  BY <1>1, <1>9, FaultType, CountsKept DEF IInv
  <2> QED  BY <1>2, <1>7, <2>1, <2>2 DEF IInv
<1> QED  BY <1>3, <1>8, <1>9

LEMMA GetNodebInv ==
  ASSUME IInv, GetNodeb
  PROVE  IInv'
<1> DEFINE a == job[Worker].addr
<1>1. Worker \in Proc /\ a \in E2T /\ job[Worker] \in Job
  BY WorkerHolds DEF GetNodeb, Holds
<1>2. UNCHANGED <<reg, dir, nodebs, ids, calls, overlap, cut>>  BY DEF GetNodeb, db
<1>3. NodebInv' /\ Known' = Known  BY <1>2, SameNodebs DEF IInv
<1>4. RegInv'  BY <1>2, <1>3, SameReg DEF IInv
<1>5. CASE UNCHANGED faults /\ NextE2T(a)
  <2>1. ThreadInv' /\ CopyInv'  BY <1>1, <1>3, <1>5, NextE2TInv
  <2>2. CountInv'  BY <1>2, <1>5, CountsKept DEF IInv
  <2> QED  BY <1>3, <1>4, <2>1, <2>2 DEF IInv
<1>6. ASSUME NEW r \in Ran, todo[Worker][r] > 0, UNCHANGED <<faults, copies>>,
             nodebs[r] # NoNodeb,
             Step(Worker, "putNodeb", Request("Shutdown", a, r), nodebs[r], Handled(Worker, r))
      PROVE  IInv'
  <2>1. nodebs[r] \in CleanNodeb /\ r \in Known'  BY <1>3, <1>6, KnownNodeb DEF IInv
  <2>2. Handled(Worker, r) \in RanBag  BY <1>1, <1>6, HandledType DEF IInv
  <2>3. Request("Shutdown", a, r) \in Job /\ Request("Shutdown", a, r).ran = r
        /\ Request("Shutdown", a, r).addr = a /\ Request("Shutdown", a, r).kind = "Shutdown"
    BY <1>1 DEF Request, NoJob, Job, AllKinds
  <2>4. Holds("putNodeb", Request("Shutdown", a, r), nodebs[r], Handled(Worker, r), Known')
    BY <1>1, <1>6, <2>1, <2>2, <2>3 DEF Holds, Pc
  <2>5. ThreadInv'  BY <1>1, <1>3, <1>6, <2>4, StepInv DEF IInv
  <2> QED  BY <1>2, <1>6, <2>5, ReadInv
<1>7. ASSUME NEW r \in Ran, todo[Worker][r] > 0, Fault, UNCHANGED copies,
             Step(Worker, "getNodeb", job[Worker], NoNodeb, Handled(Worker, r))
      PROVE  IInv'
  <2>1. Handled(Worker, r) \in RanBag  BY <1>1, <1>7, HandledType DEF IInv
  <2>2. Holds("getNodeb", job[Worker], NoNodeb, Handled(Worker, r), Known')
    BY <1>1, <2>1, WorkerHolds DEF GetNodeb, Holds, Pc
  <2>3. ThreadInv'  BY <1>1, <1>3, <1>7, <2>2, StepInv DEF IInv
  <2> QED  BY <1>2, <1>7, <2>3, FaultType, ReadInv DEF IInv
<1> QED  BY <1>5, <1>6, <1>7 DEF GetNodeb

LEMMA PutNodebInv ==
  ASSUME IInv, PutNodeb
  PROVE  IInv'
<1> DEFINE off == Disconnected(nb[Worker])
           a   == job[Worker].addr
           r   == job[Worker].ran
<1>1. Worker \in Proc /\ a \in E2T /\ r \in Ran /\ todo[Worker] \in RanBag
  BY WorkerHolds DEF PutNodeb, Holds
<1>2. UNCHANGED <<reg, dir, ids, calls, overlap, cut>>  BY DEF PutNodeb
<1>3. off \in CleanNodeb  BY DEF Disconnected, CleanNodeb, Nodeb, Status
<1> HIDE DEF off
<1>4. CASE /\ Put(r, off) /\ UNCHANGED <<copies, faults>>
           /\ Step(Worker, "getNodeb", Request("Shutdown", a, NoRan), NoNodeb, todo[Worker])
  <2>1. NodebInv' /\ Known \subseteq Known'  BY <1>1, <1>2, <1>3, <1>4, PutInv DEF IInv
  <2>2. /\ Request("Shutdown", a, NoRan) \in Job /\ Request("Shutdown", a, NoRan).addr = a
        /\ Request("Shutdown", a, NoRan).kind = "Shutdown"
    BY <1>1 DEF Request, NoJob, Job, AllKinds
  <2>3. Holds("getNodeb", Request("Shutdown", a, NoRan), NoNodeb, todo[Worker], Known')
    BY <1>1, <2>2 DEF Holds, Pc
  <2>4. ThreadInv'  BY <1>1, <1>4, <2>1, <2>3, StepInv DEF IInv
  <2> QED  BY <1>2, <1>4, <2>1, <2>4, WriteInv
<1>5. CASE Fault /\ MaybePut(r, off) /\ (NextE2T(a) \/ UNCHANGED <<threads, copies>>)
  <2>1. NodebInv' /\ Known \subseteq Known'  BY <1>1, <1>2, <1>3, <1>5, MaybePutInv DEF IInv
  <2>2. ThreadInv' /\ CopyInv'
    <3>1. CASE NextE2T(a)  BY <1>1, <2>1, <3>1, NextE2TInv
    <3>2. CASE UNCHANGED threads /\ UNCHANGED copies
      BY <2>1, <3>2, WaitInv, SameCopies DEF IInv
    <3> QED  BY <1>5, <3>1, <3>2
  <2>3. RegInv'  BY <1>2, <2>1, SameReg DEF IInv
  <2>4. CountInv'  BY <1>2, <1>5, FaultType, CountsKept DEF IInv
  <2> QED  BY <2>1, <2>2, <2>3, <2>4 DEF IInv
<1> QED  BY <1>4, <1>5 DEF PutNodeb, off

LEMMA UnregisterStep ==
  ASSUME IInv, Unregister
  PROVE  IInv'
<1> DEFINE a == job[Worker].addr
<1>1. Worker \in Proc /\ a \in E2T  BY WorkerHolds DEF Unregister, Holds
<1>2. UNCHANGED <<nodebs, ids, calls, overlap, cut>>  BY DEF Unregister
<1>3. NodebInv' /\ Known' = Known  BY <1>2, SameNodebs DEF IInv
<1>4. ASSUME Registry!Unregister(a)  PROVE RegInv'
  BY <1>1, <1>2, <1>4, UnregisterInv DEF IInv
<1>5. CASE Registry!Unregister(a) /\ Goto(Worker, "unlist") /\ UNCHANGED <<copies, faults>>
  <2>1. Holds("unlist", job[Worker], nb[Worker], todo[Worker], Known')
    BY <1>1, WorkerHolds DEF Unregister, Holds, Pc
  <2>2. ThreadInv'  BY <1>1, <1>3, <1>5, <2>1, GotoInv DEF IInv
  <2> QED  BY <1>2, <1>4, <1>5, <2>2, RegistryStep
<1>6. CASE Fault /\ (Registry!Unregister(a) \/ UNCHANGED <<reg, dir>>) /\ NextE2T(a)
  <2>1. ThreadInv' /\ CopyInv'  BY <1>1, <1>3, <1>6, NextE2TInv
  <2>2. RegInv'
    <3>1. CASE UNCHANGED <<reg, dir>>  BY <1>3, <3>1, SameReg DEF IInv
    <3> QED  BY <1>4, <1>6, <3>1
  <2>3. CountInv'  BY <1>2, <1>6, FaultType, CountsKept DEF IInv
  <2> QED  BY <1>3, <2>1, <2>2, <2>3 DEF IInv
<1> QED  BY <1>5, <1>6 DEF Unregister

LEMMA UnlistStep ==
  ASSUME IInv, Unlist
  PROVE  IInv'
<1> DEFINE a == job[Worker].addr
<1>1. a \in E2T  BY WorkerHolds DEF Unlist, Holds
<1>2. UNCHANGED <<nodebs, ids, calls, overlap, cut>> /\ NextE2T(a)  BY DEF Unlist
<1>3. NodebInv' /\ Known' = Known  BY <1>2, SameNodebs DEF IInv
<1>4. ThreadInv' /\ CopyInv'  BY <1>1, <1>2, <1>3, NextE2TInv
<1>5. RegInv'
  <2>1. CASE Registry!Unlist(a)  BY <1>1, <1>2, <2>1, DirectoryInv DEF IInv
  <2>2. CASE UNCHANGED <<reg, dir>>  BY <1>3, <2>2, SameReg DEF IInv
  <2> QED  BY <2>1, <2>2 DEF Unlist
<1>6. UNCHANGED faults \/ faults' \in 0..MaxFaults  BY FaultType DEF Unlist, IInv
<1>7. CountInv'  BY <1>2, <1>6, CountsKept DEF IInv
<1> QED  BY <1>3, <1>4, <1>5, <1>7 DEF IInv
-----------------------------------------------------------------------------
(* Crash, and the theorems *)

LEMMA CrashInv ==
  ASSUME IInv, Crash
  PROVE  IInv'
<1>1. UNCHANGED <<reg, dir, nodebs, ids, calls, overlap, faults>>  BY DEF Crash, db
<1>2. NodebInv' /\ Known' = Known  BY <1>1, SameNodebs DEF IInv
<1>3. RegInv'  BY <1>1, <1>2, SameReg DEF IInv
<1>4. CopyInv'
  <2>1. copies' = [a \in E2T |-> NoInst]  BY DEF Crash, NoCopies
  <2> QED  BY <2>1 DEF CopyInv, ListsOnly
<1>5. ThreadInv'
  <2>1. /\ pc' = [p \in Proc |-> "idle"] /\ job' = [p \in Proc |-> NoJob]
        /\ nb' = [p \in Proc |-> NoNodeb] /\ todo' = [p \in Proc |-> NoRans]
    BY DEF Crash
  <2>2. ASSUME NEW q \in Proc
        PROVE  Holds(pc'[q], job'[q], nb'[q], todo'[q], Known')
    BY <2>1, IdleHolds
  <2>3. /\ pc' \in [Proc -> Pc] /\ job' \in [Proc -> Job]
        /\ nb' \in [Proc -> CleanNodeb \cup {NoNodeb}] /\ todo' \in [Proc -> RanBag]
    BY <2>1, NothingType DEF Pc
  <2> QED  BY <2>2, <2>3 DEF ThreadInv, CleanNodeb, Nodeb, RanBag, Job, Pc
<1>6. CountInv'
  <2> DEFINE interrupted == {p \in Proc : pc[p] # "idle"}
  <2>1. cut' = cut + Cardinality(interrupted) /\ cut' <= MaxCut  BY DEF Crash
  <2>2. Cardinality(interrupted) \in Nat
    <3>1. interrupted \subseteq Proc  OBVIOUS
    <3>2. IsFiniteSet(interrupted)  BY <3>1, FS_Subset, ConstantsOK
    <3> QED  BY <3>2, FS_CardinalityType
  <2> HIDE DEF interrupted
  <2>3. cut \in Nat /\ MaxCut \in Nat  BY ConstantsOK DEF IInv, CountInv
  <2>4. cut' \in 0..MaxCut  BY <2>1, <2>2, <2>3
  <2> QED  BY <1>1, <2>4 DEF IInv, CountInv
<1> QED  BY <1>2, <1>3, <1>4, <1>5, <1>6 DEF IInv

LEMMA InitInv == Init => IInv
<1> SUFFICES ASSUME Init PROVE IInv  OBVIOUS
<1>1. RegInv /\ CopyInv  BY DEF Init, NoCopies, RegInv, CopyInv, ListsOnly
<1>2. NodebInv  BY DEF Init, NodebInv
<1>3. ThreadInv
  <2>1. ASSUME NEW q \in Proc  PROVE Holds(pc[q], job[q], nb[q], todo[q], Known)
    BY IdleHolds DEF Init
  <2> QED  BY <2>1, NothingType DEF Init, ThreadInv, Pc
<1>4. CountInv
  <2>1. MaxCalls["none"] \in Nat  BY ConstantsOK DEF Overlaps
  <2> QED  BY <2>1, ConstantsOK DEF Init, CountInv, Overlaps
<1> QED  BY <1>1, <1>2, <1>3, <1>4 DEF IInv

LEMMA StutterInv ==
  ASSUME IInv, UNCHANGED vars
  PROVE  IInv'
<1>1. UNCHANGED <<reg, dir, nodebs, ids, copies, calls, overlap, faults, cut>> /\ UNCHANGED threads
  BY DEF vars, threads
<1>2. Known' = Known  BY <1>1 DEF Known
<1>3. ThreadInv'  BY <1>1, <1>2, WaitInv DEF IInv
<1> QED  BY <1>1, <1>3, ReadInv

LEMMA NextInv == IInv /\ [Next]_vars => IInv'
<1> SUFFICES ASSUME IInv, [Next]_vars PROVE IInv'  OBVIOUS
<1>1. ASSUME NEW p \in Proc, Arrive(p) \/ Continue(p)  PROVE IInv'
  BY <1>1, ArriveInv, ContinueInv
<1>2. ASSUME NEW S \in SUBSET E2T, Expire(S)  PROVE IInv'  BY <1>2, ExpireInv
<1>3. CASE ContinueWorker
  BY <1>3, MarkInv, GetNodebInv, PutNodebInv, UnregisterStep, UnlistStep DEF ContinueWorker
<1>4. CASE Crash  BY <1>4, CrashInv
<1>5. CASE Rest \/ UNCHANGED vars  BY <1>5, StutterInv DEF Rest
<1> QED  BY <1>1, <1>2, <1>3, <1>4, <1>5 DEF Next

LEMMA Invariance == Spec => []IInv
BY InitInv, NextInv, PTL DEF Spec

\* Every reachable state is well typed: no handler keeps a request, a nodeb or a
\* RAN list of the wrong kind between two database calls, and no loop over a RAN
\* list counts below zero.
THEOREM TypeCorrect == Spec => []TypeOK
<1>1. IInv => TypeOK
  BY DEF IInv, RegInv, CopyInv, NodebInv, ThreadInv, CountInv, TypeOK, CleanNodeb
<1> QED  BY <1>1, Invariance, PTL

\* A RAN that is SHUTTING_DOWN or SHUT_DOWN has no association, for any number of
\* RANs, E2Ts and goroutines, any overlap, any errors and crashes.
THEOREM ShutDownHasNoAssociation == Spec => []ShutDownIsDissociated
<1>1. IInv => ShutDownIsDissociated
  BY DEF IInv, NodebInv, CleanNodeb, ShutDownIsDissociated, HasStatus
<1> QED  BY <1>1, Invariance, PTL

\* A RAN in the list of an E2T has a record, so that the removal of an E2T never
\* gives up because a RAN is not found.
THEOREM ListedHasNodeb == Spec => []ListedRanHasNodeb
<1>1. IInv => ListedRanHasNodeb
  BY DEF IInv, RegInv, ListsOnly, Known, ListedRanHasNodeb
<1> QED  BY <1>1, Invariance, PTL
=============================================================================
