------------------------- MODULE E2ManagerCounts_proofs -------------------------
(***************************************************************************)
(* Proofs that count: how many RANs and E2Ts the failures of E2Manager may *)
(* leave in a bad state.  Each step acts on the RANs of its own request    *)
(* only (Local); as long as requests about one RAN do not overlap, what    *)
(* the other goroutines know of theirs stays true, and a RAN or an E2T is  *)
(* added to those left behind only by a step that fails or by a crash.     *)
(***************************************************************************)
EXTENDS E2Manager_proofs

-----------------------------------------------------------------------------
(* Cardinalities *)

LEMMA SubsetCount ==
  ASSUME NEW S, NEW T, NEW n \in Nat, NEW m \in Nat,
         IsFiniteSet(S), Cardinality(S) <= n, T \subseteq S, n <= m
  PROVE  IsFiniteSet(T) /\ Cardinality(T) <= m
<1>1. Cardinality(S) \in Nat  BY FS_CardinalityType
<1>2. IsFiniteSet(T) /\ Cardinality(T) <= Cardinality(S)  BY FS_Subset
<1>3. Cardinality(T) \in Nat  BY <1>2, FS_CardinalityType
<1> QED  BY <1>1, <1>2, <1>3

LEMMA MoreCount ==
  ASSUME NEW S, NEW T, NEW A, NEW n \in Nat, NEW m \in Nat, IsFiniteSet(A), IsFiniteSet(S),
         Cardinality(S) <= n, T \subseteq S \cup A, Cardinality(A) <= m
  PROVE  IsFiniteSet(T) /\ Cardinality(T) <= n + m
<1>1. Cardinality(S) \in Nat /\ Cardinality(A) \in Nat /\ Cardinality(S \cap A) \in Nat
  <2>1. IsFiniteSet(S \cap A)  BY FS_Subset
  <2> QED  BY <2>1, FS_CardinalityType
<1>2. /\ IsFiniteSet(S \cup A)
      /\ Cardinality(S \cup A) = Cardinality(S) + Cardinality(A) - Cardinality(S \cap A)
  BY FS_Union
<1>3. Cardinality(S \cup A) <= n + m /\ n + m \in Nat  BY <1>1, <1>2
<1> QED  BY <1>2, <1>3, SubsetCount

LEMMA OneMoreCount ==
  ASSUME NEW S, NEW T, NEW a, NEW n \in Nat, IsFiniteSet(S), Cardinality(S) <= n,
         T \subseteq S \cup {a}
  PROVE  IsFiniteSet(T) /\ Cardinality(T) <= n + 1
<1>1. IsFiniteSet({a}) /\ Cardinality({a}) = 1  BY FS_Singleton
<1>2. Cardinality({a}) <= 1 /\ 1 \in Nat  BY <1>1
<1> QED  BY <1>1, <1>2, MoreCount

LEMMA SpentType == ASSUME IInv PROVE faults \in Nat /\ cut \in Nat /\ faults + cut \in Nat
BY ConstantsOK DEF IInv, CountInv
-----------------------------------------------------------------------------
(* One goroutine moves *)

Only(p) ==
  \A q \in Proc : q # p => /\ pc'[q] = pc[q] /\ job'[q] = job[q]
                           /\ nb'[q] = nb[q] /\ todo'[q] = todo[q]
Becomes(p, l, j, n, t) == pc'[p] = l /\ job'[p] = j /\ nb'[p] = n /\ todo'[p] = t
Ends(p) == pc'[p] = "idle" /\ job'[p] = NoJob
Stays(p) == Becomes(p, pc[p], job[p], nb[p], todo[p])

LEMMA StepOnly ==
  ASSUME IInv, NEW p \in Proc, NEW l, NEW j, NEW n, NEW t, Step(p, l, j, n, t)
  PROVE  Only(p) /\ Becomes(p, l, j, n, t)
BY DEF IInv, ThreadInv, Step, Only, Becomes

LEMMA GotoOnly ==
  ASSUME IInv, NEW p \in Proc, NEW l, Goto(p, l)
  PROVE  Only(p) /\ Becomes(p, l, job[p], nb[p], todo[p])
BY StepOnly DEF Goto

LEMMA EndOnly ==
  ASSUME IInv, NEW p \in Proc, End(p)
  PROVE  Only(p) /\ Ends(p)
<1>1. Only(p) /\ Becomes(p, "idle", NoJob, NoNodeb, NoRans)  BY StepOnly DEF End
<1> QED  BY <1>1 DEF Becomes, Ends

LEMMA StayOnly ==
  ASSUME NEW p \in Proc, UNCHANGED threads
  PROVE  Only(p) /\ Stays(p)
BY DEF threads, Only, Stays, Becomes

LEMMA FailsOnly ==
  ASSUME IInv, NEW p \in Proc, Fails(p)
  PROVE  Only(p) /\ faults' = faults + 1 /\ (Ends(p) \/ Stays(p))
<1>1. faults' = faults + 1  BY DEF Fails, Fault
<1>2. CASE End(p)  BY <1>1, <1>2, EndOnly
<1>3. CASE UNCHANGED threads  BY <1>1, <1>3, StayOnly
<1> QED  BY <1>2, <1>3 DEF Fails

LEMMA NextRanOnly ==
  ASSUME IInv, NEW p \in Proc, NEW r \in Ran, pc[p] \in {"fetch", "down", "removeRan"},
         todo[p][r] > 0, NextRan(p, r)
  PROVE  /\ Only(p)
         /\ \/ Ends(p)
            \/ /\ job[p].kind = "TermInit"
               /\ Becomes(p, "fetch", Request("TermInit", NoE2T, NoRan), NoNodeb, Handled(p, r))
<1>1. CASE End(p)  BY <1>1, EndOnly
<1>2. CASE /\ Handled(p, r) # NoRans
           /\ Step(p, "fetch", Request(job[p].kind, NoE2T, NoRan), NoNodeb, Handled(p, r))
  <2>1. job[p].kind = "TermInit"  BY <1>2, OneRanOnly DEF IInv
  <2>2. /\ Only(p)
        /\ Becomes(p, "fetch", Request(job[p].kind, NoE2T, NoRan), NoNodeb, Handled(p, r))
    BY <1>2, StepOnly
  <2> QED  BY <2>1, <2>2
<1> QED  BY <1>1, <1>2 DEF NextRan

LEMMA NextE2TOnly ==
  ASSUME IInv, NEW a \in E2T, NextE2T(a)
  PROVE  /\ Only(Worker) /\ copies' = [copies EXCEPT ![a] = NoInst]
         /\ Ends(Worker)
            \/ Becomes(Worker, "mark", Request("Shutdown", NoE2T, NoRan), NoNodeb, NoRans)
<1>1. Worker \in Proc  BY ConstantsOK
<1>2. CASE End(Worker)  BY <1>1, <1>2, EndOnly DEF NextE2T
<1>3. CASE Step(Worker, "mark", Request("Shutdown", NoE2T, NoRan), NoNodeb, NoRans)
  BY <1>1, <1>3, StepOnly DEF NextE2T
<1> QED  BY <1>2, <1>3 DEF NextE2T

\* the RANs a goroutine is about follow from where it is
LEMMA ScopeOf ==
  ASSUME NEW l, NEW j, NEW n, NEW t, NEW k, Holds(l, j, n, t, k)
  PROVE  /\ l \in SetupPcs \cup {"writeBack"} => j.ran \in Ran /\ Scope(j) = {j.ran}
         /\ l \in {"register", "list", "listRans", "redGet", "redPut", "clearRans"} \cup WorkerPcs
              => Scope(j) = Ran
         /\ l \in {"fetch", "down", "dissociate", "clearAssoc", "removeRan"} =>
              /\ j.kind = "Lost" => j.ran \in Ran /\ Scope(j) = {j.ran}
              /\ j.kind # "Lost" => j.kind = "TermInit" /\ Scope(j) = Ran
         /\ l \in {"down", "dissociate", "clearAssoc", "removeRan", "redPut", "putNodeb"}
              => j.ran \in Ran /\ j.ran \in Scope(j)
BY DEF Holds, Scope, SetupPcs, WorkerPcs

LEMMA ScopeNow ==
  ASSUME IInv, NEW p \in Proc
  PROVE  /\ pc[p] \in SetupPcs \cup {"writeBack"}
              => job[p].ran \in Ran /\ Scope(job[p]) = {job[p].ran}
         /\ pc[p] \in {"register", "list", "listRans", "redGet", "redPut", "clearRans"} \cup WorkerPcs
              => Scope(job[p]) = Ran
         /\ pc[p] \in {"fetch", "down", "dissociate", "clearAssoc", "removeRan"} =>
              /\ job[p].kind = "Lost" => job[p].ran \in Ran /\ Scope(job[p]) = {job[p].ran}
              /\ job[p].kind # "Lost" => job[p].kind = "TermInit" /\ Scope(job[p]) = Ran
         /\ pc[p] \in {"down", "dissociate", "clearAssoc", "removeRan", "redPut", "putNodeb"}
              => job[p].ran \in Ran /\ job[p].ran \in Scope(job[p])
BY HoldsNow, ScopeOf
-----------------------------------------------------------------------------
(* Every step of a request: of one goroutine, about the RANs of its request *)

Acts(p) ==
  /\ pc[p] # "idle" /\ Only(p) /\ (pc'[p] = "idle" \/ Scope(job'[p]) = Scope(job[p]))
  /\ UNCHANGED <<calls, overlap, cut>> /\ faults <= faults'

LEMMA FaultsGrow ==
  ASSUME IInv, UNCHANGED faults \/ Fault  PROVE faults <= faults'
BY SpentType DEF Fault

LEMMA SetupActs ==
  ASSUME IInv, NEW p \in Proc,
         LookupRan(p) \/ SaveNew(p) \/ AddMember(p) \/ Associate(p) \/ AddRan(p)
  PROVE  Acts(p) /\ (job'[p] = job[p] \/ Ends(p))
<1>1. CASE LookupRan(p)
  <2>1. pc[p] # "idle" /\ UNCHANGED <<calls, overlap, cut>> /\ (UNCHANGED faults \/ Fault)
    BY <1>1 DEF LookupRan
  <2>2. Only(p) /\ (job'[p] = job[p] \/ Ends(p))
    BY <1>1, StepOnly, EndOnly DEF LookupRan, NewRan, Becomes
  <2> QED  BY <1>1, <2>1, <2>2, FaultsGrow DEF Acts, Ends, LookupRan
<1>2. CASE SaveNew(p)
  <2>1. pc[p] = "saveNew" /\ UNCHANGED <<calls, overlap, cut>> /\ (UNCHANGED faults \/ Fault)
    BY <1>2 DEF SaveNew, Fails
  <2>2. Only(p) /\ (job'[p] = job[p] \/ Ends(p))
    BY <1>2, GotoOnly, FailsOnly DEF SaveNew, Becomes, Stays
  <2> QED  BY <2>1, <2>2, FaultsGrow DEF Acts, Ends
<1>3. CASE AddMember(p)
  <2>1. pc[p] = "addMember" /\ UNCHANGED <<calls, overlap, cut>> /\ (UNCHANGED faults \/ Fault)
    BY <1>3 DEF AddMember
  <2>2. Only(p) /\ (job'[p] = job[p] \/ Ends(p))
    BY <1>3, GotoOnly, EndOnly DEF AddMember, Becomes
  <2> QED  BY <2>1, <2>2, FaultsGrow DEF Acts, Ends
<1>4. CASE Associate(p)
  <2>1. pc[p] = "associate" /\ UNCHANGED <<calls, overlap, cut>> /\ (UNCHANGED faults \/ Fault)
    BY <1>4 DEF Associate, Fails
  <2>2. Only(p) /\ (job'[p] = job[p] \/ Ends(p))
    BY <1>4, GotoOnly, FailsOnly, EndOnly DEF Associate, Becomes, Stays
  <2> QED  BY <2>1, <2>2, FaultsGrow DEF Acts, Ends
<1>5. CASE AddRan(p)
  <2>1. pc[p] = "addRan" /\ UNCHANGED <<calls, overlap, cut>> /\ (UNCHANGED faults \/ Fault)
    BY <1>5 DEF AddRan
  <2>2. Only(p) /\ Ends(p)  BY <1>5, EndOnly DEF AddRan
  <2> QED  BY <2>1, <2>2, FaultsGrow DEF Acts, Ends
<1> QED  BY <1>1, <1>2, <1>3, <1>4, <1>5

\* a step within the loop over the RANs of todo keeps what the request is about
LEMMA LoopScope ==
  ASSUME IInv, IInv', NEW p \in Proc,
         {pc[p], pc'[p]} \subseteq {"fetch", "down", "dissociate", "clearAssoc", "removeRan"},
         job'[p].kind = job[p].kind, job[p].kind = "Lost" => todo'[p] = todo[p]
  PROVE  Scope(job'[p]) = Scope(job[p])
<1>1. CASE job[p].kind = "Lost"
  <2>1. job[p].ran \in Ran /\ todo[p] = [NoRans EXCEPT ![job[p].ran] = 1]
    BY <1>1, HoldsNow DEF Holds
  <2>2. Holds(pc'[p], job'[p], nb'[p], todo'[p], Known')  BY DEF IInv, ThreadInv
  <2>3. job'[p].ran \in Ran /\ todo[p] = [NoRans EXCEPT ![job'[p].ran] = 1]
    BY <1>1, <2>2 DEF Holds
  <2>4. job'[p].ran = job[p].ran  BY <2>1, <2>3 DEF NoRans
  <2> QED  BY <1>1, <2>4 DEF Scope
<1>2. CASE job[p].kind # "Lost"
  <2>1. job[p].kind = "TermInit"  BY <1>2, HoldsNow DEF Holds
  <2> QED  BY <2>1 DEF Scope
<1> QED  BY <1>1, <1>2

LEMMA DisconnectActs ==
  ASSUME IInv, IInv', NEW p \in Proc,
         Fetch(p) \/ Down(p) \/ Dissociate(p) \/ ClearAssoc(p) \/ RemoveRan(p)
  PROVE  Acts(p)
<1> DEFINE L == {"fetch", "down", "dissociate", "clearAssoc", "removeRan"}
<1> DEFINE Moves == /\ Only(p)
                    /\ \/ Ends(p)
                       \/ /\ pc'[p] \in L /\ job'[p].kind = job[p].kind
                          /\ job[p].kind = "Lost" => todo'[p] = todo[p]
<1>1. ASSUME NEW r \in Ran, pc[p] \in {"fetch", "down", "removeRan"}, todo[p][r] > 0, NextRan(p, r)
      PROVE  Moves
  BY <1>1, NextRanOnly, RequestType DEF Becomes, AllKinds
<1>2. CASE Fetch(p)
  <2>1. pc[p] = "fetch" /\ UNCHANGED <<calls, overlap, cut>> /\ (UNCHANGED faults \/ Fault)
    BY <1>2 DEF Fetch
  <2>2. ASSUME NEW r \in Ran, NEW a,
               Step(p, "down", Request(job[p].kind, a, r), nodebs[r], todo[p])
        PROVE  Moves
    <3>1. Only(p) /\ Becomes(p, "down", Request(job[p].kind, a, r), nodebs[r], todo[p])
      BY <2>2, StepOnly
    <3>2. Request(job[p].kind, a, r).kind = job[p].kind  BY DEF Request, NoJob
    <3> QED  BY <3>1, <3>2 DEF Becomes
  <2>3. Moves  BY <1>1, <1>2, <2>1, <2>2, EndOnly DEF Fetch
  <2> QED  BY <2>1, <2>3, LoopScope, FaultsGrow DEF Acts, Ends
<1>3. CASE Down(p)
  <2>1. pc[p] = "down" /\ UNCHANGED <<calls, overlap, cut>> /\ (UNCHANGED faults \/ Fault)
        /\ job[p].ran \in Ran /\ todo[p][job[p].ran] > 0
    BY <1>3, HoldsNow DEF Down, Fails, Holds
  <2>2. ASSUME Goto(p, "dissociate") \/ Fails(p)  PROVE Moves
    BY <2>1, <2>2, GotoOnly, FailsOnly DEF Becomes, Stays
  <2>3. Moves  BY <1>1, <1>3, <2>1, <2>2 DEF Down
  <2> QED  BY <2>1, <2>3, LoopScope, FaultsGrow DEF Acts, Ends
<1>4. CASE Dissociate(p)
  <2>1. pc[p] = "dissociate" /\ UNCHANGED <<calls, overlap, cut>> /\ (UNCHANGED faults \/ Fault)
    BY <1>4 DEF Dissociate
  <2>2. Moves  BY <1>4, StepOnly, EndOnly DEF Dissociate, Becomes
  <2> QED  BY <2>1, <2>2, LoopScope, FaultsGrow DEF Acts, Ends
<1>5. CASE ClearAssoc(p)
  <2>1. pc[p] = "clearAssoc" /\ UNCHANGED <<calls, overlap, cut>> /\ (UNCHANGED faults \/ Fault)
    BY <1>5 DEF ClearAssoc, Fails
  <2>2. Moves  BY <1>5, <2>1, GotoOnly, FailsOnly DEF ClearAssoc, Becomes, Stays
  <2> QED  BY <2>1, <2>2, LoopScope, FaultsGrow DEF Acts, Ends
<1>6. CASE RemoveRan(p)
  <2>1. pc[p] = "removeRan" /\ UNCHANGED <<calls, overlap, cut>> /\ (UNCHANGED faults \/ Fault)
        /\ job[p].ran \in Ran /\ todo[p][job[p].ran] > 0
    BY <1>6, HoldsNow DEF RemoveRan, Holds
  <2>2. Moves  BY <1>1, <1>6, <2>1, EndOnly DEF RemoveRan
  <2> QED  BY <2>1, <2>2, LoopScope, FaultsGrow DEF Acts, Ends
<1> QED  BY <1>2, <1>3, <1>4, <1>5, <1>6

\* a request about every RAN stays one
LEMMA FullScope ==
  ASSUME IInv', NEW p \in Proc, Scope(job[p]) = Ran,
         pc'[p] \in {"register", "list", "listRans", "redGet", "redPut", "clearRans"} \cup WorkerPcs
  PROVE  Scope(job'[p]) = Scope(job[p])
<1>1. Holds(pc'[p], job'[p], nb'[p], todo'[p], Known')  BY DEF IInv, ThreadInv
<1> QED  BY <1>1, ScopeOf

LEMMA FullActs ==
  ASSUME IInv, IInv', NEW p \in Proc,
         \/ Register(p) \/ List(p)
         \/ ListRans(p) \/ RedGet(p) \/ RedPut(p) \/ PassDone(p) \/ ClearRans(p)
  PROVE  Acts(p) /\ Scope(job[p]) = Ran
<1> DEFINE L == {"register", "list", "listRans", "redGet", "redPut", "clearRans"}
<1> DEFINE Moves == Only(p) /\ (Ends(p) \/ pc'[p] \in L)
<1>1. CASE Register(p)
  <2>1. pc[p] = "register" /\ UNCHANGED <<calls, overlap, cut>> /\ (UNCHANGED faults \/ Fault)
    BY <1>1 DEF Register
  <2>2. Moves  BY <1>1, GotoOnly, EndOnly DEF Register, Becomes
  <2> QED  BY <2>1, <2>2, FullScope, ScopeNow, FaultsGrow DEF Acts, Ends
<1>2. CASE List(p)
  <2>1. pc[p] = "list" /\ UNCHANGED <<calls, overlap, cut>> /\ (UNCHANGED faults \/ Fault)
    BY <1>2 DEF List
  <2>2. Moves  BY <1>2, EndOnly DEF List
  <2> QED  BY <2>1, <2>2, FullScope, ScopeNow, FaultsGrow DEF Acts, Ends
<1>3. CASE ListRans(p)
  <2>1. pc[p] = "listRans" /\ UNCHANGED <<calls, overlap, cut>> /\ (UNCHANGED faults \/ Fault)
    BY <1>3 DEF ListRans
  <2>2. Moves  BY <1>3, StepOnly, EndOnly DEF ListRans, Becomes
  <2> QED  BY <2>1, <2>2, FullScope, ScopeNow, FaultsGrow DEF Acts, Ends
<1>4. CASE RedGet(p)
  <2>1. pc[p] = "redGet" /\ UNCHANGED <<calls, overlap, cut>> /\ (UNCHANGED faults \/ Fault)
    BY <1>4 DEF RedGet
  <2>2. Moves  BY <1>4, StepOnly, EndOnly DEF RedGet, Becomes
  <2> QED  BY <2>1, <2>2, FullScope, ScopeNow, FaultsGrow DEF Acts, Ends
<1>5. CASE RedPut(p)
  <2>1. pc[p] = "redPut" /\ UNCHANGED <<calls, overlap, cut>> /\ (UNCHANGED faults \/ Fault)
    BY <1>5 DEF RedPut, Fails
  <2>2. Moves  BY <1>5, <2>1, StepOnly, FailsOnly DEF RedPut, Becomes, Stays
  <2> QED  BY <2>1, <2>2, FullScope, ScopeNow, FaultsGrow DEF Acts, Ends
<1>6. CASE PassDone(p)
  <2>1. pc[p] = "redGet" /\ UNCHANGED <<calls, overlap, cut>> /\ UNCHANGED faults
    BY <1>6 DEF PassDone
  <2>2. Moves  BY <1>6, GotoOnly, EndOnly DEF PassDone, Becomes
  <2> QED  BY <2>1, <2>2, FullScope, ScopeNow, FaultsGrow DEF Acts, Ends
<1>7. CASE ClearRans(p)
  <2>1. pc[p] = "clearRans" /\ UNCHANGED <<calls, overlap, cut>>
    BY <1>7 DEF ClearRans
  <2>2. Moves  BY <1>7, StepOnly, EndOnly DEF ClearRans, Becomes
  <2>3. ASSUME NEW unsaved \in SUBSET {a \in E2T : Registry!Directory[a] > 0 /\ reg[a] # NoInst},
               faults' = faults + Cardinality(unsaved)
        PROVE  faults <= faults'
    <3>1. IsFiniteSet(unsaved)  BY FS_Subset, ConstantsOK
    <3>2. Cardinality(unsaved) \in Nat  BY <3>1, FS_CardinalityType
    <3> QED  BY <2>3, <3>2, SpentType
  <2>4. faults <= faults'  BY <1>7, <2>3, FaultsGrow DEF ClearRans
  <2> QED  BY <2>1, <2>2, <2>4, FullScope, ScopeNow DEF Acts, Ends
<1> QED  BY <1>1, <1>2, <1>3, <1>4, <1>5, <1>6, <1>7

LEMMA WriteBackActs ==
  ASSUME IInv, NEW p \in Proc, WriteBack(p)
  PROVE  Acts(p)
<1>1. pc[p] = "writeBack" /\ UNCHANGED <<calls, overlap, cut>> /\ (UNCHANGED faults \/ Fault)
  BY DEF WriteBack, Fails
<1>2. Only(p) /\ (Ends(p) \/ Stays(p))  BY EndOnly, FailsOnly DEF WriteBack
<1> QED  BY <1>1, <1>2, FaultsGrow DEF Acts, Ends, Stays, Becomes

LEMMA WorkerActs ==
  ASSUME IInv, IInv', ContinueWorker
  PROVE  /\ Worker \in Proc /\ Acts(Worker) /\ Scope(job[Worker]) = Ran
         /\ Ends(Worker) \/ pc'[Worker] \in WorkerPcs
<1> DEFINE Moves == Only(Worker) /\ (Ends(Worker) \/ pc'[Worker] \in WorkerPcs)
<1>1. Worker \in Proc  BY ConstantsOK
<1>2. ASSUME NEW a \in E2T, NextE2T(a)  PROVE Moves
  BY <1>2, NextE2TOnly DEF Becomes, WorkerPcs
<1>3. CASE Mark
  <2>1. pc[Worker] = "mark" /\ UNCHANGED <<calls, overlap, cut>> /\ (UNCHANGED faults \/ Fault)
    BY <1>3 DEF Mark
  <2>2. Moves  BY <1>1, <1>2, <1>3, StepOnly DEF Mark, Becomes, WorkerPcs
  <2> QED  BY <1>1, <2>1, <2>2, FullScope, ScopeNow, FaultsGrow DEF Acts, Ends, WorkerPcs
<1>4. CASE GetNodeb
  <2>1. pc[Worker] = "getNodeb" /\ UNCHANGED <<calls, overlap, cut>> /\ (UNCHANGED faults \/ Fault)
        /\ job[Worker].addr \in E2T
    BY <1>4, WorkerHolds DEF GetNodeb, Holds
  <2>2. Moves  BY <1>1, <1>2, <1>4, <2>1, StepOnly DEF GetNodeb, Becomes, WorkerPcs
  <2> QED  BY <1>1, <2>1, <2>2, FullScope, ScopeNow, FaultsGrow DEF Acts, Ends, WorkerPcs
<1>5. CASE PutNodeb
  <2>1. pc[Worker] = "putNodeb" /\ UNCHANGED <<calls, overlap, cut>> /\ (UNCHANGED faults \/ Fault)
        /\ job[Worker].addr \in E2T
    BY <1>5, WorkerHolds DEF PutNodeb, Holds
  <2>2. Moves
    BY <1>1, <1>2, <1>5, <2>1, StepOnly, StayOnly DEF PutNodeb, Becomes, Stays, WorkerPcs
  <2> QED  BY <1>1, <2>1, <2>2, FullScope, ScopeNow, FaultsGrow DEF Acts, Ends, WorkerPcs
<1>6. CASE Unregister
  <2>1. pc[Worker] = "getNodeb" /\ UNCHANGED <<calls, overlap, cut>> /\ (UNCHANGED faults \/ Fault)
        /\ job[Worker].addr \in E2T
    BY <1>6, WorkerHolds DEF Unregister, Holds
  <2>2. Moves  BY <1>1, <1>2, <1>6, <2>1, GotoOnly DEF Unregister, Becomes, WorkerPcs
  <2> QED  BY <1>1, <2>1, <2>2, FullScope, ScopeNow, FaultsGrow DEF Acts, Ends, WorkerPcs
<1>7. CASE Unlist
  <2>1. pc[Worker] = "unlist" /\ UNCHANGED <<calls, overlap, cut>> /\ (UNCHANGED faults \/ Fault)
        /\ job[Worker].addr \in E2T
    BY <1>7, WorkerHolds DEF Unlist, Holds
  <2>2. Moves  BY <1>1, <1>2, <1>7, <2>1 DEF Unlist
  <2> QED  BY <1>1, <2>1, <2>2, FullScope, ScopeNow, FaultsGrow DEF Acts, Ends, WorkerPcs
<1> QED  BY <1>1, <1>3, <1>4, <1>5, <1>6, <1>7 DEF ContinueWorker

LEMMA ContinueActs ==
  ASSUME IInv, IInv', NEW p \in Proc, Continue(p)
  PROVE  Acts(p)
BY SetupActs, DisconnectActs, FullActs, WriteBackActs DEF Continue
-----------------------------------------------------------------------------
(* What a step writes is about the RANs of its request *)

Local(p) ==
  /\ \A r \in Ran \ Scope(job[p]) :
       /\ nodebs'[r] = nodebs[r] /\ (r \in ids' <=> r \in ids)
       /\ \A a \in E2T : Lists(a, r)' <=> Lists(a, r)
  /\ Scope(job[p]) # Ran => UNCHANGED copies /\ \A a \in E2T : reg[a] # NoInst => reg'[a] # NoInst

LEMMA PutOnly ==
  ASSUME IInv, NEW r \in Ran, NEW n, Put(r, n)
  PROVE  nodebs'[r] = n /\ \A s \in Ran : s # r => nodebs'[s] = nodebs[s]
BY DEF IInv, NodebInv, Put

LEMMA MaybePutOnly ==
  ASSUME IInv, NEW r \in Ran, NEW n, MaybePut(r, n)
  PROVE  nodebs'[r] \in {n, nodebs[r]} /\ \A s \in Ran : s # r => nodebs'[s] = nodebs[s]
BY PutOnly DEF MaybePut

LEMMA AddRanOnly ==
  ASSUME IInv, NEW a \in E2T, NEW r \in Ran, Registry!AddRan(a, r)
  PROVE  /\ reg[a] # NoInst /\ Lists(a, r)'
         /\ \A b \in E2T : reg'[b] # NoInst <=> reg[b] # NoInst
         /\ \A b \in E2T, s \in Ran : s # r => (Lists(b, s)' <=> Lists(b, s))
<1>1. reg[a] \in Instance /\ reg' = [reg EXCEPT ![a].rans[r] = @ + 1]
  BY DEF Registry!AddRan, Registry!Exists, IInv, RegInv
<1> DEFINE new == [reg[a] EXCEPT !.rans[r] = @ + 1]
<1>2. new \in Instance  BY <1>1 DEF Instance, RanBag
<1>3. reg' = [reg EXCEPT ![a] = new]  BY <1>1
<1>4. new.rans[r] > 0 /\ \A s \in Ran : s # r => new.rans[s] = reg[a].rans[s]
  BY <1>1 DEF Instance, RanBag
<1> HIDE DEF new
<1>5. reg'[a] = new /\ \A b \in E2T : b # a => reg'[b] = reg[b]  BY <1>3 DEF IInv, RegInv
<1>6. new # NoInst /\ reg[a] # NoInst  BY <1>1, <1>2, ConstantsOK
<1> QED  BY <1>4, <1>5, <1>6 DEF Lists

LEMMA RemoveRanOnly ==
  ASSUME IInv, NEW a \in E2T, NEW r \in Ran, Registry!RemoveRan(a, r)
  PROVE  /\ \A b \in E2T : reg'[b] # NoInst <=> reg[b] # NoInst
         /\ \A b \in E2T, s \in Ran : s # r => (Lists(b, s)' <=> Lists(b, s))
         /\ \A b \in E2T, s \in Ran : Lists(b, s)' => Lists(b, s)
<1>1. reg[a] \in Instance /\ reg' = [reg EXCEPT ![a].rans[r] = 0]
  BY DEF Registry!RemoveRan, Registry!Exists, IInv, RegInv
<1> DEFINE new == [reg[a] EXCEPT !.rans[r] = 0]
<1>2. new \in Instance  BY <1>1 DEF Instance, RanBag
<1>3. reg' = [reg EXCEPT ![a] = new]  BY <1>1
<1>4. new.rans[r] = 0 /\ \A s \in Ran : s # r => new.rans[s] = reg[a].rans[s]
  BY <1>1 DEF Instance, RanBag
<1> HIDE DEF new
<1>5. reg'[a] = new /\ \A b \in E2T : b # a => reg'[b] = reg[b]  BY <1>3 DEF IInv, RegInv
<1>6. new # NoInst /\ reg[a] # NoInst  BY <1>1, <1>2, ConstantsOK
<1> QED  BY <1>4, <1>5, <1>6 DEF Lists

LEMMA FullLocal == ASSUME NEW p \in Proc, Scope(job[p]) = Ran PROVE Local(p)
BY DEF Local

LEMMA ReadLocal ==
  ASSUME NEW p \in Proc, UNCHANGED <<reg, nodebs, ids, copies>>
  PROVE  Local(p)
BY DEF Local, Lists

LEMMA WriteLocal ==
  ASSUME IInv, NEW p \in Proc, job[p].ran \in Ran, job[p].ran \in Scope(job[p]), NEW n,
         MaybePut(job[p].ran, n), UNCHANGED <<reg, ids, copies>>
  PROVE  Local(p)
<1>1. \A r \in Ran \ Scope(job[p]) : nodebs'[r] = nodebs[r]  BY MaybePutOnly
<1> QED  BY <1>1 DEF Local, Lists

LEMMA ContinueLocal ==
  ASSUME IInv, IInv', NEW p \in Proc, Continue(p)
  PROVE  Local(p)
<1>1. CASE LookupRan(p) \/ Fetch(p) \/ Dissociate(p)
  BY <1>1, ReadLocal DEF LookupRan, Fetch, Dissociate, db
<1>2. CASE SaveNew(p)
  BY <1>2, ScopeNow, WriteLocal DEF SaveNew, MaybePut, SetupPcs
<1>3. CASE Associate(p)
  <2>1. PICK n : MaybePut(job[p].ran, n)  BY <1>3 DEF Associate, MaybePut
  <2> QED  BY <1>3, <2>1, ScopeNow, WriteLocal DEF Associate, SetupPcs
<1>4. CASE Down(p)
  <2>1. PICK n : MaybePut(job[p].ran, n)  BY <1>4 DEF Down, MaybePut
  <2> QED  BY <1>4, <2>1, ScopeNow, WriteLocal DEF Down
<1>5. CASE ClearAssoc(p)
  <2>1. PICK n : MaybePut(job[p].ran, n)  BY <1>5 DEF ClearAssoc, MaybePut
  <2> QED  BY <1>5, <2>1, ScopeNow, WriteLocal DEF ClearAssoc
<1>6. CASE WriteBack(p)
  BY <1>6, ScopeNow, WriteLocal DEF WriteBack, MaybePut
<1>7. CASE AddMember(p)
  <2>1. job[p].ran \in Scope(job[p]) /\ ids' \in {ids, ids \cup {job[p].ran}}
        /\ UNCHANGED <<reg, nodebs, copies>>
    BY <1>7, ScopeNow DEF AddMember, SetupPcs
  <2> QED  BY <2>1 DEF Local, Lists
<1>8. CASE AddRan(p)
  <2>1. job[p].ran \in Ran /\ Scope(job[p]) = {job[p].ran} /\ job[p].addr \in E2T
    BY <1>8, ScopeNow, HoldsNow DEF AddRan, Holds, SetupPcs
  <2>2. UNCHANGED <<nodebs, ids, copies>>  BY <1>8 DEF AddRan
  <2>3. CASE Registry!AddRan(job[p].addr, job[p].ran)
    BY <2>1, <2>2, <2>3, AddRanOnly DEF Local
  <2>4. CASE UNCHANGED <<reg, dir>>  BY <2>2, <2>4, ReadLocal
  <2> QED  BY <1>8, <2>3, <2>4 DEF AddRan
<1>9. CASE RemoveRan(p)
  <2>1. job[p].ran \in Ran /\ job[p].ran \in Scope(job[p]) /\ job[p].addr \in E2T \cup {NoE2T}
    BY <1>9, ScopeNow, HoldsNow DEF RemoveRan, Holds, Job
  <2>2. UNCHANGED <<nodebs, ids, copies>>  BY <1>9 DEF RemoveRan
  <2>3. CASE job[p].addr # NoE2T /\ Registry!RemoveRan(job[p].addr, job[p].ran)
    BY <2>1, <2>2, <2>3, RemoveRanOnly DEF Local
  <2>4. CASE UNCHANGED <<reg, dir>>  BY <2>2, <2>4, ReadLocal
  <2> QED  BY <1>9, <2>3, <2>4 DEF RemoveRan
<1> QED
  BY <1>1, <1>2, <1>3, <1>4, <1>5, <1>6, <1>7, <1>8, <1>9, FullActs, FullLocal DEF Continue
-----------------------------------------------------------------------------
(* Requests about different RANs do not disturb each other *)

\* everything a goroutine knows, as long as its RANs are left alone
LEMMA TiedElsewhere ==
  ASSUME IInv, IInv', NEW p \in Proc, NEW q \in Proc, Local(p), pc[q] # "idle",
         Scope(job[q]) \cap Scope(job[p]) = {}, UNCHANGED <<pc[q], job[q], nb[q], todo[q]>>,
         Tied(pc[q], job[q], nb[q], todo[q])
  PROVE  Tied(pc[q], job[q], nb[q], todo[q])'
<1>0. PICK l, j, n, t :
        /\ l = pc[q] /\ j = job[q] /\ n = nb[q] /\ t = todo[q]
        /\ l = pc'[q] /\ j = job'[q] /\ n = nb'[q] /\ t = todo'[q]
  OBVIOUS
<1>a. Tied(l, j, n, t) /\ l # "idle" /\ Scope(j) \cap Scope(job[p]) = {}  BY <1>0
<1>1. Holds(l, j, n, t, Known)  BY <1>0, HoldsNow
<1>2. \A r \in Ran : r \in Scope(j) =>
        /\ nodebs'[r] = nodebs[r] /\ (r \in ids' <=> r \in ids)
        /\ \A a \in E2T : Lists(a, r)' <=> Lists(a, r)
        /\ (HasStatus(r, "CONNECTED")' <=> HasStatus(r, "CONNECTED"))
        /\ (HasStatus(r, "SHUT_DOWN")' <=> HasStatus(r, "SHUT_DOWN"))
        /\ (Closed(r)' <=> Closed(r))
  BY <1>a DEF Local, HasStatus, Closed
<1>3. \A r \in Ran : r \in Scope(j) => (PassLeaves(j, r)' <=> PassLeaves(j, r))
  BY <1>2 DEF PassLeaves
<1>4. l \in SetupPcs => reg'[j.addr] # NoInst
  <2> SUFFICES ASSUME l \in SetupPcs  PROVE reg'[j.addr] # NoInst  OBVIOUS
  <2>1. j.ran \in Ran /\ Scope(j) = {j.ran} /\ j.addr \in E2T
    BY <1>1, ScopeOf DEF Holds, SetupPcs
  <2>2. Scope(job[p]) # Ran  BY <1>a, <2>1
  <2> QED  BY <1>a, <2>1, <2>2 DEF Local, Tied
<1>5. l = "addRan" => nodebs'[j.ran] = NewNodeb(j.addr)
  BY <1>a, <1>1, <1>2, ScopeOf DEF Tied, SetupPcs
<1>6. l \in {"dissociate", "clearAssoc", "removeRan"} => ~HasStatus(j.ran, "CONNECTED")'
  BY <1>a, <1>1, <1>2, ScopeOf DEF Tied
<1>7. l = "writeBack" => n = nodebs'[j.ran]
  BY <1>a, <1>1, <1>2, ScopeOf DEF Tied
<1>8. l = "register" => \A r \in Ran : ~Lists(j.addr, r)'
  BY <1>a, <1>1, <1>2, ScopeOf DEF Tied, Holds
<1>9. ids \subseteq Ran /\ ids' \subseteq Ran  BY DEF IInv, NodebInv
<1>10. l \in {"redGet", "redPut", "clearRans"} =>
         \A r \in ids' : ~Ahead(l, j, t, r) => PassLeaves(j, r)'
  BY <1>a, <1>9, <1>1, <1>2, <1>3, ScopeOf DEF Tied
<1>11. l \in {"listRans", "redGet", "redPut"} /\ j.kind = "ShutDown"
         => \A r \in ids' : Closed(r)'
  BY <1>a, <1>9, <1>1, <1>2, ScopeOf DEF Tied
<1>12. l \in WorkerPcs =>
         \A a \in E2T, r \in Ran : copies'[a] # NoInst /\ Lists(a, r)' => copies'[a].rans[r] > 0
  <2> SUFFICES ASSUME l \in WorkerPcs, NEW a \in E2T, NEW r \in Ran,
                      copies'[a] # NoInst, Lists(a, r)'
               PROVE  copies'[a].rans[r] > 0
    OBVIOUS
  <2>1. Scope(j) = Ran  BY <1>1, ScopeOf
  <2>2. Scope(job[p]) # Ran  BY <1>a, <2>1
  <2>3. copies' = copies /\ Lists(a, r)  BY <1>2, <2>1, <2>2 DEF Local
  <2> QED  BY <1>a, <2>3 DEF Tied
<1>14. l = "clearAssoc" => n.status # "CONNECTED"  BY <1>a DEF Tied
<1>13. Tied(l, j, n, t)'
  BY <1>4, <1>5, <1>6, <1>7, <1>8, <1>10, <1>11, <1>12, <1>14 DEF Tied
<1> QED  BY <1>0, <1>13

LEMMA ApartStep ==
  ASSUME IInv, IInv', ApartInv, NEW p \in Proc, Acts(p), Local(p),
         Apart => Tied(pc[p], job[p], nb[p], todo[p])'
  PROVE  ApartInv'
<1> SUFFICES ASSUME Apart', NEW q \in Proc
             PROVE  /\ Tied(pc[q], job[q], nb[q], todo[q])'
                    /\ \A s \in Proc : q # s /\ pc'[q] # "idle" /\ pc'[s] # "idle"
                                       => Scope(job'[q]) \cap Scope(job'[s]) = {}
  BY DEF ApartInv
<1>1. Apart  BY DEF Apart, Acts
<1>2. \A s \in Proc : pc'[s] # "idle" => pc[s] # "idle" /\ Scope(job'[s]) = Scope(job[s])
  BY DEF Acts, Only
<1>3. \A s \in Proc : q # s /\ pc'[q] # "idle" /\ pc'[s] # "idle"
                      => Scope(job'[q]) \cap Scope(job'[s]) = {}
  BY <1>1, <1>2 DEF ApartInv
<1>4. Tied(pc[q], job[q], nb[q], todo[q])'
  <2>1. CASE q = p  BY <1>1, <2>1
  <2>2. CASE q # p /\ pc'[q] = "idle"
    BY <2>2 DEF Tied, SetupPcs, WorkerPcs
  <2>3. CASE q # p /\ pc'[q] # "idle"
    <3>1. UNCHANGED <<pc[q], job[q], nb[q], todo[q]>>  BY <2>3 DEF Acts, Only
    <3>2. pc[q] # "idle" /\ pc[p] # "idle"  BY <2>3, <3>1 DEF Acts
    <3>3. Scope(job[q]) \cap Scope(job[p]) = {}  BY <1>1, <2>3, <3>2 DEF ApartInv
    <3>4. Tied(pc[q], job[q], nb[q], todo[q])  BY <1>1 DEF ApartInv
    <3> QED  BY <3>1, <3>2, <3>3, <3>4, TiedElsewhere
  <2> QED  BY <2>1, <2>2, <2>3
<1> QED  BY <1>3, <1>4

\* the goroutine that takes the step, when others are about other RANs: no
\* E2_SETUP joins one of its RANs and the worker does not pass over one
LEMMA NoOther ==
  ASSUME IInv, ApartInv, Apart, NEW p \in Proc, pc[p] # "idle", NEW q \in Proc, q # p,
         NEW r \in Scope(job[p])
  PROVE  pc[q] \in SetupPcs => job[q].ran # r
<1> SUFFICES ASSUME pc[q] \in SetupPcs  PROVE job[q].ran # r  OBVIOUS
<1>1. pc[q] # "idle" /\ Scope(job[q]) = {job[q].ran}  BY ScopeNow DEF SetupPcs
<1>2. Scope(job[q]) \cap Scope(job[p]) = {}  BY <1>1 DEF ApartInv
<1> QED  BY <1>1, <1>2

LEMMA NoWorker ==
  ASSUME IInv, ApartInv, Apart, NEW p \in Proc, pc[p] # "idle", Worker # p,
         NEW r \in Ran, r \in Scope(job[p])
  PROVE  pc[Worker] \notin WorkerPcs
<1> SUFFICES ASSUME pc[Worker] \in WorkerPcs  PROVE FALSE  OBVIOUS
<1>1. Worker \in Proc  BY ConstantsOK
<1>2. pc[Worker] # "idle" /\ Scope(job[Worker]) = Ran  BY <1>1, ScopeNow DEF WorkerPcs
<1>3. Scope(job[Worker]) \cap Scope(job[p]) = {}  BY <1>1, <1>2 DEF ApartInv
<1> QED  BY <1>2, <1>3
-----------------------------------------------------------------------------
(* What a goroutine knows after its own step: E2_SETUP and lost connection *)

LEMMA SetupTied ==
  ASSUME IInv, IInv', ApartInv, Apart, NEW p \in Proc,
         LookupRan(p) \/ SaveNew(p) \/ AddMember(p) \/ Associate(p) \/ AddRan(p)
  PROVE  Tied(pc[p], job[p], nb[p], todo[p])'
<1>1. CASE Ends(p)  BY <1>1 DEF Ends, Tied, SetupPcs, WorkerPcs
<1>2. CASE ~Ends(p)
  <2>1. Tied(pc[p], job[p], nb[p], todo[p])  BY DEF ApartInv
  <2>2. pc[p] \in SetupPcs \ {"addRan"} /\ ~AddRan(p)
    BY <1>2, EndOnly DEF LookupRan, SaveNew, AddMember, Associate, AddRan, SetupPcs
  <2>3. job'[p] = job[p]  BY <1>2, SetupActs
  <2>4. reg' = reg /\ reg[job[p].addr] # NoInst
    BY <2>1, <2>2 DEF LookupRan, SaveNew, AddMember, Associate, Tied, db
  <2>5. pc'[p] \in SetupPcs /\ (pc'[p] = "addRan" => nodebs'[job[p].ran] = NewNodeb(job[p].addr))
    <3>1. job[p].ran \in Ran  BY <2>2, ScopeNow
    <3>2. CASE LookupRan(p)
      BY <1>2, <3>2, StepOnly, EndOnly DEF LookupRan, NewRan, Becomes, SetupPcs
    <3>3. CASE SaveNew(p)
      BY <1>2, <3>3, GotoOnly, FailsOnly DEF SaveNew, Becomes, Stays, SetupPcs
    <3>4. CASE AddMember(p)
      BY <1>2, <3>4, GotoOnly, EndOnly DEF AddMember, Becomes, SetupPcs
    <3>5. CASE Associate(p)
      <4>1. CASE Put(job[p].ran, NewNodeb(job[p].addr)) /\ Goto(p, "addRan")
        BY <3>1, <4>1, PutOnly, GotoOnly DEF Becomes, SetupPcs
      <4>2. CASE Fails(p)
        BY <1>2, <3>5, <4>2, FailsOnly DEF Associate, Becomes, Stays, SetupPcs
      <4> QED  BY <1>2, <3>5, <4>1, <4>2, EndOnly DEF Associate, NewNodeb
    <3> QED  BY <2>2, <3>2, <3>3, <3>4, <3>5
  <2> QED  BY <2>3, <2>4, <2>5 DEF Tied, SetupPcs, WorkerPcs
<1> QED  BY <1>1, <1>2

LEMMA NotConnected ==
  ASSUME NEW n \in CleanNodeb, NEW s \in Status
  PROVE  [n EXCEPT !.status = s].status = s /\ [n EXCEPT !.assoc = NoE2T].status = n.status
BY DEF CleanNodeb, Nodeb

LEMMA DisconnectTied ==
  ASSUME IInv, IInv', ApartInv, Apart, NEW p \in Proc,
         Fetch(p) \/ Down(p) \/ Dissociate(p) \/ ClearAssoc(p) \/ RemoveRan(p)
  PROVE  Tied(pc[p], job[p], nb[p], todo[p])'
<1>1. ASSUME pc'[p] \in {"idle", "fetch", "down"}  PROVE Tied(pc[p], job[p], nb[p], todo[p])'
  BY <1>1 DEF Tied, SetupPcs, WorkerPcs
<1>2. Tied(pc[p], job[p], nb[p], todo[p])  BY DEF ApartInv
<1>3. CASE Fetch(p)
  <2>1. pc[p] = "fetch"  BY <1>3 DEF Fetch
  <2>2. ASSUME NEW r \in Ran, todo[p][r] > 0, NextRan(p, r)  PROVE pc'[p] \in {"idle", "fetch"}
    BY <2>1, <2>2, NextRanOnly DEF Ends, Becomes
  <2>3. pc'[p] \in {"idle", "fetch", "down"}
    BY <1>3, <2>2, StepOnly, EndOnly DEF Fetch, Becomes, Ends
  <2> QED  BY <1>1, <2>3
<1>4. CASE Down(p)
  <2>1. pc[p] = "down" /\ job[p].ran \in Ran /\ nb[p] \in CleanNodeb /\ todo[p][job[p].ran] > 0
    BY <1>4, HoldsNow DEF Down, Holds
  <2>2. CASE NextRan(p, job[p].ran)
    BY <1>1, <2>1, <2>2, NextRanOnly DEF Ends, Becomes
  <2>3. CASE Put(job[p].ran, [nb[p] EXCEPT !.status = "DISCONNECTED"]) /\ Goto(p, "dissociate")
    <3>1. Becomes(p, "dissociate", job[p], nb[p], todo[p])  BY <2>3, GotoOnly
    <3>2. nodebs'[job[p].ran] = [nb[p] EXCEPT !.status = "DISCONNECTED"]  BY <2>1, <2>3, PutOnly
    <3>3. [nb[p] EXCEPT !.status = "DISCONNECTED"].status = "DISCONNECTED"
      BY <2>1, NotConnected DEF Status
    <3> QED  BY <3>1, <3>2, <3>3 DEF Becomes, Tied, HasStatus, SetupPcs, WorkerPcs
  <2>4. CASE Fails(p)
    BY <1>1, <2>1, <2>4, FailsOnly DEF Ends, Stays, Becomes
  <2> QED  BY <1>4, <2>2, <2>3, <2>4 DEF Down
<1>5. CASE Dissociate(p)
  <2>1. pc[p] = "dissociate" /\ job[p].ran \in Known /\ nodebs' = nodebs
    BY <1>5, HoldsNow DEF Dissociate, Holds, db
  <2>2. CASE Step(p, "clearAssoc", job[p], nodebs[job[p].ran], todo[p])
    <3>1. Becomes(p, "clearAssoc", job[p], nodebs[job[p].ran], todo[p])  BY <2>2, StepOnly
    <3>2. ~HasStatus(job[p].ran, "CONNECTED") /\ nodebs[job[p].ran] # NoNodeb
      BY <1>2, <2>1 DEF Tied, Known
    <3> QED  BY <2>1, <3>1, <3>2 DEF Becomes, Tied, HasStatus, SetupPcs, WorkerPcs
  <2>3. CASE End(p)  BY <1>1, <2>3, EndOnly DEF Ends
  <2> QED  BY <1>5, <2>2, <2>3 DEF Dissociate
<1>6. CASE ClearAssoc(p)
  <2> DEFINE free == [nb[p] EXCEPT !.assoc = NoE2T]
  <2>1. pc[p] = "clearAssoc" /\ job[p].ran \in Ran /\ nb[p] \in CleanNodeb /\ nb[p] # NoNodeb
    BY <1>6, HoldsNow, ConstantsOK DEF ClearAssoc, Holds, CleanNodeb
  <2>2. free.status # "CONNECTED" /\ ~HasStatus(job[p].ran, "CONNECTED")
        /\ nb[p].status # "CONNECTED"
    BY <1>2, <2>1, NotConnected DEF Tied, Status
  <2>3. nodebs'[job[p].ran] \in {free, nodebs[job[p].ran]}
    BY <1>6, <2>1, MaybePutOnly DEF ClearAssoc, MaybePut
  <2>4. CASE Ends(p)  BY <1>1, <2>4 DEF Ends
  <2>5. CASE ~Ends(p)
    <3>1. job'[p] = job[p] /\ pc'[p] \in {"clearAssoc", "removeRan"} /\ nb'[p] = nb[p]
      BY <1>6, <2>1, <2>5, GotoOnly, FailsOnly DEF ClearAssoc, Becomes, Stays
    <3> QED  BY <2>2, <2>3, <3>1 DEF Tied, HasStatus, SetupPcs, WorkerPcs
  <2> QED  BY <2>4, <2>5
<1>7. CASE RemoveRan(p)
  <2>1. pc[p] = "removeRan" /\ job[p].ran \in Ran /\ todo[p][job[p].ran] > 0
    BY <1>7, HoldsNow DEF RemoveRan, Holds
  <2> QED  BY <1>1, <1>7, <2>1, NextRanOnly, EndOnly DEF RemoveRan, Ends, Becomes
<1> QED  BY <1>3, <1>4, <1>5, <1>6, <1>7
-----------------------------------------------------------------------------
(* ... registration, red button, update of the cells, worker *)

LEMMA RegisterTied ==
  ASSUME IInv, NEW p \in Proc, Register(p) \/ List(p)
  PROVE  Tied(pc[p], job[p], nb[p], todo[p])'
<1>1. pc'[p] \in {"idle", "list"}
  BY GotoOnly, EndOnly DEF Register, List, Becomes, Ends
<1> QED  BY <1>1 DEF Tied, SetupPcs, WorkerPcs

LEMMA WriteBackTied ==
  ASSUME IInv, ApartInv, Apart, NEW p \in Proc, WriteBack(p)
  PROVE  Tied(pc[p], job[p], nb[p], todo[p])'
<1>1. Tied(pc[p], job[p], nb[p], todo[p]) /\ pc[p] = "writeBack" /\ job[p].ran \in Ran
  BY HoldsNow DEF ApartInv, WriteBack, Holds
<1>2. nodebs'[job[p].ran] = nb[p]
  BY <1>1, MaybePutOnly DEF WriteBack, MaybePut, Tied
<1>3. Ends(p) \/ Stays(p)  BY EndOnly, FailsOnly DEF WriteBack
<1> QED  BY <1>1, <1>2, <1>3 DEF Tied, Ends, Stays, Becomes, SetupPcs, WorkerPcs

\* the two facts about a pass of the red button
PassInv(l, j, t) ==
  /\ \A r \in ids : ~Ahead(l, j, t, r) => PassLeaves(j, r)
  /\ j.kind = "ShutDown" => \A r \in ids : Closed(r)

LEMMA PassTied ==
  ASSUME NEW p \in Proc, pc'[p] \in {"redGet", "redPut"}, PassInv(pc[p], job[p], todo[p])'
  PROVE  Tied(pc[p], job[p], nb[p], todo[p])'
BY DEF Tied, PassInv, SetupPcs, WorkerPcs

LEMMA ListRansTied ==
  ASSUME IInv, IInv', ApartInv, Apart, NEW p \in Proc, ListRans(p)
  PROVE  Tied(pc[p], job[p], nb[p], todo[p])'
<1> DEFINE t == [r \in Ran |-> IF r \in ids THEN 1 ELSE 0]
<1>1. Tied(pc[p], job[p], nb[p], todo[p]) /\ pc[p] = "listRans" /\ UNCHANGED <<nodebs, ids>>
  BY DEF ApartInv, ListRans, db
<1>2. CASE Step(p, "redGet", job[p], NoNodeb, t)
  <2>1. Becomes(p, "redGet", job[p], NoNodeb, t)  BY <1>2, StepOnly
  <2>2. \A r \in ids : t[r] > 0  BY DEF IInv, NodebInv
  <2>3. job[p].kind = "ShutDown" => \A r \in ids : Closed(r)  BY <1>1 DEF Tied
  <2>4. \A r \in ids' : Closed(r)' <=> Closed(r)  BY <1>1 DEF Closed, HasStatus
  <2> HIDE DEF t
  <2>5. PassInv(pc[p], job[p], todo[p])'
    BY <1>1, <2>1, <2>2, <2>3, <2>4 DEF PassInv, Becomes, Ahead
  <2> QED  BY <2>1, <2>5, PassTied DEF Becomes
<1>3. CASE End(p)  BY <1>3, EndOnly DEF Ends, Tied, SetupPcs, WorkerPcs
<1> QED  BY <1>2, <1>3 DEF ListRans

LEMMA SamePass ==
  ASSUME NEW j, NEW k, NEW r, j.kind = k.kind, j.updated = k.updated, nodebs'[r] = nodebs[r]
  PROVE  (PassLeaves(k, r)' <=> PassLeaves(j, r)) /\ (Closed(r)' <=> Closed(r))
BY DEF PassLeaves, Closed, HasStatus

LEMMA RedGetTied ==
  ASSUME IInv, IInv', ids \subseteq Known, ApartInv, Apart, NEW p \in Proc, RedGet(p)
  PROVE  Tied(pc[p], job[p], nb[p], todo[p])'
<1>1. /\ Tied(pc[p], job[p], nb[p], todo[p]) /\ pc[p] = "redGet" /\ UNCHANGED <<nodebs, ids>>
      /\ job[p].kind \in {"ForceShutDown", "ShuttingDown", "ShutDown"}
      /\ job[p] \in Job /\ todo[p] \in RanBag
  BY HoldsNow DEF ApartInv, RedGet, Holds, db
<1>2. PassInv(pc[p], job[p], todo[p])  BY <1>1 DEF Tied, PassInv
<1>3. ASSUME NEW r \in Ran, todo[p][r] > 0,
             nodebs[r] = NoNodeb \/ PassSkips(job[p].kind, nodebs[r]),
             Step(p, "redGet", job[p], NoNodeb, Handled(p, r))
      PROVE  Tied(pc[p], job[p], nb[p], todo[p])'
  <2>1. Becomes(p, "redGet", job[p], NoNodeb, Handled(p, r))  BY <1>3, StepOnly
  <2>2. ASSUME r \in ids  PROVE PassLeaves(job[p], r)
    <3>1. nodebs[r] # NoNodeb /\ PassSkips(job[p].kind, nodebs[r])  BY <1>3, <2>2 DEF Known
    <3>2. CASE job[p].kind = "ShuttingDown"
      BY <3>1, <3>2 DEF PassSkips, PassLeaves, Closed, HasStatus
    <3>3. CASE job[p].kind = "ShutDown"
      BY <1>2, <2>2, <3>1, <3>3 DEF PassInv, PassSkips, PassLeaves, Closed, HasStatus
    <3> QED  BY <3>1, <3>2, <3>3 DEF PassSkips
  <2>3. \A s \in Ran : s # r => Handled(p, r)[s] = todo[p][s]  BY <1>1 DEF Handled, RanBag
  <2>4. ASSUME NEW s \in ids, ~Ahead("redGet", job[p], Handled(p, r), s)
        PROVE  PassLeaves(job[p], s)
    <3>1. CASE s = r  BY <2>2, <3>1
    <3>2. CASE s # r
      <4>1. ~Ahead("redGet", job[p], todo[p], s)
        BY <2>3, <2>4, <3>2 DEF Ahead, IInv, NodebInv
      <4> QED  BY <1>1, <1>2, <4>1 DEF PassInv
    <3> QED  BY <3>1, <3>2
  <2>5. PassInv(pc[p], job[p], todo[p])'
    <3>1. PICK l, j, t : /\ l = pc'[p] /\ j = job'[p] /\ t = todo'[p]
                         /\ l = "redGet" /\ j = job[p] /\ t = Handled(p, r)
      BY <2>1 DEF Becomes
    <3>2. \A s \in ids' : (PassLeaves(j, s)' <=> PassLeaves(j, s)) /\ (Closed(s)' <=> Closed(s))
      BY <1>1, SamePass
    <3>3. PassInv(l, j, t)'  BY <1>1, <1>2, <2>4, <3>1, <3>2 DEF PassInv, Ahead
    <3> QED  BY <3>1, <3>3
  <2> QED  BY <2>1, <2>5, PassTied DEF Becomes
<1>4. ASSUME NEW r \in Ran, todo[p][r] > 0,
             Step(p, "redPut", [job[p] EXCEPT !.ran = r], nodebs[r], Handled(p, r))
      PROVE  Tied(pc[p], job[p], nb[p], todo[p])'
  <2> DEFINE jr == [job[p] EXCEPT !.ran = r]
  <2>1. Becomes(p, "redPut", jr, nodebs[r], Handled(p, r))  BY <1>4, StepOnly
  <2>2. jr.kind = job[p].kind /\ jr.updated = job[p].updated /\ jr.ran = r  BY <1>1 DEF Job
  <2> HIDE DEF jr
  <2>3. \A s \in Ran : s # r => Handled(p, r)[s] = todo[p][s]  BY <1>1 DEF Handled, RanBag
  <2>4. ASSUME NEW s \in ids, ~Ahead("redPut", jr, Handled(p, r), s)
        PROVE  PassLeaves(job[p], s)
    <3>1. s # r /\ s \in Ran  BY <2>2, <2>4 DEF Ahead, IInv, NodebInv
    <3>2. ~Ahead("redGet", job[p], todo[p], s)  BY <2>3, <2>4, <3>1 DEF Ahead
    <3> QED  BY <1>1, <1>2, <3>2 DEF PassInv
  <2>5. PassInv(pc[p], job[p], todo[p])'
    <3>1. PICK l, j, t : /\ l = pc'[p] /\ j = job'[p] /\ t = todo'[p]
                         /\ l = "redPut" /\ j = jr /\ t = Handled(p, r)
      BY <2>1 DEF Becomes
    <3>2. PICK k : k = job[p]  OBVIOUS
    <3>3. \A s \in ids' : (PassLeaves(j, s)' <=> PassLeaves(k, s)) /\ (Closed(s)' <=> Closed(s))
      BY <1>1, <2>2, <3>1, <3>2, SamePass
    <3>4. PassInv(l, j, t)'
      BY <1>1, <1>2, <2>2, <2>4, <3>1, <3>2, <3>3 DEF PassInv, Ahead
    <3> QED  BY <3>1, <3>4
  <2> QED  BY <2>1, <2>5, PassTied DEF Becomes
<1>5. CASE End(p)  BY <1>5, EndOnly DEF Ends, Tied, SetupPcs, WorkerPcs
<1> QED  BY <1>3, <1>4, <1>5 DEF RedGet

\* what the red button saves is what its pass leaves behind
LEMMA PassSavesLeaves ==
  ASSUME NEW j, NEW n \in CleanNodeb, j.kind \in {"ForceShutDown", "ShuttingDown", "ShutDown"}
  PROVE  /\ PassSaves(j.kind, n).status \in {"SHUTTING_DOWN", "SHUT_DOWN"}
         /\ j.kind # "ShuttingDown" => PassSaves(j.kind, n).status = "SHUT_DOWN"
<1>1. CASE j.kind = "ForceShutDown"  BY <1>1 DEF PassSaves
<1>2. CASE j.kind = "ShuttingDown"  BY <1>2 DEF PassSaves
<1>3. CASE j.kind = "ShutDown"  BY <1>3, NotConnected DEF PassSaves, Status
<1> QED  BY <1>1, <1>2, <1>3

LEMMA RedPutTied ==
  ASSUME IInv, IInv', ApartInv, Apart, NEW p \in Proc, RedPut(p)
  PROVE  Tied(pc[p], job[p], nb[p], todo[p])'
<1> DEFINE new == PassSaves(job[p].kind, nb[p])
<1>1. /\ Tied(pc[p], job[p], nb[p], todo[p]) /\ pc[p] = "redPut" /\ ids' = ids
      /\ job[p].kind \in {"ForceShutDown", "ShuttingDown", "ShutDown"}
      /\ job[p] \in Job /\ job[p].ran \in Ran /\ nb[p] \in CleanNodeb /\ ids \subseteq Ran
  BY HoldsNow DEF ApartInv, RedPut, Holds, IInv, NodebInv
<1>2. PassInv(pc[p], job[p], todo[p])  BY <1>1 DEF Tied, PassInv
<1>3. /\ new.status \in {"SHUTTING_DOWN", "SHUT_DOWN"}
      /\ job[p].kind # "ShuttingDown" => new.status = "SHUT_DOWN"
  BY <1>1, PassSavesLeaves
<1>4. Put(job[p].ran, new) => new # NoNodeb
  <2>1. ASSUME Put(job[p].ran, new)  PROVE new # NoNodeb
    <3>1. CASE job[p].kind = "ForceShutDown"
      BY <3>1, ConstantsOK DEF PassSaves, Nodeb, Status
    <3>2. CASE job[p].kind = "ShuttingDown"
      BY <3>2, ConstantsOK DEF PassSaves, Nodeb, Status
    <3>3. CASE job[p].kind = "ShutDown"
      BY <1>1, <3>3, ConstantsOK DEF PassSaves, Nodeb, CleanNodeb, Status
    <3> QED  BY <1>1, <3>1, <3>2, <3>3
  <2> QED  BY <2>1
<1> HIDE DEF new
<1>5. CASE Put(job[p].ran, new) /\ Step(p, "redGet", Counted(job[p]), NoNodeb, todo[p])
  <2>1. Becomes(p, "redGet", Counted(job[p]), NoNodeb, todo[p])  BY <1>5, StepOnly
  <2>2. Counted(job[p]).kind = job[p].kind /\ Counted(job[p]).updated = TRUE
    BY <1>1 DEF Counted, Job
  <2>3. PICK l, j, k, t : /\ l = pc'[p] /\ j = job'[p] /\ t = todo'[p] /\ t = todo[p]
                          /\ l = "redGet" /\ j = Counted(job[p]) /\ k = job[p]
    BY <2>1 DEF Becomes
  <2>4. nodebs'[k.ran] = new /\ \A s \in Ran : s # k.ran => nodebs'[s] = nodebs[s]
    BY <1>1, <1>5, <2>3, PutOnly
  <2>5. ASSUME NEW s \in ids, s # k.ran, PassLeaves(k, s)  PROVE PassLeaves(j, s)'
    BY <1>1, <2>2, <2>3, <2>4, <2>5 DEF PassLeaves, Closed, HasStatus
  <2>6. PassLeaves(j, k.ran)' /\ Closed(k.ran)'
    BY <1>3, <1>4, <1>5, <2>2, <2>3, <2>4 DEF PassLeaves, Closed, HasStatus
  <2>7. \A s \in ids : s # k.ran => (Closed(s)' <=> Closed(s))
    BY <1>1, <2>4 DEF Closed, HasStatus
  <2>8. PassInv(l, j, t)'
    <3>1. ASSUME NEW s \in ids, ~Ahead(l, j, t, s)  PROVE PassLeaves(j, s)'
      <4>1. CASE s = k.ran  BY <2>6, <4>1
      <4>2. CASE s # k.ran
        <5>1. ~Ahead(pc[p], k, t, s)  BY <1>1, <2>3, <3>1, <4>2 DEF Ahead
        <5> QED  BY <1>2, <2>3, <2>5, <4>2, <5>1 DEF PassInv
      <4> QED  BY <4>1, <4>2
    <3>2. j.kind = "ShutDown" => \A s \in ids : Closed(s)'
      BY <1>2, <2>2, <2>3, <2>6, <2>7 DEF PassInv
    <3> QED  BY <1>1, <3>1, <3>2 DEF PassInv, Ahead
  <2> QED  BY <2>3, <2>8, PassTied
<1>6. CASE Fails(p) /\ MaybePut(job[p].ran, new) /\ ~Ends(p)
  <2>1. Stays(p)  BY <1>6, FailsOnly
  <2>3. PICK l, j, t : /\ l = pc'[p] /\ j = job'[p] /\ t = todo'[p]
                       /\ l = "redPut" /\ j = job[p] /\ t = todo[p]
    BY <1>1, <2>1 DEF Stays, Becomes
  <2>4. nodebs'[j.ran] \in {new, nodebs[j.ran]} /\ \A s \in Ran : s # j.ran => nodebs'[s] = nodebs[s]
    BY <1>1, <1>6, <2>3, MaybePutOnly
  <2>5. \A s \in ids : s # j.ran => /\ (PassLeaves(j, s)' <=> PassLeaves(j, s))
                                    /\ (Closed(s)' <=> Closed(s))
    BY <1>1, <2>4, SamePass
  <2>6. j.kind = "ShutDown" /\ Closed(j.ran) => Closed(j.ran)'
    <3>1. nodebs'[j.ran] = new => new # NoNodeb \/ nodebs'[j.ran] = nodebs[j.ran]
      BY <1>4, <1>6, <2>3 DEF MaybePut
    <3> QED  BY <1>3, <2>3, <2>4, <3>1 DEF Closed, HasStatus
  <2>7. PassInv(l, j, t)'
    BY <1>1, <1>2, <2>3, <2>5, <2>6 DEF PassInv, Ahead
  <2> QED  BY <2>3, <2>7, PassTied
<1>7. CASE Ends(p)  BY <1>7 DEF Ends, Tied, SetupPcs, WorkerPcs
<1> QED  BY <1>5, <1>6, <1>7 DEF RedPut, new

LEMMA PassDoneTied ==
  ASSUME IInv, IInv', ApartInv, Apart, NEW p \in Proc, PassDone(p)
  PROVE  Tied(pc[p], job[p], nb[p], todo[p])'
<1>1. /\ Tied(pc[p], job[p], nb[p], todo[p]) /\ pc[p] = "redGet" /\ UNCHANGED <<nodebs, ids>>
  BY DEF ApartInv, PassDone, db
<1>2. CASE Goto(p, "clearRans")
  <2>1. Becomes(p, "clearRans", job[p], nb[p], todo[p])  BY <1>2, GotoOnly
  <2>2. PICK l, j, n, t : /\ l = pc'[p] /\ j = job'[p] /\ t = todo'[p] /\ n = nb'[p]
                          /\ l = "clearRans" /\ j = job[p] /\ t = todo[p]
    BY <2>1 DEF Becomes
  <2>3. \A s \in ids : PassLeaves(j, s)' <=> PassLeaves(j, s)  BY <1>1, SamePass
  <2>4. Tied(l, j, n, t)'
    BY <1>1, <2>2, <2>3 DEF Tied, Ahead, SetupPcs, WorkerPcs
  <2> QED  BY <2>2, <2>4
<1>3. CASE End(p)  BY <1>3, EndOnly DEF Ends, Tied, SetupPcs, WorkerPcs
<1> QED  BY <1>2, <1>3 DEF PassDone

LEMMA ClearRansTied ==
  ASSUME IInv, IInv', ApartInv, Apart, NEW p \in Proc, ClearRans(p)
  PROVE  Tied(pc[p], job[p], nb[p], todo[p])'
<1>1. /\ Tied(pc[p], job[p], nb[p], todo[p]) /\ pc[p] = "clearRans" /\ UNCHANGED <<nodebs, ids>>
      /\ todo[p] = NoRans /\ ids \subseteq Ran /\ job[p].kind = "ShuttingDown"
  BY HoldsNow DEF ApartInv, ClearRans, Holds, IInv, NodebInv
<1>2. \A r \in ids : PassLeaves(job[p], r)  BY <1>1 DEF Tied, Ahead, NoRans
<1>3. CASE job[p].updated /\ Step(p, "listRans", Request("ShutDown", NoE2T, NoRan), NoNodeb, NoRans)
  <2>1. pc'[p] = "listRans"  BY <1>3, StepOnly DEF Becomes
  <2>2. \A r \in ids' : Closed(r)'
    BY <1>1, <1>2, <1>3 DEF PassLeaves, Closed, HasStatus
  <2> QED  BY <2>1, <2>2 DEF Tied, SetupPcs, WorkerPcs
<1>4. CASE End(p)  BY <1>4, EndOnly DEF Ends, Tied, SetupPcs, WorkerPcs
<1> QED  BY <1>3, <1>4 DEF ClearRans

\* the marked record has the RANs of the worker's copy of it
LEMMA MarkedLists ==
  ASSUME IInv, NEW a \in E2T, copies[a] # NoInst,
         reg' = [reg EXCEPT ![a] = [copies[a] EXCEPT !.state = "ToBeDeleted"]]
  PROVE  /\ reg'[a] # NoInst /\ reg'[a].rans = copies[a].rans
         /\ \A b \in E2T : b # a => reg'[b] = reg[b]
<1>1. copies[a] \in Instance  BY DEF IInv, CopyInv
<1> DEFINE new == [copies[a] EXCEPT !.state = "ToBeDeleted"]
<1>2. new \in Instance /\ new.rans = copies[a].rans  BY <1>1 DEF Instance
<1> HIDE DEF new
<1>3. reg' = [reg EXCEPT ![a] = new]  BY DEF new
<1>4. new # NoInst  BY <1>2, ConstantsOK
<1> QED  BY <1>2, <1>3, <1>4 DEF IInv, RegInv

LEMMA UnregisterLists ==
  ASSUME IInv, NEW a \in E2T, Registry!Unregister(a)
  PROVE  /\ reg'[a] = NoInst /\ dir' = dir
         /\ \A b \in E2T : b # a => reg'[b] = reg[b]
         /\ \A b \in E2T, r \in Ran : Lists(b, r)' => Lists(b, r) /\ b # a
<1>1. reg'[a] = NoInst /\ dir' = dir /\ \A b \in E2T : b # a => reg'[b] = reg[b]
  BY DEF Registry!Unregister, IInv, RegInv
<1> QED  BY <1>1 DEF Lists

CopiesCover == \A a \in E2T, r \in Ran : copies[a] # NoInst /\ Lists(a, r) => copies[a].rans[r] > 0

LEMMA CopiesAfter ==
  ASSUME IInv, ContinueWorker, CopiesCover
  PROVE  CopiesCover'
<1>0. Worker \in Proc  BY ConstantsOK
<1>1. ASSUME NEW a \in E2T, NextE2T(a)
      PROVE  \A b \in E2T : copies'[b] # NoInst => copies'[b] = copies[b]
  BY <1>1, NextE2TOnly DEF IInv, CopyInv
<1>2. ASSUME \A b \in E2T : copies'[b] # NoInst => copies'[b] = copies[b],
             \A b \in E2T, r \in Ran : Lists(b, r)' => Lists(b, r)
      PROVE  CopiesCover'
  BY <1>2 DEF CopiesCover
<1>3. ASSUME reg' = reg  PROVE \A b \in E2T, r \in Ran : Lists(b, r)' => Lists(b, r)
  BY <1>3 DEF Lists
<1>4. CASE Mark
  <2>1. PICK a \in E2T :
          /\ copies[a] # NoInst
          /\ \/ /\ reg' = [reg EXCEPT ![a] = [copies[a] EXCEPT !.state = "ToBeDeleted"]]
                /\ UNCHANGED copies
             \/ /\ reg' \in {reg, [reg EXCEPT ![a] = [copies[a] EXCEPT !.state = "ToBeDeleted"]]}
                /\ NextE2T(a)
    BY <1>4 DEF Mark
  <2>2. \A b \in E2T : copies'[b] # NoInst => copies'[b] = copies[b]  BY <1>1, <2>1
  <2>3. CASE reg' = reg  BY <1>2, <1>3, <2>2, <2>3
  <2>4. CASE reg' = [reg EXCEPT ![a] = [copies[a] EXCEPT !.state = "ToBeDeleted"]]
    <3>1. /\ reg'[a].rans = copies[a].rans
          /\ \A b \in E2T : b # a => reg'[b] = reg[b]
      BY <2>1, <2>4, MarkedLists
    <3> QED  BY <2>2, <3>1 DEF CopiesCover, Lists
  <2> QED  BY <2>1, <2>3, <2>4
<1>5. CASE GetNodeb \/ PutNodeb \/ Unlist
  <2>1. reg' = reg /\ job[Worker].addr \in E2T
    BY <1>0, <1>5, HoldsNow DEF GetNodeb, PutNodeb, Unlist, Registry!Unlist, Holds, db
  <2>2. \A b \in E2T : copies'[b] # NoInst => copies'[b] = copies[b]
    BY <1>1, <1>5, <2>1 DEF GetNodeb, PutNodeb, Unlist
  <2> QED  BY <1>2, <1>3, <2>1, <2>2
<1>6. CASE Unregister
  <2>1. job[Worker].addr \in E2T  BY <1>0, <1>6, HoldsNow DEF Unregister, Holds
  <2>2. \A b \in E2T : copies'[b] # NoInst => copies'[b] = copies[b]
    BY <1>1, <1>6, <2>1 DEF Unregister
  <2>3. \A b \in E2T, r \in Ran : Lists(b, r)' => Lists(b, r)
    BY <1>3, <1>6, <2>1, UnregisterLists DEF Unregister
  <2> QED  BY <1>2, <2>2, <2>3
<1> QED  BY <1>4, <1>5, <1>6 DEF ContinueWorker

LEMMA WorkerTied ==
  ASSUME IInv, IInv', ApartInv, Apart, ContinueWorker
  PROVE  Tied(pc[Worker], job[Worker], nb[Worker], todo[Worker])'
<1>1. pc'[Worker] \in WorkerPcs \cup {"idle"}  BY WorkerActs DEF Ends
<1>2. pc[Worker] \in WorkerPcs
  BY DEF ContinueWorker, Mark, GetNodeb, PutNodeb, Unregister, Unlist, WorkerPcs
<1>3. CopiesCover  BY <1>2, ConstantsOK DEF ApartInv, Tied, CopiesCover
<1>4. CopiesCover'  BY <1>3, CopiesAfter
<1> QED  BY <1>1, <1>4 DEF CopiesCover, Tied, SetupPcs, WorkerPcs

LEMMA ContinueTied ==
  ASSUME IInv, IInv', ids \subseteq Known, ApartInv, Apart, NEW p \in Proc, Continue(p)
  PROVE  Tied(pc[p], job[p], nb[p], todo[p])'
BY SetupTied, DisconnectTied, RegisterTied, ListRansTied, RedGetTied, RedPutTied, PassDoneTied,
   ClearRansTied, WriteBackTied DEF Continue
-----------------------------------------------------------------------------
(* A request arrives, the process crashes, nothing happens *)

LEMMA ArrivesApart ==
  ASSUME IInv, NEW k, NEW S, Arrives(k, S), Apart'
  PROVE  Apart /\ Conflicts(S) = {}
<1> DEFINE Behind == \E q \in Conflicts(S) : {k, job[q].kind} \cap WritesBack # {}
           Beside == \E q \in Proc : pc[q] # "idle"
<1>1. overlap' = IF overlap = "any" \/ Behind THEN "any"
                 ELSE IF overlap = "fresh" \/ Conflicts(S) # {} THEN "fresh"
                 ELSE IF Beside THEN "distinct" ELSE overlap
  BY DEF Arrives
<1> HIDE DEF Behind, Beside
<1>2. overlap' \in {"none", "distinct"} /\ overlap \in {"none", "distinct", "fresh", "any"}
  BY DEF Apart, IInv, CountInv, Overlaps
<1>3. overlap # "any" /\ ~Behind  BY <1>1, <1>2
<1>4. overlap # "fresh" /\ Conflicts(S) = {}  BY <1>1, <1>2, <1>3
<1> QED  BY <1>2, <1>3, <1>4 DEF Apart

\* p takes up a request about the RANs of S
Takes(p, S) ==
  /\ pc[p] = "idle" /\ pc'[p] # "idle" /\ Only(p) /\ Scope(job'[p]) = S
  /\ UNCHANGED <<reg, dir, nodebs, ids, faults, cut>>
  /\ (p # Worker \/ pc'[p] \notin WorkerPcs) => UNCHANGED copies
  /\ \E k : Arrives(k, S)

LEMMA TakesApart ==
  ASSUME IInv, IInv', ApartInv, NEW p \in Proc, NEW S, Takes(p, S),
         Apart => Tied(pc[p], job[p], nb[p], todo[p])',
         p # Worker => pc'[p] \notin WorkerPcs
  PROVE  ApartInv'
<1> SUFFICES ASSUME Apart'  PROVE ApartInv'  BY DEF ApartInv
<1>1. Apart /\ Conflicts(S) = {}  BY ArrivesApart DEF Takes
<1>2. \A q \in Proc : q # p => /\ UNCHANGED <<pc[q], job[q], nb[q], todo[q]>>
                               /\ pc[q] # "idle" => Scope(job[q]) \cap S = {}
  BY <1>1 DEF Takes, Only, Conflicts
<1>3. \A q, s \in Proc : q # s /\ pc'[q] # "idle" /\ pc'[s] # "idle"
                         => Scope(job'[q]) \cap Scope(job'[s]) = {}
  <2>1. ASSUME NEW q \in Proc, NEW s \in Proc, q # s, pc'[q] # "idle", pc'[s] # "idle"
        PROVE  Scope(job'[q]) \cap Scope(job'[s]) = {}
    <3>1. CASE q = p
      <4>1. Scope(job'[q]) = S /\ job'[s] = job[s] /\ pc[s] # "idle"
        BY <1>2, <2>1, <3>1 DEF Takes
      <4> QED  BY <1>2, <2>1, <3>1, <4>1
    <3>2. CASE s = p
      <4>1. Scope(job'[s]) = S /\ job'[q] = job[q] /\ pc[q] # "idle"
        BY <1>2, <2>1, <3>2 DEF Takes
      <4> QED  BY <1>2, <2>1, <3>2, <4>1
    <3>3. CASE q # p /\ s # p
      <4>1. job'[q] = job[q] /\ job'[s] = job[s] /\ pc[q] # "idle" /\ pc[s] # "idle"
        BY <1>2, <2>1, <3>3
      <4> QED  BY <1>1, <2>1, <4>1 DEF ApartInv
    <3> QED  BY <3>1, <3>2, <3>3
  <2> QED  BY <2>1
<1>4. ASSUME NEW q \in Proc  PROVE Tied(pc[q], job[q], nb[q], todo[q])'
  <2>1. CASE q = p  BY <1>1, <2>1
  <2>2. CASE q # p /\ pc[q] = "idle"
    <3>1. pc'[q] = "idle"  BY <1>2, <2>2
    <3> QED  BY <3>1 DEF Tied, SetupPcs, WorkerPcs
  <2>3. CASE q # p /\ pc[q] # "idle"
    <3>1. UNCHANGED <<pc[q], job[q], nb[q], todo[q], reg, nodebs, ids>>
      BY <1>2, <2>3 DEF Takes
    <3>2. Tied(pc[q], job[q], nb[q], todo[q])  BY <1>1 DEF ApartInv
    <3>3. CASE pc[q] \in WorkerPcs /\ copies' # copies
      <4>1. Scope(job[q]) = Ran /\ p = Worker /\ pc'[p] \in WorkerPcs
        BY <3>3, ScopeNow DEF Takes
      <4>2. S = Ran /\ Scope(job[q]) \cap S = {}
        <5>1. Holds(pc'[p], job'[p], nb'[p], todo'[p], Known')  BY DEF IInv, ThreadInv
        <5>2. Scope(job'[p]) = Ran  BY <4>1, <5>1, ScopeOf
        <5> QED  BY <1>2, <2>3, <5>2 DEF Takes
      <4>3. Ran = {}  BY <4>1, <4>2
      <4> QED  BY <3>1, <3>3, <4>3 DEF Tied, SetupPcs, WorkerPcs
    <3>4. CASE pc[q] \notin WorkerPcs \/ copies' = copies
      <4>1. PICK l, j, n, t : /\ l = pc[q] /\ j = job[q] /\ n = nb[q] /\ t = todo[q]
                              /\ l = pc'[q] /\ j = job'[q] /\ n = nb'[q] /\ t = todo'[q]
        BY <3>1
      <4>2. Tied(l, j, n, t) /\ (l \notin WorkerPcs \/ copies' = copies)  BY <3>2, <3>4, <4>1
      <4>3. Tied(l, j, n, t)'
        BY <3>1, <4>2 DEF Tied, Lists, HasStatus, PassLeaves, Closed, Ahead
      <4> QED  BY <4>1, <4>3
    <3> QED  BY <3>3, <3>4
  <2> QED  BY <2>1, <2>2, <2>3
<1> QED  BY <1>3, <1>4 DEF ApartInv

LEMMA StartTakes ==
  ASSUME IInv, NEW p \in Proc, NEW k, NEW l, NEW j, NEW n, NEW t, l # "idle",
         Start(p, k, l, j, n, t)
  PROVE  /\ Takes(p, Scope(j)) /\ Becomes(p, l, j, n, t)
         /\ UNCHANGED copies
<1>1. Only(p) /\ Becomes(p, l, j, n, t)  BY StepOnly DEF Start
<1>2. Scope(job'[p]) = Scope(j)  BY <1>1 DEF Becomes
<1> QED  BY <1>1, <1>2 DEF Start, Takes, Becomes, db

LEMMA ArriveTakes ==
  ASSUME IInv, NEW p \in Proc, Arrive(p)
  PROVE  /\ UNCHANGED copies /\ pc'[p] \notin WorkerPcs /\ \E S : Takes(p, S)
         /\ Tied(pc[p], job[p], nb[p], todo[p])'
<1> DEFINE Good == /\ UNCHANGED copies /\ pc'[p] \notin WorkerPcs /\ \E S : Takes(p, S)
                   /\ Tied(pc[p], job[p], nb[p], todo[p])'
<1>1. ASSUME NEW a \in E2T, NEW r \in Ran, Setup(p, a, r)  PROVE Good
  <2>1. /\ \E S : Takes(p, S)
        /\ Becomes(p, "lookup", Request("Setup", a, r), NoNodeb, NoRans)
        /\ UNCHANGED <<reg, copies>> /\ reg[a] # NoInst
    BY <1>1, StartTakes DEF Setup, Start, db
  <2>2. Request("Setup", a, r).addr = a  BY DEF Request, NoJob
  <2>3. pc'[p] = "lookup" /\ job'[p].addr = a  BY <2>1, <2>2 DEF Becomes
  <2> QED  BY <2>1, <2>3 DEF Tied, SetupPcs, WorkerPcs
<1>2. ASSUME NEW k, NEW j, NEW n, NEW t, Start(p, k, "fetch", j, n, t)  PROVE Good
  <2>1. (\E S : Takes(p, S)) /\ pc'[p] = "fetch" /\ UNCHANGED copies
    BY <1>2, StartTakes DEF Becomes
  <2> QED  BY <2>1 DEF Tied, SetupPcs, WorkerPcs
<1>3. ASSUME RedButton(p)  PROVE Good
  <2>1. PICK k \in {"ForceShutDown", "ShuttingDown"} :
          Start(p, "RedButton", "listRans", Request(k, NoE2T, NoRan), NoNodeb, NoRans)
    BY <1>3 DEF RedButton
  <2>2. /\ \E S : Takes(p, S)
        /\ Becomes(p, "listRans", Request(k, NoE2T, NoRan), NoNodeb, NoRans)
        /\ UNCHANGED copies
    BY <2>1, StartTakes
  <2>3. Request(k, NoE2T, NoRan).kind # "ShutDown"  BY DEF Request, NoJob
  <2>4. pc'[p] = "listRans" /\ job'[p].kind # "ShutDown"  BY <2>2, <2>3 DEF Becomes
  <2> QED  BY <2>2, <2>4 DEF Tied, SetupPcs, WorkerPcs
<1>4. ASSUME NEW r \in Ran, UpdateGnb(p, r)  PROVE Good
  <2>1. /\ \E S : Takes(p, S)
        /\ Becomes(p, "writeBack", Request("UpdateGnb", NoE2T, r), nodebs[r], NoRans)
        /\ UNCHANGED <<nodebs, copies>>
    BY <1>4, StartTakes DEF UpdateGnb, Start, db
  <2>2. Request("UpdateGnb", NoE2T, r).ran = r  BY DEF Request, NoJob
  <2>3. pc'[p] = "writeBack" /\ nb'[p] = nodebs'[job'[p].ran]  BY <2>1, <2>2 DEF Becomes
  <2> QED  BY <2>1, <2>3 DEF Tied, SetupPcs, WorkerPcs
<1>5. ASSUME NEW a \in E2T, NewE2T(p, a)  PROVE Good
  <2>1. /\ \E S : Takes(p, S)
        /\ Becomes(p, "register", Request("NewE2T", a, NoRan), NoNodeb, NoRans)
        /\ UNCHANGED <<reg, copies>> /\ reg[a] = NoInst
    BY <1>5, StartTakes DEF NewE2T, Start, db
  <2>2. Request("NewE2T", a, NoRan).addr = a  BY DEF Request, NoJob
  <2>3. pc'[p] = "register" /\ reg'[job'[p].addr] = NoInst  BY <2>1, <2>2 DEF Becomes
  <2> QED  BY <2>1, <2>3 DEF Tied, Lists, SetupPcs, WorkerPcs
<1>6. ASSUME NEW a \in E2T, TermInit(p, a)  PROVE Good
  <2> HIDE DEF Good
  <2> QED  BY <1>2, <1>6 DEF TermInit
<1>7. ASSUME NEW r \in Ran, Lost(p, r)  PROVE Good
  <2> HIDE DEF Good
  <2> QED  BY <1>2, <1>7 DEF Lost
<1> QED
  <2> HIDE DEF Good
  <2>1. Good  BY <1>1, <1>3, <1>4, <1>5, <1>6, <1>7 DEF Arrive
  <2> QED  BY <2>1 DEF Good

LEMMA ExpireTakes ==
  ASSUME IInv, NEW S \in SUBSET E2T, Expire(S)
  PROVE  /\ Worker \in Proc /\ Takes(Worker, Ran)
         /\ Becomes(Worker, "mark", Request("Shutdown", NoE2T, NoRan), NoNodeb, NoRans)
         /\ \A a \in E2T : copies'[a] # NoInst => copies'[a] = reg[a] /\ Registry!Directory[a] > 0
<1>1. Worker \in Proc  BY ConstantsOK
<1>2. Only(Worker) /\ Becomes(Worker, "mark", Request("Shutdown", NoE2T, NoRan), NoNodeb, NoRans)
  BY <1>1, StepOnly DEF Expire
<1>3. Request("Shutdown", NoE2T, NoRan).kind = "Shutdown"  BY DEF Request, NoJob
<1>4. Scope(job'[Worker]) = Ran  BY <1>2, <1>3 DEF Becomes, Scope
<1>5. Takes(Worker, Ran)  BY <1>2, <1>4 DEF Expire, Takes, Becomes, db, WorkerPcs
<1> QED  BY <1>1, <1>2, <1>5 DEF Expire

LEMMA ArriveApart ==
  ASSUME IInv, IInv', ApartInv, NEW p \in Proc, Arrive(p)
  PROVE  ApartInv'
<1>1. PICK S : Takes(p, S)  BY ArriveTakes
<1> QED  BY <1>1, ArriveTakes, TakesApart

LEMMA ExpireApart ==
  ASSUME IInv, IInv', ApartInv, NEW S \in SUBSET E2T, Expire(S)
  PROVE  ApartInv'
<1>1. pc'[Worker] = "mark" /\ reg' = reg  BY ExpireTakes DEF Becomes, Takes
<1>2. Tied(pc[Worker], job[Worker], nb[Worker], todo[Worker])'
  BY <1>1, ExpireTakes DEF Tied, Lists, SetupPcs, WorkerPcs
<1> QED  BY <1>2, ExpireTakes, TakesApart

LEMMA CrashApart == ASSUME Crash PROVE ApartInv'
<1>1. \A p \in Proc : pc'[p] = "idle"  BY DEF Crash
<1> QED  BY <1>1 DEF ApartInv, Tied, SetupPcs, WorkerPcs

LEMMA RestApart == ASSUME ApartInv, UNCHANGED vars PROVE ApartInv'
<1> SUFFICES ASSUME NEW p \in Proc, Apart', Apart, Tied(pc[p], job[p], nb[p], todo[p])
             PROVE  Tied(pc[p], job[p], nb[p], todo[p])'
  BY DEF ApartInv, vars, Scope, Apart
<1>1. PICK l, j, n, t : /\ l = pc[p] /\ j = job[p] /\ n = nb[p] /\ t = todo[p]
                        /\ l = pc'[p] /\ j = job'[p] /\ n = nb'[p] /\ t = todo'[p]
  BY DEF vars
<1>2. Tied(l, j, n, t)'
  BY <1>1 DEF vars, Tied, Lists, HasStatus, PassLeaves, Closed, Ahead
<1> QED  BY <1>1, <1>2

LEMMA ApartNext ==
  ASSUME IInv, IInv', ids \subseteq Known, ApartInv, [Next]_vars
  PROVE  ApartInv'
<1>1. ASSUME NEW p \in Proc, Continue(p)  PROVE ApartInv'
  BY <1>1, ContinueActs, ContinueLocal, ContinueTied, ApartStep
<1>2. ASSUME ContinueWorker  PROVE ApartInv'
  BY <1>2, WorkerActs, FullLocal, WorkerTied, ApartStep
<1> QED
  BY <1>1, <1>2, ArriveApart, ExpireApart, CrashApart, RestApart DEF Next, Rest
-----------------------------------------------------------------------------
(* The list of identities names RANs that have a record *)

LEMMA KnownKept ==
  ASSUME IInv, IInv', NEW p \in Proc, Continue(p)
  PROVE  Known \subseteq Known'
<1>1. ASSUME NEW r \in Ran, NEW n, n # NoNodeb, MaybePut(r, n)  PROVE Known \subseteq Known'
  BY <1>1, MaybePutOnly DEF Known
<1>2. ASSUME UNCHANGED nodebs  PROVE Known \subseteq Known'
  BY <1>2 DEF Known
<1>3. CASE SaveNew(p) \/ Associate(p) \/ Down(p) \/ ClearAssoc(p) \/ RedPut(p) \/ WriteBack(p)
  <2>1. /\ job[p].ran \in Ran /\ nb[p] \in CleanNodeb
        /\ pc[p] = "redPut" => job[p].kind \in {"ForceShutDown", "ShuttingDown", "ShutDown"}
    BY <1>3, HoldsNow
    DEF Holds, SaveNew, Associate, Down, ClearAssoc, RedPut, WriteBack
  <2>2. PICK n : MaybePut(job[p].ran, n) /\ n # NoNodeb
    <3>1. CASE SaveNew(p) \/ WriteBack(p)
      BY <2>1, <3>1, ConstantsOK DEF SaveNew, WriteBack, MaybePut, CleanNodeb
    <3>2. CASE Associate(p)
      <4>1. job[p].addr \in E2T  BY <3>2, HoldsNow DEF Associate, Holds
      <4> QED
        BY <2>1, <3>2, <4>1, ConstantsOK DEF Associate, MaybePut, CleanNodeb, Nodeb, Status
    <3>3. CASE Down(p)
      BY <2>1, <3>3, ConstantsOK DEF Down, MaybePut, CleanNodeb, Nodeb, Status
    <3>4. CASE ClearAssoc(p)
      BY <2>1, <3>4, ConstantsOK DEF ClearAssoc, MaybePut, CleanNodeb, Nodeb, Status
    <3>5. CASE RedPut(p)
      BY <2>1, <3>5, ConstantsOK
      DEF RedPut, PassSaves, MaybePut, CleanNodeb, Nodeb, Status
    <3> QED  BY <1>3, <3>1, <3>2, <3>3, <3>4, <3>5
  <2> QED  BY <1>1, <2>1, <2>2
<1> QED
  BY <1>2, <1>3 DEF Continue, LookupRan, AddMember, AddRan, Fetch, Dissociate, RemoveRan,
     Register, List, ListRans, RedGet, PassDone, ClearRans, db

LEMMA IdsNext ==
  ASSUME IInv, IInv', ids \subseteq Known, [Next]_vars
  PROVE  ids' \subseteq Known'
<1>1. ASSUME NEW p \in Proc, Continue(p)  PROVE ids' \subseteq Known'
  <2>1. CASE AddMember(p)
    <3>1. job[p].ran \in Known /\ ids' \in {ids, ids \cup {job[p].ran}}
      BY <2>1, HoldsNow DEF AddMember, Holds
    <3> QED  BY <1>1, <3>1, KnownKept
  <2>2. CASE ~AddMember(p)
    <3>1. ids' = ids
      BY <1>1, <2>2 DEF Continue, LookupRan, SaveNew, Associate, AddRan, Fetch, Down, Dissociate,
         ClearAssoc, RemoveRan, Register, List, ListRans, RedGet, RedPut, PassDone, ClearRans,
         WriteBack, db
    <3> QED  BY <1>1, <3>1, KnownKept
  <2> QED  BY <2>1, <2>2
<1>2. ASSUME ContinueWorker  PROVE ids' \subseteq Known'
  <2>1. CASE PutNodeb
    <3>1. job[Worker].ran \in Ran  BY <2>1, WorkerHolds DEF PutNodeb, Holds
    <3>2. MaybePut(job[Worker].ran, Disconnected(nb[Worker])) /\ ids' = ids
      BY <2>1 DEF PutNodeb, MaybePut
    <3>3. Disconnected(nb[Worker]) # NoNodeb  BY ConstantsOK DEF Disconnected, Nodeb, Status
    <3> QED  BY <3>1, <3>2, <3>3, MaybePutOnly DEF Known
  <2>2. CASE ~PutNodeb
    BY <1>2, <2>2 DEF ContinueWorker, Mark, GetNodeb, Unregister, Unlist, db, Known
  <2> QED  BY <2>1, <2>2
<1>3. ASSUME UNCHANGED <<nodebs, ids>>  PROVE ids' \subseteq Known'
  BY <1>3 DEF Known
<1>4. ASSUME NEW p \in Proc, Arrive(p)  PROVE ids' \subseteq Known'
  BY <1>3, <1>4, ArriveTakes DEF Takes
<1> QED
  BY <1>1, <1>2, <1>3, <1>4 DEF Next, Expire, Crash, Rest, vars, db
-----------------------------------------------------------------------------
(* A RAN is left behind only by a failure: of E2_SETUP, lost connection, *)
(* red button, update of the cells                                       *)

UnlistedKept(r) == r \in Known' /\ Unlisted(r)' => r \in Charged
AdriftKept(r) == Apart /\ (Adrift(r)' \/ Doomed(r)') => r \in Charged
Kept(r) == UnlistedKept(r) /\ AdriftKept(r)

LEMMA SumGrows ==
  ASSUME NEW a \in Nat, NEW b \in Nat, NEW c \in Nat, a <= b
  PROVE  a + c \in Nat /\ b + c \in Nat /\ a + c <= b + c
OBVIOUS

LEMMA AllKept ==
  ASSUME IInv, ChargedInv, overlap' = overlap, cut' = cut, faults <= faults',
         IInv', \A r \in Ran : Kept(r)
  PROVE  ChargedInv'
<1>1. Charged' \subseteq Charged
  BY DEF Charged, Kept, UnlistedKept, AdriftKept, Apart, Known
<1>a. faults \in Nat /\ cut \in Nat  BY SpentType
<1>b. CountInv'  BY DEF IInv
<1>c. MaxFaults \in Nat  BY ConstantsOK
<1>d. faults' \in Nat  BY <1>b, <1>c DEF CountInv
<1>2. faults + cut \in Nat /\ faults' + cut' \in Nat /\ faults + cut <= faults' + cut'
  BY <1>a, <1>d, SumGrows
<1>3. IsFiniteSet(Charged') /\ Cardinality(Charged') <= faults' + cut'
  <2> DEFINE n == faults + cut  m == faults' + cut'  S == Charged  T == Charged'
  <2>1. n \in Nat /\ m \in Nat /\ n <= m /\ T \subseteq S
        /\ IsFiniteSet(S) /\ Cardinality(S) <= n
    BY <1>1, <1>2 DEF ChargedInv
  <2> HIDE DEF n, m, S, T
  <2>2. IsFiniteSet(T) /\ Cardinality(T) <= m  BY <2>1, SubsetCount
  <2> QED  BY <2>2 DEF T, m
<1> QED  BY <1>3 DEF ChargedInv

LEMMA OneLost ==
  ASSUME IInv, ChargedInv, overlap' = overlap, cut' = cut, faults' = faults + 1,
         NEW s, \A r \in Ran : r # s => Kept(r)
  PROVE  ChargedInv'
<1>1. Charged' \subseteq Charged \cup {s}
  BY DEF Charged, Kept, UnlistedKept, AdriftKept, Apart, Known
<1>2. faults + cut \in Nat /\ faults' + cut' = (faults + cut) + 1
  BY ConstantsOK DEF IInv, CountInv
<1> DEFINE n == faults + cut  S == Charged  T == Charged'
<1>3. n \in Nat /\ T \subseteq S \cup {s} /\ IsFiniteSet(S) /\ Cardinality(S) <= n
  BY <1>1, <1>2 DEF ChargedInv
<1> HIDE DEF n, S, T
<1>4. IsFiniteSet(T) /\ Cardinality(T) <= n + 1  BY <1>3, OneMoreCount
<1> QED  BY <1>2, <1>4 DEF n, T, ChargedInv

\* the list of identities: SaveNodeb alone adds a record, and its second step the RAN
LEMMA KnownSame ==
  ASSUME IInv, IInv', NEW p \in Proc, Continue(p), ~SaveNew(p)
  PROVE  Known' = Known
<1>1. Known \subseteq Known'  BY KnownKept
<1>2. ASSUME NEW r \in Known, NEW n, MaybePut(r, n)  PROVE Known' \subseteq Known
  BY <1>2, MaybePutOnly DEF Known
<1>3. CASE Associate(p) \/ Down(p) \/ ClearAssoc(p) \/ RedPut(p) \/ WriteBack(p)
  <2>1. job[p].ran \in Known
    BY <1>3, HoldsNow DEF Holds, Associate, Down, ClearAssoc, RedPut, WriteBack
  <2>2. PICK n : MaybePut(job[p].ran, n)
    BY <1>3 DEF Associate, Down, ClearAssoc, RedPut, WriteBack, MaybePut
  <2> QED  BY <1>1, <1>2, <2>1, <2>2
<1> QED
  BY <1>3 DEF Continue, LookupRan, AddMember, AddRan, Fetch, Dissociate, RemoveRan,
     Register, List, ListRans, RedGet, PassDone, ClearRans, db, Known

LEMMA JoiningSame ==
  ASSUME NEW p \in Proc, Only(p), NEW r, NEW pcs, ~(pc[p] \in pcs /\ job[p].ran = r)
  PROVE  Joining(r, pcs) => Joining(r, pcs)'
BY DEF Joining, Only

LEMMA UnlistedSame ==
  ASSUME NEW p \in Proc, Only(p), ids \subseteq ids', NEW r \in Ran,
         r \in Known' => r \in Known, pc[p] # "addMember" \/ job[p].ran # r
  PROVE  UnlistedKept(r)
<1>1. Joining(r, {"addMember"}) => Joining(r, {"addMember"})'  BY JoiningSame
<1> QED  BY <1>1 DEF UnlistedKept, Unlisted, Charged

LEMMA ContinueUnlisted ==
  ASSUME IInv, IInv', NEW p \in Proc, Continue(p), NEW r \in Ran
  PROVE  UnlistedKept(r) \/ (job[p].ran = r /\ faults' = faults + 1)
<1>1. Only(p)  BY ContinueActs DEF Acts
<1>2. CASE SaveNew(p)
  <2>1. pc[p] = "saveNew" /\ ids' = ids /\ MaybePut(job[p].ran, nb[p]) /\ job[p].ran \in Ran
    BY <1>2, ScopeNow DEF SaveNew, MaybePut, SetupPcs
  <2>2. r # job[p].ran => (r \in Known' => r \in Known)  BY <2>1, MaybePutOnly DEF Known
  <2>3. CASE r # job[p].ran  BY <1>1, <2>1, <2>2, <2>3, UnlistedSame
  <2>4. CASE r = job[p].ran /\ Goto(p, "addMember")
    BY <2>4, GotoOnly DEF Becomes, UnlistedKept, Unlisted, Joining
  <2>5. CASE r = job[p].ran /\ Fails(p)  BY <2>5 DEF Fails, Fault
  <2> QED  BY <1>2, <2>3, <2>4, <2>5 DEF SaveNew
<1>3. CASE AddMember(p)
  <2>1. ids' \in {ids, ids \cup {job[p].ran}} /\ nodebs' = nodebs  BY <1>3 DEF AddMember
  <2>2. CASE r # job[p].ran  BY <1>1, <2>1, <2>2, UnlistedSame DEF Known
  <2>3. CASE r = job[p].ran /\ ids' = ids \cup {job[p].ran}
    BY <2>3 DEF UnlistedKept, Unlisted
  <2>4. CASE r = job[p].ran /\ Fault  BY <2>4 DEF Fault
  <2> QED  BY <1>3, <2>2, <2>3, <2>4 DEF AddMember
<1>4. CASE ~SaveNew(p) /\ ~AddMember(p)
  <2>1. ids' = ids /\ pc[p] # "addMember"
    BY <1>4 DEF Continue, LookupRan, Associate, AddRan, Fetch, Down, Dissociate,
       ClearAssoc, RemoveRan, Register, List, ListRans, RedGet, RedPut, PassDone, ClearRans,
       WriteBack, db
  <2>2. Known' = Known  BY <1>4, KnownSame
  <2> QED  BY <1>1, <2>1, <2>2, UnlistedSame
<1> QED  BY <1>2, <1>3, <1>4

\* a step says nothing of the RANs its request is not about
LEMMA AdriftElsewhere ==
  ASSUME IInv, IInv', ApartInv, NEW p \in Proc, Acts(p), Local(p), NEW r \in Ran,
         r \notin Scope(job[p])
  PROVE  AdriftKept(r)
<1>1. /\ nodebs'[r] = nodebs[r] /\ \A a \in E2T : Lists(a, r)' <=> Lists(a, r)
  BY DEF Local
<1>2. HasStatus(r, "CONNECTED")' => HasStatus(r, "CONNECTED") /\ r \in Known
  BY <1>1 DEF HasStatus, Known
<1>3. Anchored(r)' <=> Anchored(r)  BY <1>1 DEF Anchored, Lists
<1> DEFINE J == {"addMember", "associate", "addRan"}
<1>4. ~(pc[p] \in J /\ job[p].ran = r)  BY ScopeNow DEF SetupPcs
<1>5. Adrift(r)' => Adrift(r)
  <2>1. Joining(r, J) => Joining(r, J)'
    <3> HIDE DEF J
    <3> QED  BY <1>4, JoiningSame DEF Acts
  <2> QED  BY <1>2, <1>3, <2>1 DEF Adrift
<1>6. Doomed(r)' => Doomed(r)
  <2> SUFFICES ASSUME Doomed(r)'  PROVE Doomed(r)  OBVIOUS
  <2>1. Worker \in Proc /\ pc'[Worker] \in {"getNodeb", "putNodeb"}  BY ConstantsOK DEF Doomed
  <2>2. Scope(job'[Worker]) = Ran
    <3>1. Holds(pc'[Worker], job'[Worker], nb'[Worker], todo'[Worker], Known')
      BY <2>1 DEF IInv, ThreadInv
    <3> QED  BY <2>1, <3>1, ScopeOf DEF WorkerPcs
  <2>3. p # Worker  BY <2>1, <2>2 DEF Acts
  <2>4. UNCHANGED <<pc[Worker], job[Worker], nb[Worker], todo[Worker]>>
    BY <2>1, <2>3 DEF Acts, Only
  <2> QED  BY <1>1, <1>2, <1>3, <2>4 DEF Doomed, Ahead
<1> QED  BY <1>2, <1>5, <1>6 DEF AdriftKept, Charged, Adrift, Doomed

\* a RAN that is connected after the step, and was, with the same association
LEMMA AdriftSame ==
  ASSUME NEW p \in Proc, Only(p), NEW r \in Ran,
         HasStatus(r, "CONNECTED")' => nodebs'[r] = nodebs[r],
         HasStatus(r, "CONNECTED")' =>
           \A a \in E2T : nodebs[r].assoc = a /\ Lists(a, r) => Lists(a, r)',
         pc[p] \notin {"addMember", "associate", "addRan"}
  PROVE  Apart /\ Adrift(r)' => r \in Charged
<1> SUFFICES ASSUME Apart, Adrift(r)'  PROVE r \in Charged  OBVIOUS
<1>1. nodebs'[r] = nodebs[r] /\ HasStatus(r, "CONNECTED") /\ r \in Known
  BY DEF Adrift, HasStatus, Known
<1>2. ~Anchored(r)  BY <1>1 DEF Adrift, Anchored, Lists
<1>3. ~Joining(r, {"addMember", "associate", "addRan"})
  <2> DEFINE J == {"addMember", "associate", "addRan"}
  <2>1. ~Joining(r, J)' /\ pc[p] \notin J  BY DEF Adrift
  <2> HIDE DEF J
  <2>2. ~Joining(r, J)  BY <2>1, JoiningSame
  <2> QED  BY <2>2 DEF J
<1> QED  BY <1>1, <1>2, <1>3 DEF Adrift, Charged

LEMMA WrittenOff ==
  ASSUME IInv, NEW s \in Ran, NEW n, MaybePut(s, n), n.status # "CONNECTED", NEW r \in Ran
  PROVE  HasStatus(r, "CONNECTED")' => nodebs'[r] = nodebs[r]
BY MaybePutOnly DEF HasStatus

LEMMA NotDoomed ==
  ASSUME IInv, ApartInv, Apart, NEW p \in Proc, Acts(p), pc'[p] \notin WorkerPcs,
         NEW r \in Ran, r \in Scope(job[p])
  PROVE  ~Doomed(r)'
<1>1. CASE p = Worker  BY <1>1 DEF Doomed, WorkerPcs
<1>2. CASE p # Worker
  <2>1. pc[Worker] \notin WorkerPcs  BY <1>2, NoWorker DEF Acts
  <2>2. pc'[Worker] = pc[Worker]  BY <1>2, ConstantsOK DEF Acts, Only
  <2> QED  BY <2>1, <2>2 DEF Doomed, WorkerPcs
<1> QED  BY <1>1, <1>2

LEMMA ContinuePc ==
  ASSUME IInv, NEW p \in Proc, Continue(p)
  PROVE  pc'[p] \notin WorkerPcs
<1>1. pc[p] \notin WorkerPcs
  BY DEF WorkerPcs, Continue, LookupRan, SaveNew, AddMember, Associate, AddRan, Fetch, Down,
     Dissociate, ClearAssoc, RemoveRan, Register, List, ListRans, RedGet, RedPut, PassDone,
     ClearRans, WriteBack
<1>2. ASSUME Ends(p) \/ Stays(p)  PROVE pc'[p] \notin WorkerPcs
  BY <1>1, <1>2 DEF Ends, Stays, Becomes, WorkerPcs
<1>3. ASSUME NEW l, Goto(p, l), l \notin WorkerPcs  PROVE pc'[p] \notin WorkerPcs
  BY <1>3, GotoOnly DEF Becomes
<1>4. ASSUME NEW l, NEW j, NEW n, NEW t, Step(p, l, j, n, t), l \notin WorkerPcs
      PROVE  pc'[p] \notin WorkerPcs
  BY <1>4, StepOnly DEF Becomes
<1>5. ASSUME NEW r \in Ran, pc[p] \in {"fetch", "down", "removeRan"}, todo[p][r] > 0, NextRan(p, r)
      PROVE  pc'[p] \notin WorkerPcs
  BY <1>2, <1>5, NextRanOnly DEF Becomes, WorkerPcs
<1>6. CASE LookupRan(p)
  BY <1>2, <1>4, <1>6, EndOnly DEF LookupRan, NewRan, WorkerPcs
<1>7. CASE SaveNew(p) \/ AddMember(p) \/ Associate(p) \/ AddRan(p)
  BY <1>2, <1>3, <1>7, EndOnly, FailsOnly DEF SaveNew, AddMember, Associate, AddRan, WorkerPcs
<1>8. CASE Fetch(p)
  BY <1>2, <1>4, <1>5, <1>8, EndOnly DEF Fetch, WorkerPcs
<1>9. CASE Down(p) \/ RemoveRan(p)
  <2>1. job[p].ran \in Ran /\ todo[p][job[p].ran] > 0
    BY <1>9, HoldsNow DEF Down, RemoveRan, Holds
  <2> QED
    BY <1>2, <1>3, <1>5, <1>9, <2>1, EndOnly, FailsOnly DEF Down, RemoveRan, WorkerPcs
<1>10. CASE Dissociate(p) \/ ClearAssoc(p) \/ Register(p) \/ List(p)
  BY <1>2, <1>3, <1>4, <1>10, EndOnly, FailsOnly
  DEF Dissociate, ClearAssoc, Register, List, WorkerPcs
<1>11. CASE ListRans(p) \/ RedGet(p) \/ RedPut(p)
  BY <1>2, <1>4, <1>11, EndOnly, FailsOnly DEF ListRans, RedGet, RedPut, WorkerPcs
<1>12. CASE PassDone(p) \/ ClearRans(p) \/ WriteBack(p)
  BY <1>2, <1>3, <1>4, <1>12, EndOnly, FailsOnly DEF PassDone, ClearRans, WriteBack, WorkerPcs
<1> QED
  BY <1>6, <1>7, <1>8, <1>9, <1>10, <1>11, <1>12 DEF Continue

\* E2_SETUP: its RAN is accounted for until it is associated and listed
LEMMA SetupAdrift ==
  ASSUME IInv, IInv', ApartInv, Apart, NEW p \in Proc, NEW r \in Ran, r \in Scope(job[p]),
         LookupRan(p) \/ SaveNew(p) \/ AddMember(p) \/ Associate(p) \/ AddRan(p)
  PROVE  (Adrift(r)' => r \in Charged) \/ (job[p].ran = r /\ faults' = faults + 1)
<1>1. pc[p] \in SetupPcs
  BY DEF LookupRan, SaveNew, AddMember, Associate, AddRan, SetupPcs
<1>2. job[p].ran = r  BY <1>1, ScopeNow
<1>3. ASSUME pc'[p] \in {"addMember", "associate", "addRan"}, job'[p] = job[p]
      PROVE  ~Adrift(r)'
  BY <1>2, <1>3 DEF Adrift, Joining
<1>4. Fault => faults' = faults + 1  BY DEF Fault
<1>5. ASSUME NEW l \in {"addMember", "associate", "addRan"}, Goto(p, l)  PROVE ~Adrift(r)'
  BY <1>3, <1>5, GotoOnly DEF Becomes
<1>6. CASE LookupRan(p)
  <2>1. /\ pc[p] = "lookup" /\ Only(p) /\ nodebs' = nodebs
        /\ \A a \in E2T : Lists(a, r) => Lists(a, r)'
    BY <1>6, SetupActs DEF LookupRan, db, Lists, Acts
  <2> QED  BY <2>1, AdriftSame
<1>7. CASE SaveNew(p)
  BY <1>2, <1>4, <1>5, <1>7 DEF SaveNew, Fails
<1>8. CASE AddMember(p)
  BY <1>2, <1>4, <1>5, <1>8 DEF AddMember
<1>9. CASE Associate(p)
  BY <1>2, <1>4, <1>5, <1>9 DEF Associate, Fails
<1>10. CASE AddRan(p)
  <2>1. pc[p] = "addRan" /\ nodebs' = nodebs /\ job[p].addr \in E2T
    BY <1>10, HoldsNow DEF AddRan, Holds
  <2>2. nodebs[r] = NewNodeb(job[p].addr) /\ reg[job[p].addr] # NoInst
    BY <1>2, <2>1 DEF ApartInv, Tied, SetupPcs
  <2>3. CASE Registry!AddRan(job[p].addr, r)
    <3>0. PICK a \in E2T : a = job[p].addr  BY <2>1
    <3>1. Lists(a, r)'  BY <2>3, <3>0, AddRanOnly
    <3>2. nodebs'[r].assoc = a  BY <2>1, <2>2, <3>0 DEF NewNodeb
    <3>3. Anchored(r)'  BY <3>1, <3>2 DEF Anchored, Lists
    <3> QED  BY <3>3 DEF Adrift
  <2> QED  BY <1>2, <1>4, <1>10, <2>2, <2>3 DEF AddRan
<1> QED  BY <1>6, <1>7, <1>8, <1>9, <1>10

LEMMA DisconnectAdrift ==
  ASSUME IInv, IInv', ApartInv, Apart, NEW p \in Proc, NEW r \in Ran,
         Fetch(p) \/ Down(p) \/ Dissociate(p) \/ ClearAssoc(p) \/ RemoveRan(p)
  PROVE  Adrift(r)' => r \in Charged
<1>1. Only(p) /\ pc[p] \notin {"addMember", "associate", "addRan"}
  BY DisconnectActs DEF Acts, Fetch, Down, Dissociate, ClearAssoc, RemoveRan
<1>2. Tied(pc[p], job[p], nb[p], todo[p])  BY DEF ApartInv
<1>3. CASE Fetch(p) \/ Dissociate(p)
  BY <1>1, <1>3, AdriftSame DEF Fetch, Dissociate, db, Lists
<1>4. CASE Down(p)
  <2>1. job[p].ran \in Ran /\ nb[p] \in CleanNodeb /\ reg' = reg
    BY <1>4, HoldsNow DEF Down, Holds
  <2>2. /\ [nb[p] EXCEPT !.status = "DISCONNECTED"].status = "DISCONNECTED"
        /\ [nb[p] EXCEPT !.status = "SHUT_DOWN"].status = "SHUT_DOWN"
    BY <2>1, NotConnected DEF Status
  <2>3. PICK n : MaybePut(job[p].ran, n) /\ n.status # "CONNECTED"
    BY <1>4, <2>2 DEF Down, MaybePut
  <2> QED  BY <1>1, <2>1, <2>3, WrittenOff, AdriftSame DEF Lists
<1>5. CASE ClearAssoc(p)
  <2>1. job[p].ran \in Ran /\ nb[p] \in CleanNodeb /\ reg' = reg /\ nb[p].status # "CONNECTED"
    BY <1>2, <1>5, HoldsNow, ConstantsOK DEF ClearAssoc, Holds, CleanNodeb, Tied
  <2>2. [nb[p] EXCEPT !.assoc = NoE2T].status # "CONNECTED"
    BY <2>1, NotConnected DEF Status
  <2>3. PICK n : MaybePut(job[p].ran, n) /\ n.status # "CONNECTED"
    BY <1>5, <2>2 DEF ClearAssoc, MaybePut
  <2> QED  BY <1>1, <2>1, <2>3, WrittenOff, AdriftSame DEF Lists
<1>6. CASE RemoveRan(p)
  <2>1. /\ pc[p] = "removeRan" /\ job[p].ran \in Ran /\ job[p].addr \in E2T \cup {NoE2T}
        /\ nodebs' = nodebs
    BY <1>6, HoldsNow DEF RemoveRan, Holds, Job
  <2>2. ~HasStatus(job[p].ran, "CONNECTED")  BY <1>2, <2>1 DEF Tied
  <2>3. r = job[p].ran => ~HasStatus(r, "CONNECTED")'  BY <2>1, <2>2 DEF HasStatus
  <2>4. r # job[p].ran => \A a \in E2T : Lists(a, r) => Lists(a, r)'
    <3>1. CASE job[p].addr # NoE2T /\ Registry!RemoveRan(job[p].addr, job[p].ran)
      BY <2>1, <3>1, RemoveRanOnly
    <3>2. CASE UNCHANGED <<reg, dir>>  BY <3>2 DEF Lists
    <3> QED  BY <1>6, <3>1, <3>2 DEF RemoveRan
  <2> QED  BY <1>1, <2>1, <2>3, <2>4, AdriftSame
<1> QED  BY <1>3, <1>4, <1>5, <1>6

LEMMA RegisterLists ==
  ASSUME IInv, NEW a \in E2T, Registry!Register(a)
  PROVE  \A b \in E2T : b # a => reg'[b] = reg[b]
BY DEF Registry!Register, IInv, RegInv

LEMMA FullAdrift ==
  ASSUME IInv, IInv', ids \subseteq Known, ApartInv, Apart, NEW p \in Proc, NEW r \in Ran,
         \/ Register(p) \/ List(p)
         \/ ListRans(p) \/ RedGet(p) \/ RedPut(p) \/ PassDone(p) \/ ClearRans(p)
  PROVE  Adrift(r)' => r \in Charged
<1>1. Only(p) /\ pc[p] \notin {"addMember", "associate", "addRan"} /\ Scope(job[p]) = Ran
      /\ pc[p] # "idle"
  BY FullActs DEF Acts, Register, List, ListRans, RedGet, RedPut, PassDone, ClearRans
<1>2. Tied(pc[p], job[p], nb[p], todo[p])  BY DEF ApartInv
<1>3. CASE ListRans(p) \/ RedGet(p) \/ PassDone(p)
  BY <1>1, <1>3, AdriftSame DEF ListRans, RedGet, PassDone, db, Lists
<1>4. CASE List(p)
  BY <1>1, <1>4, AdriftSame DEF List, Registry!List, Lists
<1>5. CASE Register(p)
  <2>1. pc[p] = "register" /\ nodebs' = nodebs /\ job[p].addr \in E2T
    BY <1>5, HoldsNow DEF Register, Holds
  <2>2. \A a \in E2T : Lists(a, r) => Lists(a, r)'
    <3>1. ~Lists(job[p].addr, r)  BY <1>2, <2>1 DEF Tied
    <3>2. CASE Registry!Register(job[p].addr)  BY <2>1, <3>1, <3>2, RegisterLists DEF Lists
    <3>3. CASE UNCHANGED <<reg, dir>>  BY <3>3 DEF Lists
    <3> QED  BY <1>5, <3>2, <3>3 DEF Register
  <2> QED  BY <1>1, <2>1, <2>2, AdriftSame
<1>6. CASE RedPut(p)
  <2>1. /\ job[p].ran \in Ran /\ nb[p] \in CleanNodeb /\ reg' = reg
        /\ job[p].kind \in {"ForceShutDown", "ShuttingDown", "ShutDown"}
    BY <1>6, HoldsNow DEF RedPut, Holds
  <2>2. PassSaves(job[p].kind, nb[p]).status # "CONNECTED"  BY <2>1, PassSavesLeaves
  <2>3. PICK n : MaybePut(job[p].ran, n) /\ n.status # "CONNECTED"
    BY <1>6, <2>2 DEF RedPut, MaybePut
  <2> QED  BY <1>1, <2>1, <2>3, WrittenOff, AdriftSame DEF Lists
<1>7. CASE ClearRans(p)
  <2>1. pc[p] = "clearRans" /\ nodebs' = nodebs /\ todo[p] = NoRans
    BY <1>7, HoldsNow DEF ClearRans, Holds
  <2>2. \A s \in ids : PassLeaves(job[p], s)
    BY <1>2, <2>1 DEF Tied, Ahead, NoRans, IInv, NodebInv
  <2> SUFFICES ASSUME Adrift(r)'  PROVE r \in Charged  OBVIOUS
  <2>3. HasStatus(r, "CONNECTED") /\ r \in Known  BY <2>1 DEF Adrift, HasStatus, Known
  <2>4. r \notin ids  BY <2>2, <2>3 DEF PassLeaves, Closed, HasStatus
  <2>5. ~Joining(r, {"addMember"})
    BY <1>1, <2>1, NoOther DEF Joining, SetupPcs
  <2> QED  BY <2>3, <2>4, <2>5 DEF Charged, Unlisted
<1> QED  BY <1>3, <1>4, <1>5, <1>6, <1>7

LEMMA ContinueAdrift ==
  ASSUME IInv, IInv', ids \subseteq Known, ApartInv, NEW p \in Proc, Continue(p), NEW r \in Ran
  PROVE  AdriftKept(r) \/ (job[p].ran = r /\ faults' = faults + 1)
<1>1. Acts(p) /\ Local(p) /\ pc'[p] \notin WorkerPcs
  BY ContinueActs, ContinueLocal, ContinuePc
<1>2. CASE ~Apart  BY <1>2 DEF AdriftKept
<1>3. CASE r \notin Scope(job[p])  BY <1>1, <1>3, AdriftElsewhere
<1>4. CASE Apart /\ r \in Scope(job[p])
  <2>1. ~Doomed(r)'  BY <1>1, <1>4, NotDoomed
  <2>2. CASE WriteBack(p)
    <3>1. /\ pc[p] = "writeBack" /\ job[p].ran \in Ran /\ nb[p] = nodebs[job[p].ran]
          /\ reg' = reg
      BY <1>4, <2>2, HoldsNow DEF WriteBack, Holds, ApartInv, Tied
    <3>2. nodebs'[r] = nodebs[r]  BY <2>2, <3>1, MaybePutOnly DEF WriteBack, MaybePut
    <3>3. Adrift(r)' => r \in Charged  BY <1>1, <1>4, <3>1, <3>2, AdriftSame DEF Acts, Lists
    <3> QED  BY <2>1, <3>3 DEF AdriftKept
  <2>3. (Adrift(r)' => r \in Charged) \/ (job[p].ran = r /\ faults' = faults + 1) \/ WriteBack(p)
    BY <1>4, SetupAdrift, DisconnectAdrift, FullAdrift DEF Continue
  <2> QED  BY <2>1, <2>2, <2>3 DEF AdriftKept
<1> QED  BY <1>2, <1>3, <1>4
-----------------------------------------------------------------------------
(* ... and of the shutdown of an E2T *)

LEMMA WorkerUnlisted ==
  ASSUME IInv, IInv', ContinueWorker, NEW r \in Ran
  PROVE  UnlistedKept(r)
<1>1. Worker \in Proc /\ Only(Worker) /\ ids' = ids /\ pc[Worker] # "addMember"
  BY WorkerActs DEF Acts, ContinueWorker, Mark, GetNodeb, PutNodeb, Unregister, Unlist, db
<1>2. r \in Known' => r \in Known
  <2>1. CASE PutNodeb
    <3>1. job[Worker].ran \in Ran /\ job[Worker].ran \in Known
      BY <2>1, WorkerHolds DEF PutNodeb, Holds
    <3>2. PICK n : MaybePut(job[Worker].ran, n)  BY <2>1 DEF PutNodeb, MaybePut
    <3> QED  BY <3>1, <3>2, MaybePutOnly DEF Known
  <2>2. CASE ~PutNodeb
    BY <2>2 DEF ContinueWorker, Mark, GetNodeb, Unregister, Unlist, db, Known
  <2> QED  BY <2>1, <2>2
<1> QED  BY <1>1, <1>2, UnlistedSame

LEMMA NextE2TDoomed ==
  ASSUME IInv, NEW a \in E2T, NextE2T(a), NEW r
  PROVE  ~Doomed(r)'
BY NextE2TOnly DEF Ends, Becomes, Doomed

\* the mark replaces a record by a copy that has its RANs
LEMMA MarkAdrift ==
  ASSUME IInv, IInv', ApartInv, Apart, Mark, NEW r \in Ran
  PROVE  Adrift(r)' \/ Doomed(r)' => r \in Charged
<1>1. /\ Worker \in Proc /\ Only(Worker) /\ pc[Worker] = "mark" /\ nodebs' = nodebs
  BY WorkerActs DEF ContinueWorker, Acts, Mark
<1>2. CopiesCover  BY <1>1 DEF ApartInv, Tied, CopiesCover, WorkerPcs
<1>3. PICK a \in E2T :
        LET marked == [reg EXCEPT ![a] = [copies[a] EXCEPT !.state = "ToBeDeleted"]]
        IN /\ copies[a] # NoInst
           /\ \/ /\ reg' = marked
                 /\ Step(Worker, "getNodeb", Request("Shutdown", a, NoRan), NoNodeb, copies[a].rans)
              \/ reg' \in {reg, marked} /\ NextE2T(a)
  BY <1>1 DEF Mark
<1> DEFINE marked == [reg EXCEPT ![a] = [copies[a] EXCEPT !.state = "ToBeDeleted"]]
<1>4. reg' = marked => /\ reg'[a] # NoInst /\ reg'[a].rans = copies[a].rans
                       /\ \A b \in E2T : b # a => reg'[b] = reg[b]
  BY <1>3, MarkedLists
<1>5. \A b \in E2T : Lists(b, r) => Lists(b, r)'
  <2>1. CASE reg' = reg  BY <2>1 DEF Lists
  <2>2. CASE reg' = marked  BY <1>2, <1>3, <1>4, <2>2 DEF CopiesCover, Lists
  <2> QED  BY <1>3, <2>1, <2>2
<1>6. Adrift(r)' => r \in Charged  BY <1>1, <1>5, AdriftSame
<1>7. ~Doomed(r)'
  <2>1. CASE NextE2T(a)  BY <2>1, NextE2TDoomed
  <2>2. CASE /\ reg' = marked
             /\ Step(Worker, "getNodeb", Request("Shutdown", a, NoRan), NoNodeb, copies[a].rans)
    <3>1. Becomes(Worker, "getNodeb", Request("Shutdown", a, NoRan), NoNodeb, copies[a].rans)
      BY <1>1, <2>2, StepOnly
    <3>2. Request("Shutdown", a, NoRan).addr = a  BY DEF Request, NoJob
    <3>3. todo'[Worker] = reg'[a].rans /\ job'[Worker].addr = a
      BY <1>4, <2>2, <3>1, <3>2 DEF Becomes
    <3> SUFFICES ASSUME Doomed(r)'  PROVE FALSE  OBVIOUS
    <3>4. nodebs'[r].assoc = a /\ Anchored(r)' /\ ~(todo'[Worker][r] > 0)
      BY <3>3 DEF Doomed, Ahead
    <3>5. reg'[a].rans[r] > 0  BY <3>4 DEF Anchored
    <3> QED  BY <3>3, <3>4, <3>5
  <2> QED  BY <1>3, <2>1, <2>2
<1> QED  BY <1>6, <1>7

LEMMA DoomedSame ==
  ASSUME NEW r \in Ran, HasStatus(r, "CONNECTED")' => nodebs'[r] = nodebs[r],
         \A a \in E2T : Lists(a, r)' => Lists(a, r), job'[Worker].addr = job[Worker].addr,
         pc[Worker] \in {"getNodeb", "putNodeb"},
         Doomed(r)' => ~Ahead(pc[Worker], job[Worker], todo[Worker], r)
  PROVE  Apart /\ Doomed(r)' => r \in Charged
<1> SUFFICES ASSUME Apart, Doomed(r)'  PROVE r \in Charged  OBVIOUS
<1>1. nodebs'[r] = nodebs[r] /\ HasStatus(r, "CONNECTED") /\ r \in Known
  BY DEF Doomed, HasStatus, Known
<1>2. Anchored(r) /\ nodebs[r].assoc = job[Worker].addr
  BY <1>1 DEF Doomed, Anchored, Lists
<1> QED  BY <1>1, <1>2 DEF Doomed, Charged

\* the RAN that the worker passes over is lost if its E2T is removed
LEMMA GetNodebAdrift ==
  ASSUME IInv, IInv', GetNodeb, Apart
  PROVE  \/ \A r \in Ran : Adrift(r)' \/ Doomed(r)' => r \in Charged
         \/ /\ faults' = faults + 1
            /\ \E s : \A r \in Ran : r # s => (Adrift(r)' \/ Doomed(r)' => r \in Charged)
<1>1. /\ Worker \in Proc /\ Only(Worker) /\ pc[Worker] = "getNodeb" /\ UNCHANGED <<reg, nodebs>>
      /\ todo[Worker] \in RanBag /\ job[Worker].addr \in E2T
  BY WorkerActs, WorkerHolds DEF ContinueWorker, Acts, GetNodeb, db, Holds
<1>2. ASSUME NEW r \in Ran  PROVE Adrift(r)' => r \in Charged
  BY <1>1, AdriftSame DEF Lists
<1>3. PICK s \in Ran :
        \/ NextE2T(job[Worker].addr)
        \/ Step(Worker, "putNodeb", Request("Shutdown", job[Worker].addr, s), nodebs[s],
                Handled(Worker, s))
        \/ Fault /\ Step(Worker, "getNodeb", job[Worker], NoNodeb, Handled(Worker, s))
  BY DEF GetNodeb
<1>4. \A r \in Ran : r # s => Handled(Worker, s)[r] = todo[Worker][r]
  BY <1>1 DEF Handled, RanBag
<1>5. CASE NextE2T(job[Worker].addr)
  BY <1>1, <1>2, <1>5, NextE2TDoomed
<1>6. CASE Step(Worker, "putNodeb", Request("Shutdown", job[Worker].addr, s), nodebs[s],
                Handled(Worker, s))
  <2>1. Becomes(Worker, "putNodeb", Request("Shutdown", job[Worker].addr, s), nodebs[s],
                Handled(Worker, s))
    BY <1>1, <1>6, StepOnly
  <2>2. /\ job'[Worker].addr = job[Worker].addr /\ job'[Worker].ran = s /\ pc'[Worker] = "putNodeb"
        /\ todo'[Worker] = Handled(Worker, s)
    BY <2>1 DEF Becomes, Request, NoJob
  <2>3. ASSUME NEW r \in Ran  PROVE Doomed(r)' => r \in Charged
    <3>1. Doomed(r)' => r # s /\ ~(todo'[Worker][r] > 0)  BY <2>2 DEF Doomed, Ahead
    <3>2. Doomed(r)' => ~Ahead(pc[Worker], job[Worker], todo[Worker], r)
      BY <1>1, <1>4, <2>2, <3>1 DEF Ahead
    <3> QED  BY <1>1, <2>2, <3>2, DoomedSame DEF Lists
  <2> QED  BY <1>2, <2>3
<1>7. CASE Fault /\ Step(Worker, "getNodeb", job[Worker], NoNodeb, Handled(Worker, s))
  <2>1. Becomes(Worker, "getNodeb", job[Worker], NoNodeb, Handled(Worker, s))
    BY <1>1, <1>7, StepOnly
  <2>2. job'[Worker] = job[Worker] /\ pc'[Worker] = "getNodeb"
        /\ todo'[Worker] = Handled(Worker, s)
    BY <2>1 DEF Becomes
  <2>3. ASSUME NEW r \in Ran, r # s  PROVE Doomed(r)' => r \in Charged
    <3>1. Doomed(r)' => ~Ahead(pc[Worker], job[Worker], todo[Worker], r)
      BY <1>1, <1>4, <2>2, <2>3 DEF Doomed, Ahead
    <3> QED  BY <1>1, <2>2, <3>1, DoomedSame DEF Lists
  <2>4. faults' = faults + 1  BY <1>7 DEF Fault
  <2> QED  BY <1>2, <2>3, <2>4
<1> QED  BY <1>3, <1>5, <1>6, <1>7

LEMMA PutNodebAdrift ==
  ASSUME IInv, IInv', PutNodeb, Apart, NEW r \in Ran
  PROVE  Adrift(r)' \/ Doomed(r)' => r \in Charged
<1> DEFINE off == Disconnected(nb[Worker])
<1>1. /\ Worker \in Proc /\ Only(Worker) /\ pc[Worker] = "putNodeb" /\ reg' = reg
      /\ job[Worker].ran \in Ran /\ job[Worker].addr \in E2T
  BY WorkerActs, WorkerHolds DEF ContinueWorker, Acts, PutNodeb, Holds
<1>2. MaybePut(job[Worker].ran, off) /\ off.status # "CONNECTED"
  BY DEF PutNodeb, MaybePut, Disconnected
<1>3. HasStatus(r, "CONNECTED")' => nodebs'[r] = nodebs[r]  BY <1>1, <1>2, WrittenOff
<1>4. Adrift(r)' => r \in Charged  BY <1>1, <1>3, AdriftSame DEF Lists
<1>5. Doomed(r)' => r \in Charged
  <2>1. CASE NextE2T(job[Worker].addr)  BY <1>1, <2>1, NextE2TDoomed
  <2>2. CASE Put(job[Worker].ran, off)
             /\ Step(Worker, "getNodeb", Request("Shutdown", job[Worker].addr, NoRan), NoNodeb,
                     todo[Worker])
    <3>0. Becomes(Worker, "getNodeb", Request("Shutdown", job[Worker].addr, NoRan), NoNodeb,
                  todo[Worker])
      BY <1>1, <2>2, StepOnly
    <3>1. /\ job'[Worker].addr = job[Worker].addr /\ pc'[Worker] = "getNodeb"
          /\ todo'[Worker] = todo[Worker]
      BY <3>0 DEF Becomes, Request, NoJob
    <3>2. r = job[Worker].ran => ~Doomed(r)'
      BY <1>2, <2>2, <1>1, PutOnly DEF Doomed, HasStatus
    <3>3. Doomed(r)' => ~Ahead(pc[Worker], job[Worker], todo[Worker], r)
      BY <3>1, <3>2 DEF Doomed, Ahead
    <3> QED  BY <1>1, <1>3, <3>1, <3>3, DoomedSame DEF Lists
  <2>3. CASE UNCHANGED threads
    <3>1. pc' = pc /\ job' = job /\ todo' = todo  BY <2>3 DEF threads
    <3>2. Doomed(r)' => ~Ahead(pc[Worker], job[Worker], todo[Worker], r)
      BY <3>1 DEF Doomed, Ahead
    <3> QED  BY <1>1, <1>3, <3>1, <3>2, DoomedSame DEF Lists
  <2> QED  BY <2>1, <2>2, <2>3 DEF PutNodeb
<1> QED  BY <1>4, <1>5

LEMMA UnregisterAdrift ==
  ASSUME IInv, IInv', ApartInv, Apart, Unregister \/ Unlist, NEW r \in Ran
  PROVE  Adrift(r)' \/ Doomed(r)' => r \in Charged
<1>1. /\ Worker \in Proc /\ Only(Worker) /\ pc[Worker] \in WorkerPcs /\ nodebs' = nodebs
      /\ job[Worker].addr \in E2T /\ pc[Worker] # "idle" /\ Scope(job[Worker]) = Ran
  BY WorkerActs, WorkerHolds DEF ContinueWorker, Acts, Unregister, Unlist, Holds, WorkerPcs
<1>2. ~Doomed(r)'
  <2>1. CASE Goto(Worker, "unlist")  BY <1>1, <2>1, GotoOnly DEF Becomes, Doomed
  <2>2. CASE NextE2T(job[Worker].addr)  BY <1>1, <2>2, NextE2TDoomed
  <2> QED  BY <2>1, <2>2 DEF Unregister, Unlist
<1>3. CASE reg' = reg  BY <1>1, <1>2, <1>3, AdriftSame DEF WorkerPcs, Lists
<1>4. CASE Unregister /\ Registry!Unregister(job[Worker].addr)
  <2>1. \A b \in E2T : b # job[Worker].addr => reg'[b] = reg[b]
    BY <1>1, <1>4, UnregisterLists
  <2>2. CASE HasStatus(r, "CONNECTED") /\ Anchored(r) /\ nodebs[r].assoc = job[Worker].addr
    <3>1. Doomed(r)  BY <1>1, <1>4, <2>2 DEF Doomed, Unregister, Ahead, NoRans
    <3> QED  BY <2>2, <3>1 DEF Charged, Known, HasStatus
  <2>3. CASE ~(HasStatus(r, "CONNECTED") /\ Anchored(r) /\ nodebs[r].assoc = job[Worker].addr)
    <3>1. HasStatus(r, "CONNECTED")' =>
            \A a \in E2T : nodebs[r].assoc = a /\ Lists(a, r) => Lists(a, r)'
      BY <1>1, <2>1, <2>3 DEF HasStatus, Anchored, Lists
    <3> QED  BY <1>1, <1>2, <3>1, AdriftSame DEF WorkerPcs
  <2> QED  BY <2>2, <2>3
<1> QED  BY <1>3, <1>4 DEF Unregister, Unlist, Registry!Unlist

LEMMA WorkerCharged ==
  ASSUME IInv, IInv', ApartInv, ChargedInv, ContinueWorker
  PROVE  ChargedInv'
<1>1. overlap' = overlap /\ cut' = cut /\ faults <= faults'  BY WorkerActs DEF Acts
<1>2. \A r \in Ran : UnlistedKept(r)  BY WorkerUnlisted
<1>3. \/ \A r \in Ran : AdriftKept(r)
      \/ faults' = faults + 1 /\ \E s : \A r \in Ran : r # s => AdriftKept(r)
  BY MarkAdrift, GetNodebAdrift, PutNodebAdrift, UnregisterAdrift DEF ContinueWorker, AdriftKept
<1>4. CASE \A r \in Ran : AdriftKept(r)
  <2>1. \A r \in Ran : Kept(r)  BY <1>2, <1>4 DEF Kept
  <2> QED  BY <1>1, <2>1, AllKept
<1>5. CASE faults' = faults + 1 /\ \E s : \A r \in Ran : r # s => AdriftKept(r)
  <2>1. PICK s : \A r \in Ran : r # s => AdriftKept(r)  BY <1>5
  <2>2. \A r \in Ran : r # s => Kept(r)  BY <1>2, <2>1 DEF Kept
  <2> QED  BY <1>1, <1>5, <2>2, OneLost
<1> QED  BY <1>3, <1>4, <1>5

LEMMA ContinueCharged ==
  ASSUME IInv, IInv', ids \subseteq Known, ApartInv, ChargedInv, NEW p \in Proc, Continue(p)
  PROVE  ChargedInv'
<1>1. overlap' = overlap /\ cut' = cut /\ faults <= faults'  BY ContinueActs DEF Acts
<1>2. \A r \in Ran : UnlistedKept(r) \/ (job[p].ran = r /\ faults' = faults + 1)
  BY ContinueUnlisted
<1>3. \A r \in Ran : AdriftKept(r) \/ (job[p].ran = r /\ faults' = faults + 1)
  BY ContinueAdrift
<1>4. CASE faults' = faults + 1
  <2>1. \A r \in Ran : r # job[p].ran => Kept(r)  BY <1>2, <1>3 DEF Kept
  <2> QED  BY <1>1, <1>4, <2>1, OneLost
<1>5. CASE faults' # faults + 1
  <2>1. \A r \in Ran : Kept(r)  BY <1>2, <1>3, <1>5 DEF Kept
  <2> QED  BY <1>1, <2>1, AllKept
<1> QED  BY <1>4, <1>5
-----------------------------------------------------------------------------
(* ... not by a request that arrives, and by a crash one for each goroutine *)

LEMMA TakesCharged ==
  ASSUME IInv, IInv', ChargedInv, NEW p \in Proc, NEW S, Takes(p, S),
         pc'[p] \notin {"getNodeb", "putNodeb"}
  PROVE  ChargedInv'
<1>1. /\ pc[p] = "idle" /\ Only(p) /\ UNCHANGED <<reg, nodebs, ids, faults, cut>>
      /\ (Apart' => Apart)
  BY ArrivesApart DEF Takes
<1>2. ASSUME NEW r, NEW pcs, "idle" \notin pcs  PROVE Joining(r, pcs) => Joining(r, pcs)'
  BY <1>1, <1>2, JoiningSame
<1>3. ASSUME NEW r \in Ran  PROVE r \in Charged' => r \in Charged
  <2>1. Unlisted(r)' => Unlisted(r)  BY <1>1, <1>2 DEF Unlisted
  <2>2. Adrift(r)' => Adrift(r)  BY <1>1, <1>2 DEF Adrift, HasStatus, Anchored
  <2>3. Doomed(r)' => Doomed(r)
    <3> SUFFICES ASSUME Doomed(r)'  PROVE Doomed(r)  OBVIOUS
    <3>1. Worker \in Proc /\ Worker # p  BY ConstantsOK DEF Doomed
    <3>2. UNCHANGED <<pc[Worker], job[Worker], todo[Worker]>>  BY <1>1, <3>1 DEF Only
    <3> QED  BY <1>1, <3>2 DEF Doomed, HasStatus, Anchored, Ahead
  <2> QED  BY <1>1, <2>1, <2>2, <2>3 DEF Charged, Known
<1>4. Charged' \subseteq Charged  BY <1>3 DEF Charged, Known
<1>5. faults + cut \in Nat  BY SpentType
<1> DEFINE n == faults + cut  C == Charged  D == Charged'
<1>6. n \in Nat /\ D \subseteq C /\ IsFiniteSet(C) /\ Cardinality(C) <= n
  BY <1>4, <1>5 DEF ChargedInv
<1> HIDE DEF n, C, D
<1>7. n <= n  BY <1>6
<1>8. IsFiniteSet(D) /\ Cardinality(D) <= n  BY <1>6, <1>7, SubsetCount
<1> QED  BY <1>1, <1>8 DEF n, D, ChargedInv

LEMMA InterruptedCount ==
  ASSUME IInv, Crash
  PROVE  LET I == {p \in Proc : pc[p] # "idle"}
             A == {job[p].ran : p \in I}
         IN  /\ IsFiniteSet(A) /\ Cardinality(A) <= Cardinality(I) /\ Cardinality(I) \in Nat \ {0}
             /\ UNCHANGED <<reg, dir, nodebs, ids, overlap, faults>>
             /\ faults' + cut' = (faults + cut) + Cardinality(I)
<1> DEFINE I == {p \in Proc : pc[p] # "idle"}
           A == {job[p].ran : p \in I}
           f == [p \in I |-> job[p].ran]
<1>1. IsFiniteSet(I)  BY FS_Subset, ConstantsOK
<1>2. f \in Surjection(I, A)  BY DEF Surjection
<1>3. cut' = cut + Cardinality(I) /\ I # {} /\ UNCHANGED <<reg, dir, nodebs, ids, overlap, faults>>
  BY DEF Crash, db
<1>4. faults \in Nat /\ cut \in Nat  BY SpentType
<1> HIDE DEF I, A, f
<1>5. IsFiniteSet(A) /\ Cardinality(A) <= Cardinality(I)  BY <1>1, <1>2, FS_Surjection
<1>6. Cardinality(I) \in Nat /\ Cardinality(I) # 0
  BY <1>1, <1>3, FS_CardinalityType, FS_EmptySet
<1>7. faults' + cut' = (faults + cut) + Cardinality(I)  BY <1>3, <1>4, <1>6
<1> QED  BY <1>3, <1>5, <1>6, <1>7 DEF A, I

LEMMA CrashCharged ==
  ASSUME IInv, ChargedInv, Crash
  PROVE  ChargedInv'
<1> DEFINE I == {p \in Proc : pc[p] # "idle"}
           A == {job[p].ran : p \in I}
<1>1. /\ IsFiniteSet(A) /\ Cardinality(A) <= Cardinality(I) /\ Cardinality(I) \in Nat
      /\ UNCHANGED <<reg, nodebs, ids, overlap>>
      /\ faults' + cut' = (faults + cut) + Cardinality(I)
  BY InterruptedCount
<1>2. Worker \in Proc /\ \A p \in Proc : pc'[p] = "idle"  BY ConstantsOK DEF Crash
<1>3. \A r, pcs : Joining(r, pcs) /\ "idle" \notin pcs => r \in A  BY DEF Joining
<1>4. ASSUME NEW r \in Charged'  PROVE r \in Charged \cup A
  <2> SUFFICES ASSUME r \notin A  PROVE r \in Charged  OBVIOUS
  <2>1. r \in Known  BY <1>1 DEF Charged, Known
  <2>2. ~Joining(r, {"addMember"}) /\ ~Joining(r, {"addMember", "associate", "addRan"})
    BY <1>3
  <2>3. ~Doomed(r)'  BY <1>2 DEF Doomed
  <2>4. Unlisted(r)' => Unlisted(r)  BY <1>1, <2>2 DEF Unlisted
  <2>5. Adrift(r)' => Adrift(r)  BY <1>1, <2>2 DEF Adrift, HasStatus, Anchored
  <2> QED  BY <1>1, <2>1, <2>3, <2>4, <2>5 DEF Charged, Apart
<1>5. faults + cut \in Nat  BY SpentType
<1> DEFINE n == faults + cut  m == Cardinality(I)  C == Charged  D == Charged'
<1>6. /\ n \in Nat /\ m \in Nat /\ D \subseteq C \cup A /\ IsFiniteSet(C) /\ Cardinality(C) <= n
      /\ IsFiniteSet(A) /\ Cardinality(A) <= m
  BY <1>1, <1>4, <1>5 DEF ChargedInv
<1>7. faults' + cut' = n + m  BY <1>1
<1> HIDE DEF n, m, C, D, A, I
<1>8. IsFiniteSet(D) /\ Cardinality(D) <= n + m  BY <1>6, MoreCount
<1> QED  BY <1>7, <1>8 DEF D, ChargedInv

LEMMA RestCharged == ASSUME ChargedInv, UNCHANGED vars PROVE ChargedInv'
<1>1. \A r : /\ Unlisted(r)' <=> Unlisted(r)
             /\ Adrift(r)' <=> Adrift(r)
             /\ Doomed(r)' <=> Doomed(r)
             /\ r \in Known' <=> r \in Known
             /\ Apart' <=> Apart
  BY DEF vars, Unlisted, Adrift, Doomed, Known, Apart, HasStatus, Anchored, Joining, Ahead
<1>2. Charged' = Charged  BY <1>1 DEF Charged, Known
<1>3. faults' = faults /\ cut' = cut  BY DEF vars
<1> QED  BY <1>2, <1>3 DEF ChargedInv

LEMMA ChargedNext ==
  ASSUME IInv, IInv', ids \subseteq Known, ApartInv, ChargedInv, [Next]_vars
  PROVE  ChargedInv'
<1>1. ASSUME NEW p \in Proc, Arrive(p)  PROVE ChargedInv'
  BY <1>1, ArriveTakes, TakesCharged DEF WorkerPcs
<1>2. ASSUME NEW S \in SUBSET E2T, Expire(S)  PROVE ChargedInv'
  BY <1>2, ExpireTakes, TakesCharged DEF Becomes
<1> QED
  BY <1>1, <1>2, ContinueCharged, WorkerCharged, CrashCharged, RestCharged DEF Next, Rest
-----------------------------------------------------------------------------
(* One request at a time: the E2Ts *)

RedPcs == {"listRans", "redGet", "redPut"}

LEMMA Lone ==
  ASSUME AloneInv, overlap = "none", NEW p \in Proc, pc[p] # "idle"
  PROVE  TiedAlone(pc[p], job[p]) /\ \A q \in Proc : q # p => pc[q] = "idle"
BY DEF AloneInv

LEMMA LoneAfter ==
  ASSUME AloneInv, overlap = "none", NEW p \in Proc, Acts(p)
  PROVE  \A q \in Proc : q # p => pc'[q] = "idle"
BY Lone DEF Acts, Only

LEMMA ArrivesNone ==
  ASSUME IInv, NEW k, NEW S, Arrives(k, S), overlap' = "none"
  PROVE  overlap = "none" /\ \A q \in Proc : pc[q] = "idle"
<1> DEFINE Behind == \E q \in Conflicts(S) : {k, job[q].kind} \cap WritesBack # {}
           Beside == \E q \in Proc : pc[q] # "idle"
<1>1. overlap' = IF overlap = "any" \/ Behind THEN "any"
                 ELSE IF overlap = "fresh" \/ Conflicts(S) # {} THEN "fresh"
                 ELSE IF Beside THEN "distinct" ELSE overlap
  BY DEF Arrives
<1> HIDE DEF Behind, Beside
<1>2. ~Beside /\ overlap = "none"  BY <1>1
<1> QED  BY <1>2 DEF Beside

LEMMA IdleAlone == ASSUME NEW j PROVE TiedAlone("idle", j) /\ TiedAlone("idle", j)'
BY DEF TiedAlone, WorkerPcs

LEMMA AloneStep ==
  ASSUME IInv, AloneInv, NEW p \in Proc, Acts(p),
         overlap = "none" => TiedAlone(pc[p], job[p])'
  PROVE  AloneInv'
<1> SUFFICES ASSUME overlap' = "none", NEW q \in Proc
             PROVE  /\ TiedAlone(pc[q], job[q])'
                    /\ \A s \in Proc : pc'[q] # "idle" /\ pc'[s] # "idle" => q = s
  BY DEF AloneInv
<1>1. overlap = "none"  BY DEF Acts
<1>2. \A s \in Proc : s # p => pc'[s] = "idle"  BY <1>1, LoneAfter
<1>3. CASE q = p  BY <1>1, <1>2, <1>3
<1>4. CASE q # p  BY <1>2, <1>4 DEF TiedAlone, WorkerPcs
<1> QED  BY <1>3, <1>4

LEMMA AloneTakes ==
  ASSUME IInv, NEW p \in Proc, NEW S, Takes(p, S), TiedAlone(pc[p], job[p])'
  PROVE  AloneInv'
<1> SUFFICES ASSUME overlap' = "none", NEW q \in Proc
             PROVE  /\ TiedAlone(pc[q], job[q])'
                    /\ \A s \in Proc : pc'[q] # "idle" /\ pc'[s] # "idle" => q = s
  BY DEF AloneInv
<1>1. \A s \in Proc : s # p => pc'[s] = "idle"  BY ArrivesNone DEF Takes, Only
<1>2. CASE q = p  BY <1>1, <1>2
<1>3. CASE q # p  BY <1>1, <1>3 DEF TiedAlone, WorkerPcs
<1> QED  BY <1>2, <1>3

\* a request keeps its kind, but for the second pass of the red button
LEMMA KindKept ==
  ASSUME IInv, NEW p \in Proc, Continue(p), ~ClearRans(p)
  PROVE  Ends(p) \/ job'[p].kind = job[p].kind
<1>1. ASSUME Stays(p)  PROVE job'[p].kind = job[p].kind  BY <1>1 DEF Stays, Becomes
<1>2. ASSUME NEW l, Goto(p, l)  PROVE job'[p].kind = job[p].kind  BY <1>2, GotoOnly DEF Becomes
<1>3. ASSUME NEW r \in Ran, pc[p] \in {"fetch", "down", "removeRan"}, todo[p][r] > 0, NextRan(p, r)
      PROVE  Ends(p) \/ job'[p].kind = job[p].kind
  BY <1>3, NextRanOnly DEF Becomes, Request, NoJob
<1>4. ASSUME NEW l, NEW n, NEW t, Step(p, l, job[p], n, t)  PROVE job'[p].kind = job[p].kind
  BY <1>4, StepOnly DEF Becomes
<1>5. CASE LookupRan(p) \/ SaveNew(p) \/ AddMember(p) \/ Associate(p) \/ AddRan(p)
  BY <1>5, SetupActs
<1>6. CASE Fetch(p)
  <2>1. ASSUME NEW r \in Ran, NEW a,
               Step(p, "down", Request(job[p].kind, a, r), nodebs[r], todo[p])
        PROVE  job'[p].kind = job[p].kind
    <3>1. Becomes(p, "down", Request(job[p].kind, a, r), nodebs[r], todo[p])
      BY <2>1, StepOnly
    <3> QED  BY <3>1 DEF Becomes, Request, NoJob
  <2> QED  BY <1>3, <1>6, <2>1, EndOnly DEF Fetch
<1>7. CASE Down(p) \/ RemoveRan(p)
  <2>1. job[p].ran \in Ran /\ todo[p][job[p].ran] > 0
    BY <1>7, HoldsNow DEF Down, RemoveRan, Holds
  <2> QED  BY <1>1, <1>2, <1>3, <1>7, <2>1, EndOnly, FailsOnly DEF Down, RemoveRan
<1>8. CASE Dissociate(p) \/ ClearAssoc(p) \/ Register(p) \/ List(p) \/ ListRans(p)
  BY <1>1, <1>2, <1>4, <1>8, EndOnly, FailsOnly
  DEF Dissociate, ClearAssoc, Register, List, ListRans
<1>9. CASE RedGet(p)
  <2>1. job[p] \in Job  BY HoldsNow DEF Holds
  <2>2. ASSUME NEW r \in Ran,
               Step(p, "redPut", [job[p] EXCEPT !.ran = r], nodebs[r], Handled(p, r))
        PROVE  job'[p].kind = job[p].kind
    <3>1. Becomes(p, "redPut", [job[p] EXCEPT !.ran = r], nodebs[r], Handled(p, r))
      BY <2>2, StepOnly
    <3> QED  BY <2>1, <3>1 DEF Becomes, Job
  <2> QED  BY <1>4, <1>9, <2>2, EndOnly DEF RedGet
<1>10. CASE RedPut(p)
  <2>1. job[p] \in Job  BY HoldsNow DEF Holds
  <2>2. ASSUME Step(p, "redGet", Counted(job[p]), NoNodeb, todo[p])
        PROVE  job'[p].kind = job[p].kind
    <3>1. Becomes(p, "redGet", Counted(job[p]), NoNodeb, todo[p])  BY <2>2, StepOnly
    <3> QED  BY <2>1, <3>1 DEF Becomes, Counted, Job
  <2> QED  BY <1>1, <1>10, <2>2, FailsOnly DEF RedPut
<1>11. CASE PassDone(p) \/ WriteBack(p)
  BY <1>1, <1>2, <1>11, EndOnly, FailsOnly DEF PassDone, WriteBack
<1> QED
  BY <1>5, <1>6, <1>7, <1>8, <1>9, <1>10, <1>11 DEF Continue

LEMMA RedBefore ==
  ASSUME IInv, IInv', NEW p \in Proc, Continue(p), ~ClearRans(p), pc'[p] \in RedPcs
  PROVE  pc[p] \in RedPcs /\ job'[p].kind = job[p].kind /\ UNCHANGED <<reg, dir>>
<1>1. Holds(pc'[p], job'[p], nb'[p], todo'[p], Known')  BY DEF IInv, ThreadInv
<1>2. job'[p].kind = job[p].kind  BY KindKept DEF Ends, RedPcs
<1>3. job[p].kind \in {"ForceShutDown", "ShuttingDown", "ShutDown"}
  BY <1>1, <1>2 DEF Holds, RedPcs
<1>4. /\ Holds(pc[p], job[p], nb[p], todo[p], Known)  BY HoldsNow
<1>5. pc[p] \in {"listRans", "redGet", "redPut", "clearRans"}
  BY <1>3, <1>4 DEF Holds, Continue, LookupRan, SaveNew, AddMember, Associate, AddRan, Fetch, Down,
     Dissociate, ClearAssoc, RemoveRan, Register, List, ListRans, RedGet, RedPut, PassDone,
     ClearRans, WriteBack
<1>6. ListRans(p) \/ RedGet(p) \/ RedPut(p) \/ PassDone(p)
  BY <1>5 DEF Continue, LookupRan, SaveNew, AddMember, Associate, AddRan, Fetch, Down,
     Dissociate, ClearAssoc, RemoveRan, Register, List, WriteBack
<1> QED  BY <1>2, <1>6 DEF ListRans, RedGet, RedPut, PassDone, db, RedPcs

LEMMA ClearRansPc ==
  ASSUME IInv, NEW p \in Proc, ClearRans(p)
  PROVE  /\ pc[p] = "clearRans" /\ dir' = dir /\ pc'[p] \in {"idle", "listRans"}
         /\ pc'[p] = "listRans" => job'[p].kind = "ShutDown"
<1>1. CASE End(p)  BY <1>1, EndOnly DEF Ends, ClearRans
<1>2. CASE Step(p, "listRans", Request("ShutDown", NoE2T, NoRan), NoNodeb, NoRans)
  <2>1. Becomes(p, "listRans", Request("ShutDown", NoE2T, NoRan), NoNodeb, NoRans)
    BY <1>2, StepOnly
  <2> QED  BY <2>1 DEF Becomes, Request, NoJob, ClearRans
<1> QED  BY <1>1, <1>2 DEF ClearRans

LEMMA ContinueAlone ==
  ASSUME IInv, IInv', AloneInv, overlap = "none", NEW p \in Proc, Continue(p)
  PROVE  TiedAlone(pc[p], job[p])'
<1>1. pc[p] # "idle" /\ pc'[p] \notin WorkerPcs  BY ContinueActs, ContinuePc DEF Acts
<1>2. CASE ClearRans(p)  BY <1>1, <1>2, ClearRansPc DEF TiedAlone, WorkerPcs
<1>3. CASE ~ClearRans(p) /\ pc'[p] \in RedPcs
  <2>1. pc[p] \in RedPcs /\ job'[p].kind = job[p].kind /\ dir' = dir  BY <1>3, RedBefore
  <2>2. TiedAlone(pc[p], job[p])  BY <1>1, Lone
  <2> QED
    BY <1>1, <2>1, <2>2
    DEF TiedAlone, RedPcs, WorkerPcs, Registry!Directory, Registry!NoneListed
<1>4. CASE ~ClearRans(p) /\ pc'[p] \notin RedPcs
  BY <1>1, <1>4 DEF TiedAlone, RedPcs, WorkerPcs
<1> QED  BY <1>2, <1>3, <1>4

LEMMA CopiesShrink ==
  ASSUME IInv, ContinueWorker, NEW b \in E2T, copies'[b] # NoInst
  PROVE  copies'[b] = copies[b]
<1>0. Holds(pc[Worker], job[Worker], nb[Worker], todo[Worker], Known)  BY WorkerHolds
<1>1. ASSUME NEW a \in E2T, NextE2T(a)  PROVE copies'[b] = copies[b]
  BY <1>1, NextE2TOnly DEF IInv, CopyInv
<1>2. CASE Mark  BY <1>1, <1>2 DEF Mark
<1>3. CASE ~Mark
  <2>1. job[Worker].addr \in E2T
    BY <1>0, <1>3 DEF Holds, ContinueWorker, GetNodeb, PutNodeb, Unregister, Unlist
  <2> QED
    BY <1>1, <1>3, <2>1 DEF ContinueWorker, GetNodeb, PutNodeb, Unregister, Unlist
<1> QED  BY <1>2, <1>3

LEMMA UnlistDirectory ==
  ASSUME IInv, NEW a \in E2T, Registry!List(a) \/ Registry!Unlist(a)
  PROVE  /\ \A b \in E2T : b # a => Registry!Directory'[b] = Registry!Directory[b]
         /\ Registry!List(a) => Registry!Directory'[a] > 0
<1>1. Registry!Directory \in [E2T -> Nat]
  BY DEF IInv, RegInv, Registry!Directory, Registry!NoneListed
<1>2. dir' \in [E2T -> Nat]  BY <1>1 DEF Registry!List, Registry!Unlist
<1>3. Registry!Directory' = dir'  BY <1>2, ConstantsOK DEF Registry!Directory
<1> QED  BY <1>1, <1>3 DEF Registry!List, Registry!Unlist

LEMMA WorkerAlone ==
  ASSUME IInv, IInv', AloneInv, overlap = "none", ContinueWorker
  PROVE  TiedAlone(pc[Worker], job[Worker])'
<1>1. /\ Worker \in Proc /\ pc[Worker] # "idle" /\ pc[Worker] \in WorkerPcs
      /\ pc'[Worker] \in WorkerPcs \cup {"idle"}
  BY WorkerActs
  DEF Acts, Ends, ContinueWorker, Mark, GetNodeb, PutNodeb, Unregister, Unlist, WorkerPcs
<1>2. \A a \in E2T : copies[a] # NoInst => Registry!Directory[a] > 0
  BY <1>1, Lone DEF TiedAlone
<1>3. \A a \in E2T : copies'[a] # NoInst => Registry!Directory'[a] > 0
  <2>1. CASE dir' = dir
    BY <1>2, <2>1, CopiesShrink DEF Registry!Directory, Registry!NoneListed
  <2>2. CASE Unlist /\ Registry!Unlist(job[Worker].addr)
    <3>1. job[Worker].addr \in E2T /\ NextE2T(job[Worker].addr)
      BY <2>2, WorkerHolds DEF Unlist, Holds
    <3>2. copies'[job[Worker].addr] = NoInst  BY <3>1, NextE2TOnly DEF IInv, CopyInv
    <3> QED  BY <1>2, <2>2, <3>1, <3>2, CopiesShrink, UnlistDirectory
  <2> QED
    BY <2>1, <2>2
    DEF ContinueWorker, Mark, GetNodeb, PutNodeb, Unregister, Unlist, db, Registry!Unregister
<1>4. pc'[Worker] = "unlist" => reg'[job'[Worker].addr] = NoInst
  <2> SUFFICES ASSUME pc'[Worker] = "unlist"  PROVE reg'[job'[Worker].addr] = NoInst  OBVIOUS
  <2>1. ASSUME NEW a \in E2T, NextE2T(a)  PROVE FALSE
    BY <2>1, NextE2TOnly DEF Ends, Becomes
  <2>2. ASSUME NEW l, NEW j, NEW n, NEW t, Step(Worker, l, j, n, t)  PROVE l = "unlist"
    BY <1>1, <2>2, StepOnly DEF Becomes
  <2>3. ~Mark  BY <2>1, <2>2 DEF Mark
  <2>4. job[Worker].addr \in E2T
    BY <2>3, WorkerHolds DEF Holds, ContinueWorker, GetNodeb, PutNodeb, Unregister, Unlist
  <2>5. ~GetNodeb  BY <2>1, <2>2, <2>4 DEF GetNodeb
  <2>6. ~PutNodeb  BY <2>1, <2>2, <2>4 DEF PutNodeb, threads
  <2>7. Registry!Unregister(job[Worker].addr) /\ Goto(Worker, "unlist")
    BY <2>1, <2>3, <2>4, <2>5, <2>6 DEF ContinueWorker, Unregister, Unlist
  <2>8. job'[Worker] = job[Worker]  BY <1>1, <2>7, GotoOnly DEF Becomes
  <2> QED  BY <2>4, <2>7, <2>8, UnregisterLists
<1> QED  BY <1>1, <1>3, <1>4 DEF TiedAlone, WorkerPcs

LEMMA ArriveRed ==
  ASSUME IInv, NEW p \in Proc, Arrive(p)
  PROVE  /\ pc'[p] \notin {"redGet", "redPut"} \cup WorkerPcs
         /\ pc'[p] = "listRans" => /\ job'[p].kind # "ShutDown"
                                   /\ job'[p].kind = "ForceShutDown"
                                        => Registry!Directory = Registry!NoneListed
<1>1. ASSUME NEW k, NEW l \in {"lookup", "fetch", "register", "writeBack"}, NEW j, NEW n, NEW t,
             Start(p, k, l, j, n, t)
      PROVE  pc'[p] \notin {"listRans", "redGet", "redPut"}
  BY <1>1, StartTakes DEF Becomes
<1>2. CASE RedButton(p)
  <2>1. PICK k : /\ k \in {"ForceShutDown", "ShuttingDown"}
                 /\ k = "ForceShutDown" => Registry!Directory = Registry!NoneListed
                 /\ Start(p, "RedButton", "listRans", Request(k, NoE2T, NoRan), NoNodeb, NoRans)
    BY <1>2 DEF RedButton
  <2>2. Becomes(p, "listRans", Request(k, NoE2T, NoRan), NoNodeb, NoRans)
    BY <2>1, StartTakes
  <2>3. pc'[p] = "listRans" /\ job'[p].kind = k  BY <2>2 DEF Becomes, Request, NoJob
  <2> QED  BY <2>1, <2>3 DEF WorkerPcs
<1>3. CASE ~RedButton(p)
  <2>1. pc'[p] \notin {"listRans", "redGet", "redPut"}
    BY <1>1, <1>3 DEF Arrive, TermInit, NewE2T, Setup, Lost, UpdateGnb
  <2> QED  BY <2>1, ArriveTakes
<1> QED  BY <1>2, <1>3

LEMMA AloneNext ==
  ASSUME IInv, IInv', AloneInv, [Next]_vars
  PROVE  AloneInv'
<1>1. ASSUME NEW p \in Proc, Continue(p)  PROVE AloneInv'
  BY <1>1, ContinueActs, ContinueAlone, AloneStep
<1>2. ASSUME ContinueWorker  PROVE AloneInv'
  BY <1>2, WorkerActs, WorkerAlone, AloneStep
<1>3. ASSUME NEW p \in Proc, Arrive(p)  PROVE AloneInv'
  <2>1. PICK S : Takes(p, S)  BY <1>3, ArriveTakes
  <2>2. dir' = dir  BY <2>1 DEF Takes
  <2>3. TiedAlone(pc[p], job[p])'
    BY <1>3, <2>2, ArriveRed
    DEF TiedAlone, WorkerPcs, Registry!Directory, Registry!NoneListed
  <2> QED  BY <2>1, <2>3, AloneTakes
<1>4. ASSUME NEW S \in SUBSET E2T, Expire(S)  PROVE AloneInv'
  <2>1. /\ Worker \in Proc /\ Takes(Worker, Ran) /\ pc'[Worker] = "mark" /\ dir' = dir
        /\ \A a \in E2T : copies'[a] # NoInst => Registry!Directory[a] > 0
    BY <1>4, ExpireTakes DEF Becomes, Takes
  <2>2. TiedAlone(pc[Worker], job[Worker])'
    BY <2>1 DEF TiedAlone, WorkerPcs, Registry!Directory, Registry!NoneListed
  <2> QED  BY <2>1, <2>2, AloneTakes
<1>5. CASE Crash
  <2>1. \A p \in Proc : pc'[p] = "idle"  BY <1>5 DEF Crash
  <2> QED  BY <2>1 DEF AloneInv, TiedAlone, WorkerPcs
<1>6. CASE UNCHANGED vars
  BY <1>6 DEF vars, AloneInv, TiedAlone, Registry!Directory, Registry!NoneListed
<1> QED  BY <1>1, <1>2, <1>3, <1>4, <1>5, <1>6 DEF Next, Rest
-----------------------------------------------------------------------------
(* An E2T is left out of the red button's reach, or uncleared, only by a failure *)

\* what Stray says of a when l and j are where the only goroutine is
StrayAt(l, j, a) ==
  /\ reg[a] # NoInst
  /\ \/ Registry!Directory[a] = 0 /\ ~(l = "list" /\ j.addr = a)
     \/ reg[a].rans # NoRans /\ l \in RedPcs /\ j.kind = "ShutDown"

LEMMA StrayNow ==
  ASSUME NEW p \in Proc, \A q \in Proc : q # p => pc[q] = "idle", overlap = "none", NEW a \in E2T
  PROVE  a \in Stray <=> StrayAt(pc[p], job[p], a)
BY DEF Stray, StrayAt, RedPcs

LEMMA StrayThen ==
  ASSUME NEW p \in Proc, \A q \in Proc : q # p => pc'[q] = "idle", overlap' = "none",
         NEW a \in E2T
  PROVE  a \in Stray' <=> StrayAt(pc[p], job[p], a)'
BY DEF Stray, StrayAt, RedPcs

LEMMA StrayFinite ==
  ASSUME NEW S \in SUBSET E2T PROVE IsFiniteSet(S) /\ Cardinality(S) \in Nat
BY ConstantsOK, FS_Subset, FS_CardinalityType

LEMMA StrayMore ==
  ASSUME IInv, StrayInv, NEW A \in SUBSET E2T, Stray' \subseteq Stray \cup A,
         NEW m \in Nat, Cardinality(A) <= m, faults' + cut' = (faults + cut) + m
  PROVE  StrayInv'
<1> DEFINE n == faults + cut  S == Stray  T == Stray'
<1>1. n \in Nat  BY SpentType
<1>2. IsFiniteSet(S) /\ Cardinality(S) <= n /\ T \subseteq S \cup A /\ IsFiniteSet(A)
  BY StrayFinite DEF StrayInv
<1>3. faults' + cut' = n + m  OBVIOUS
<1> HIDE DEF n, S, T
<1>4. IsFiniteSet(T) /\ Cardinality(T) <= n + m  BY <1>1, <1>2, MoreCount
<1> QED  BY <1>3, <1>4 DEF T, StrayInv

LEMMA StrayLess ==
  ASSUME IInv, IInv', StrayInv, Stray' \subseteq Stray, faults <= faults', cut' = cut
  PROVE  StrayInv'
<1>a. faults \in Nat /\ cut \in Nat  BY SpentType
<1>b. CountInv'  BY DEF IInv
<1>c. MaxFaults \in Nat  BY ConstantsOK
<1>d. faults' \in Nat  BY <1>b, <1>c DEF CountInv
<1>1. faults + cut \in Nat /\ faults' + cut' \in Nat /\ faults + cut <= faults' + cut'
  BY <1>a, <1>d, SumGrows
<1> DEFINE n == faults + cut  m == faults' + cut'  S == Stray  T == Stray'
<1>2. n \in Nat /\ m \in Nat /\ n <= m /\ T \subseteq S /\ IsFiniteSet(S) /\ Cardinality(S) <= n
  BY <1>1 DEF StrayInv
<1> HIDE DEF n, m, S, T
<1>3. IsFiniteSet(T) /\ Cardinality(T) <= m  BY <1>2, SubsetCount
<1> QED  BY <1>3 DEF T, m, StrayInv

LEMMA StrayOne ==
  ASSUME IInv, StrayInv, NEW a \in E2T, Stray' \subseteq Stray \cup {a},
         faults' = faults + 1, cut' = cut
  PROVE  StrayInv'
<1>0. Cardinality({a}) = 1  BY FS_Singleton
<1>1. Cardinality({a}) <= 1 /\ {a} \in SUBSET E2T /\ 1 \in Nat  BY <1>0
<1>2. faults \in Nat /\ cut \in Nat  BY SpentType
<1>3. faults' + cut' = (faults + cut) + 1  BY <1>2
<1> QED  BY <1>1, <1>3, StrayMore

\* a step that removes or keeps the record of a and its place in the list
LEMMA StrayKept ==
  ASSUME NEW p \in Proc, NEW a \in E2T, reg'[a] # NoInst => reg[a] # NoInst,
         Registry!Directory'[a] = Registry!Directory[a],
         pc[p] = "list" => job[p].addr # a,
         pc'[p] \in RedPcs => /\ pc[p] \in RedPcs /\ job'[p].kind = job[p].kind
                              /\ reg'[a] = reg[a]
  PROVE  StrayAt(pc[p], job[p], a)' => StrayAt(pc[p], job[p], a)
<1> SUFFICES ASSUME StrayAt(pc[p], job[p], a)'  PROVE StrayAt(pc[p], job[p], a)  OBVIOUS
<1>1. /\ reg'[a] # NoInst
      /\ \/ Registry!Directory'[a] = 0
         \/ reg'[a].rans # NoRans /\ pc'[p] \in RedPcs /\ job'[p].kind = "ShutDown"
  BY DEF StrayAt
<1> QED  BY <1>1 DEF StrayAt

LEMMA SameDirectory == ASSUME dir' = dir PROVE Registry!Directory' = Registry!Directory
BY DEF Registry!Directory, Registry!NoneListed

LEMMA SetupStray ==
  ASSUME IInv, IInv', NEW p \in Proc, Continue(p), ~Register(p), ~List(p), ~ClearRans(p), NEW a \in E2T
  PROVE  StrayAt(pc[p], job[p], a)' => StrayAt(pc[p], job[p], a)
<1>1. dir' = dir /\ pc[p] # "list"
  BY DEF Continue, LookupRan, SaveNew, AddMember, Associate, AddRan, Fetch, Down, Dissociate,
     ClearAssoc, RemoveRan, ListRans, RedGet, RedPut, PassDone, WriteBack, db,
     Registry!AddRan, Registry!RemoveRan
<1>2. reg'[a] # NoInst => reg[a] # NoInst
  <2>1. CASE AddRan(p)
    <3>1. job[p].addr \in E2T /\ job[p].ran \in Ran  BY <2>1, HoldsNow DEF AddRan, Holds
    <3> QED  BY <2>1, <3>1, AddRanOnly DEF AddRan
  <2>2. CASE RemoveRan(p)
    <3>1. job[p].addr \in E2T \cup {NoE2T} /\ job[p].ran \in Ran
      BY <2>2, HoldsNow DEF RemoveRan, Holds, Job
    <3> QED  BY <2>2, <3>1, RemoveRanOnly DEF RemoveRan
  <2>3. CASE ~AddRan(p) /\ ~RemoveRan(p)
    BY <2>3 DEF Continue, LookupRan, SaveNew, AddMember, Associate, Fetch, Down, Dissociate,
       ClearAssoc, ListRans, RedGet, RedPut, PassDone, WriteBack, db
  <2> QED  BY <2>1, <2>2, <2>3
<1> QED  BY <1>1, <1>2, SameDirectory, RedBefore, StrayKept

\* registration: the record is in the list one step later, unless that step fails
LEMMA RegisterStray ==
  ASSUME IInv, IInv', NEW p \in Proc, Register(p) \/ List(p)
  PROVE  /\ job[p].addr \in E2T
         /\ \A a \in E2T : a # job[p].addr => (StrayAt(pc[p], job[p], a)' => StrayAt(pc[p], job[p], a))
         /\ faults' # faults + 1 =>
              \A a \in E2T : StrayAt(pc[p], job[p], a)' => StrayAt(pc[p], job[p], a)
<1>1. job[p].addr \in E2T  BY HoldsNow DEF Register, List, Holds
<1>2. pc'[p] \notin RedPcs
  BY GotoOnly, EndOnly DEF Register, List, Becomes, Ends, RedPcs
<1>3. ASSUME NEW a \in E2T, a # job[p].addr
      PROVE  reg'[a] = reg[a] /\ Registry!Directory'[a] = Registry!Directory[a]
  <2>1. CASE Registry!Register(job[p].addr)
    BY <1>1, <1>3, <2>1, RegisterLists, SameDirectory DEF Registry!Register
  <2>2. CASE Registry!List(job[p].addr)
    BY <1>1, <1>3, <2>2, UnlistDirectory DEF Registry!List
  <2>3. CASE UNCHANGED <<reg, dir>>  BY <2>3, SameDirectory
  <2> QED  BY <2>1, <2>2, <2>3 DEF Register, List
<1>4. ASSUME NEW a \in E2T, a # job[p].addr
      PROVE  StrayAt(pc[p], job[p], a)' => StrayAt(pc[p], job[p], a)
  BY <1>2, <1>3, <1>4, StrayKept
<1>5. ASSUME faults' # faults + 1, NEW a \in E2T, a = job[p].addr
      PROVE  ~StrayAt(pc[p], job[p], a)'
  <2>1. CASE Register(p)
    <3>1. Goto(p, "list")  BY <1>5, <2>1 DEF Register, Fault
    <3>2. pc'[p] = "list" /\ job'[p] = job[p]  BY <3>1, GotoOnly DEF Becomes
    <3> QED  BY <1>2, <1>5, <3>2 DEF StrayAt
  <2>2. CASE List(p)
    <3>1. Registry!List(a)  BY <1>5, <2>2 DEF List, Fault
    <3>2. Registry!Directory'[a] > 0  BY <3>1, UnlistDirectory
    <3> QED  BY <1>2, <3>2 DEF StrayAt
  <2> QED  BY <2>1, <2>2
<1> QED  BY <1>1, <1>4, <1>5

LEMMA ClearedLists ==
  ASSUME IInv, NEW S \in SUBSET E2T, \A b \in S : reg[b] # NoInst, reg' = Cleared(S), NEW a \in E2T
  PROVE  /\ reg'[a] # NoInst <=> reg[a] # NoInst
         /\ a \in S => reg'[a].rans = NoRans
<1>1. CASE a \in S
  <2>1. reg[a] \in Instance  BY <1>1 DEF IInv, RegInv
  <2> DEFINE new == [reg[a] EXCEPT !.rans = NoRans]
  <2>2. new \in Instance /\ new.rans = NoRans  BY <2>1 DEF Instance, RanBag, NoRans
  <2>3. reg'[a] = new  BY <1>1 DEF Cleared
  <2> HIDE DEF new
  <2>4. new # NoInst  BY <2>2, ConstantsOK
  <2> QED  BY <1>1, <2>2, <2>3, <2>4
<1>2. CASE a \notin S  BY <1>2 DEF Cleared
<1> QED  BY <1>1, <1>2

LEMMA ClearRansStray ==
  ASSUME IInv, IInv', AloneInv, StrayInv, overlap = "none", NEW p \in Proc, ClearRans(p)
  PROVE  StrayInv'
<1> DEFINE known == {a \in E2T : Registry!Directory[a] > 0 /\ reg[a] # NoInst}
<1>1. /\ pc[p] = "clearRans" /\ dir' = dir /\ overlap' = "none" /\ cut' = cut
      /\ faults <= faults' /\ Acts(p)
  BY FullActs DEF ClearRans, Acts
<1>2. /\ \A q \in Proc : q # p => pc[q] = "idle"
      /\ \A q \in Proc : q # p => pc'[q] = "idle"
  BY <1>1, Lone, LoneAfter
<1>3. Registry!Directory' = Registry!Directory /\ Registry!Directory \in [E2T -> Nat]
  BY <1>1, SameDirectory DEF IInv, RegInv, Registry!Directory, Registry!NoneListed
<1>4. CASE /\ Fault /\ End(p) /\ reg' \in {reg, Cleared(known)}
  <2>1. pc'[p] = "idle"  BY <1>4, EndOnly DEF Ends
  <2>2. ASSUME NEW a \in E2T  PROVE StrayAt(pc[p], job[p], a)' => StrayAt(pc[p], job[p], a)
    <3>1. reg'[a] # NoInst => reg[a] # NoInst
      <4>1. known \in SUBSET E2T /\ \A b \in known : reg[b] # NoInst  OBVIOUS
      <4> HIDE DEF known
      <4> QED  BY <1>4, <4>1, ClearedLists
    <3> QED  BY <1>1, <1>3, <2>1, <3>1, StrayKept DEF RedPcs
  <2>3. Stray' \subseteq Stray  BY <1>1, <1>2, <2>2, StrayNow, StrayThen DEF Stray
  <2> QED  BY <1>1, <2>3, StrayLess
<1>5. ASSUME NEW unsaved \in SUBSET known, reg' = Cleared(known \ unsaved),
             faults' = faults + Cardinality(unsaved)
      PROVE  StrayInv'
  <2>1. unsaved \in SUBSET E2T  OBVIOUS
  <2>2. \A a \in E2T : /\ reg'[a] # NoInst => reg[a] # NoInst
                       /\ a \in known \ unsaved => reg'[a].rans = NoRans
    <3> DEFINE S == known \ unsaved
    <3>1. S \in SUBSET E2T /\ (\A b \in S : reg[b] # NoInst) /\ reg' = Cleared(S)  BY <1>5
    <3> HIDE DEF S
    <3>2. \A a \in E2T : /\ reg'[a] # NoInst => reg[a] # NoInst
                         /\ a \in S => reg'[a].rans = NoRans
      BY <3>1, ClearedLists
    <3> QED  BY <3>2 DEF S
  <2>3. ASSUME NEW a \in E2T, StrayAt(pc[p], job[p], a)', a \notin unsaved
        PROVE  StrayAt(pc[p], job[p], a)
    <3>1. reg[a] # NoInst /\ (Registry!Directory[a] = 0 \/ reg'[a].rans # NoRans)
      BY <1>3, <2>2, <2>3 DEF StrayAt
    <3>2. Registry!Directory[a] = 0
      <4>1. Registry!Directory[a] \in Nat  BY <1>3
      <4>2. a \in known => a \in known \ unsaved  BY <2>3
      <4> HIDE DEF known
      <4>3. a \notin known \/ Registry!Directory[a] = 0  BY <2>2, <3>1, <4>2
      <4> QED  BY <3>1, <4>1, <4>3 DEF known
    <3> QED  BY <1>1, <3>1, <3>2 DEF StrayAt
  <2>4. Stray' \subseteq Stray \cup unsaved
    BY <1>1, <1>2, <2>3, StrayNow, StrayThen DEF Stray
  <2> HIDE DEF known
  <2>5. Cardinality(unsaved) \in Nat /\ Cardinality(unsaved) <= Cardinality(unsaved)
    BY <2>1, StrayFinite
  <2>6. faults \in Nat /\ cut \in Nat  BY SpentType
  <2>7. faults' + cut' = (faults + cut) + Cardinality(unsaved)  BY <1>1, <1>5, <2>5, <2>6
  <2> QED  BY <2>1, <2>4, <2>5, <2>7, StrayMore
<1> QED  BY <1>4, <1>5 DEF ClearRans

LEMMA ContinueStray ==
  ASSUME IInv, IInv', AloneInv, StrayInv, overlap = "none", NEW p \in Proc, Continue(p)
  PROVE  StrayInv'
<1>1. Acts(p) /\ overlap' = "none" /\ cut' = cut /\ faults <= faults' /\ pc[p] # "idle"
  BY ContinueActs DEF Acts
<1>2. /\ \A q \in Proc : q # p => pc[q] = "idle"
      /\ \A q \in Proc : q # p => pc'[q] = "idle"
  BY <1>1, Lone, LoneAfter
<1>3. ASSUME \A a \in E2T : StrayAt(pc[p], job[p], a)' => StrayAt(pc[p], job[p], a)
      PROVE  StrayInv'
  <2>1. Stray' \subseteq Stray  BY <1>1, <1>2, <1>3, StrayNow, StrayThen DEF Stray
  <2> QED  BY <1>1, <2>1, StrayLess
<1>4. CASE Register(p) \/ List(p)
  <2>1. CASE faults' # faults + 1  BY <1>3, <1>4, <2>1, RegisterStray
  <2>2. CASE faults' = faults + 1
    <3>1. PICK b \in E2T : b = job[p].addr  BY <1>4, RegisterStray
    <3>2. \A a \in E2T : a # b => (StrayAt(pc[p], job[p], a)' => StrayAt(pc[p], job[p], a))
      BY <1>4, <3>1, RegisterStray
    <3>3. Stray' \subseteq Stray \cup {b}
      BY <1>1, <1>2, <3>2, StrayNow, StrayThen DEF Stray
    <3> QED  BY <1>1, <2>2, <3>3, StrayOne
  <2> QED  BY <2>1, <2>2
<1>5. CASE ClearRans(p)  BY <1>5, ClearRansStray
<1>6. CASE ~Register(p) /\ ~List(p) /\ ~ClearRans(p)  BY <1>3, <1>6, SetupStray
<1> QED  BY <1>4, <1>5, <1>6

LEMMA WorkerStray ==
  ASSUME IInv, IInv', AloneInv, StrayInv, overlap = "none", ContinueWorker
  PROVE  StrayInv'
<1>1. /\ Worker \in Proc /\ Acts(Worker) /\ overlap' = "none" /\ cut' = cut /\ faults <= faults'
      /\ pc[Worker] \in WorkerPcs /\ pc[Worker] # "idle" /\ pc'[Worker] \in WorkerPcs \cup {"idle"}
  BY WorkerActs
  DEF Acts, Ends, ContinueWorker, Mark, GetNodeb, PutNodeb, Unregister, Unlist, WorkerPcs
<1>2. /\ \A q \in Proc : q # Worker => pc[q] = "idle"
      /\ \A q \in Proc : q # Worker => pc'[q] = "idle"
      /\ TiedAlone(pc[Worker], job[Worker])
  BY <1>1, Lone, LoneAfter
<1>3. pc[Worker] # "list" /\ pc'[Worker] \notin RedPcs  BY <1>1 DEF WorkerPcs, RedPcs
<1>4. ASSUME NEW a \in E2T
      PROVE  StrayAt(pc[Worker], job[Worker], a)' => StrayAt(pc[Worker], job[Worker], a)
  <2>1. CASE Mark
    <3>1. dir' = dir /\ Registry!Directory' = Registry!Directory
      BY <2>1, SameDirectory DEF Mark
    <3>2. PICK b \in E2T :
            /\ copies[b] # NoInst
            /\ reg' \in {reg, [reg EXCEPT ![b] = [copies[b] EXCEPT !.state = "ToBeDeleted"]]}
      BY <2>1 DEF Mark
    <3>3. Registry!Directory[b] > 0  BY <1>1, <1>2, <3>2 DEF TiedAlone
    <3>4. CASE a = b
      BY <1>3, <3>1, <3>3, <3>4 DEF StrayAt
    <3>5. CASE a # b
      <4>1. reg'[a] = reg[a]  BY <3>2, <3>5, MarkedLists
      <4> QED  BY <1>1, <1>3, <3>1, <4>1, StrayKept
    <3> QED  BY <3>4, <3>5
  <2>2. CASE GetNodeb \/ PutNodeb
    BY <1>1, <1>3, <2>2, SameDirectory, StrayKept DEF GetNodeb, PutNodeb, db
  <2>3. CASE Unregister
    <3>1. job[Worker].addr \in E2T  BY <2>3, WorkerHolds DEF Unregister, Holds
    <3>2. dir' = dir /\ (reg'[a] # NoInst => reg[a] # NoInst)
      BY <2>3, <3>1, UnregisterLists DEF Unregister
    <3> QED  BY <1>1, <1>3, <3>2, SameDirectory, StrayKept
  <2>4. CASE Unlist
    <3>1. job[Worker].addr \in E2T /\ pc[Worker] = "unlist" /\ reg' = reg
      BY <2>4, WorkerHolds DEF Unlist, Holds, Registry!Unlist
    <3>2. CASE a = job[Worker].addr
      <4>1. reg'[a] = NoInst  BY <1>2, <3>1, <3>2 DEF TiedAlone
      <4> QED  BY <4>1 DEF StrayAt
    <3>3. CASE a # job[Worker].addr
      <4>1. Registry!Directory'[a] = Registry!Directory[a]
        BY <2>4, <3>1, <3>3, UnlistDirectory, SameDirectory DEF Unlist
      <4> QED  BY <1>1, <1>3, <3>1, <4>1, StrayKept
    <3> QED  BY <3>2, <3>3
  <2> QED  BY <2>1, <2>2, <2>3, <2>4 DEF ContinueWorker
<1>5. Stray' \subseteq Stray  BY <1>1, <1>2, <1>4, StrayNow, StrayThen DEF Stray
<1> QED  BY <1>1, <1>5, StrayLess

LEMMA TakesStray ==
  ASSUME IInv, IInv', StrayInv, NEW p \in Proc, NEW S, Takes(p, S), overlap' = "none",
         pc'[p] \in RedPcs => job'[p].kind # "ShutDown"
  PROVE  StrayInv'
<1>1. /\ UNCHANGED <<reg, dir, faults, cut>> /\ overlap = "none" /\ \A q \in Proc : pc[q] = "idle"
      /\ \A q \in Proc : q # p => pc'[q] = "idle"
  BY ArrivesNone DEF Takes, Only
<1>2. ASSUME NEW a \in E2T, StrayAt(pc[p], job[p], a)'  PROVE StrayAt(pc[p], job[p], a)
  <2>1. reg'[a] # NoInst /\ Registry!Directory'[a] = 0  BY <1>2 DEF StrayAt
  <2> QED  BY <1>1, <2>1, SameDirectory DEF StrayAt
<1>3. Stray' \subseteq Stray  BY <1>1, <1>2, StrayNow, StrayThen DEF Stray
<1>4. faults <= faults'  BY <1>1, SpentType
<1> QED  BY <1>1, <1>3, <1>4, StrayLess

LEMMA CrashStray ==
  ASSUME IInv, IInv', AloneInv, StrayInv, overlap = "none", Crash
  PROVE  StrayInv'
<1>1. PICK p \in Proc : pc[p] # "idle"  BY DEF Crash
<1>2. /\ \A q \in Proc : q # p => pc[q] = "idle"
      /\ \A q \in Proc : pc'[q] = "idle"
  BY <1>1, Lone DEF Crash
<1> DEFINE I == {q \in Proc : pc[q] # "idle"}
<1>3. /\ UNCHANGED <<reg, dir, overlap>> /\ Cardinality(I) \in Nat \ {0}
      /\ faults' + cut' = (faults + cut) + Cardinality(I)
  BY InterruptedCount
<1>4. ASSUME NEW a \in E2T, StrayAt(pc[p], job[p], a)', a # job[p].addr
      PROVE  StrayAt(pc[p], job[p], a)
  <2>1. reg'[a] # NoInst /\ Registry!Directory'[a] = 0  BY <1>2, <1>4 DEF StrayAt, RedPcs
  <2> QED  BY <1>3, <1>4, <2>1, SameDirectory DEF StrayAt
<1> DEFINE A == {job[p].addr} \cap E2T
<1>5. Stray' \subseteq Stray \cup A
  BY <1>2, <1>3, <1>4, StrayNow, StrayThen DEF Stray
<1> DEFINE m == Cardinality(I)
<1>6. m \in Nat /\ m # 0 /\ faults' + cut' = (faults + cut) + m  BY <1>3
<1>7. Cardinality(A) <= 1
  <2>1. IsFiniteSet({job[p].addr}) /\ Cardinality({job[p].addr}) = 1  BY FS_Singleton
  <2>2. A \subseteq {job[p].addr}  OBVIOUS
  <2> HIDE DEF A
  <2> QED  BY <2>1, <2>2, FS_Subset
<1>8. A \in SUBSET E2T  OBVIOUS
<1> HIDE DEF A, m, I
<1>9. Cardinality(A) <= m  BY <1>6, <1>7, <1>8, StrayFinite
<1> QED  BY <1>5, <1>6, <1>8, <1>9, StrayMore

LEMMA StrayNone ==
  ASSUME IInv', overlap' # "none"
  PROVE  StrayInv'
<1>1. Stray' = {}  BY DEF Stray
<1>2. IsFiniteSet({}) /\ Cardinality({}) = 0  BY FS_EmptySet
<1>b. CountInv'  BY DEF IInv
<1>c. MaxFaults \in Nat /\ MaxCut \in Nat  BY ConstantsOK
<1>d. faults' \in Nat /\ cut' \in Nat  BY <1>b, <1>c DEF CountInv
<1>3. \A x, y \in Nat : 0 <= x + y  OBVIOUS
<1> QED  BY <1>1, <1>2, <1>3, <1>d DEF StrayInv

LEMMA StrayNext ==
  ASSUME IInv, IInv', AloneInv, StrayInv, [Next]_vars
  PROVE  StrayInv'
<1> SUFFICES ASSUME overlap' = "none"  PROVE StrayInv'  BY StrayNone
<1>1. ASSUME NEW p \in Proc, Continue(p)  PROVE StrayInv'
  BY <1>1, ContinueActs, ContinueStray DEF Acts
<1>2. ASSUME ContinueWorker  PROVE StrayInv'
  BY <1>2, WorkerActs, WorkerStray DEF Acts
<1>3. ASSUME NEW p \in Proc, Arrive(p)  PROVE StrayInv'
  <2>1. PICK S : Takes(p, S)  BY <1>3, ArriveTakes
  <2> QED  BY <1>3, <2>1, ArriveRed, TakesStray DEF RedPcs
<1>4. ASSUME NEW S \in SUBSET E2T, Expire(S)  PROVE StrayInv'
  BY <1>4, ExpireTakes, TakesStray DEF Becomes, RedPcs
<1>5. CASE Crash  BY <1>5, InterruptedCount, CrashStray
<1>6. CASE UNCHANGED vars
  <2>1. Stray' = Stray  BY <1>6 DEF vars, Stray, Registry!Directory, Registry!NoneListed
  <2> QED  BY <1>6, <2>1 DEF vars, StrayInv
<1> QED  BY <1>1, <1>2, <1>3, <1>4, <1>5, <1>6 DEF Next, Rest
-----------------------------------------------------------------------------
(* The inductive invariant *)

LEMMA CountsInit == Init => CInv
<1> SUFFICES ASSUME Init PROVE CInv  OBVIOUS
<1>1. IInv  BY InitInv
<1>2. Known = {} /\ ids = {}  BY DEF Init, Known
<1>3. \A p \in Proc : pc[p] = "idle"  BY DEF Init
<1>4. ApartInv /\ AloneInv
  BY <1>3 DEF ApartInv, Tied, AloneInv, TiedAlone, SetupPcs, WorkerPcs
<1>5. Charged = {}  BY <1>2 DEF Charged
<1>6. Stray = {}  BY DEF Init, NoCopies, Stray
<1>7. ChargedInv /\ StrayInv
  <2>1. faults + cut = 0  BY DEF Init
  <2>2. IsFiniteSet({}) /\ Cardinality({}) = 0  BY FS_EmptySet
  <2> QED  BY <1>5, <1>6, <2>1, <2>2 DEF ChargedInv, StrayInv
<1> QED  BY <1>1, <1>2, <1>4, <1>7 DEF CInv

LEMMA CountsNext == CInv /\ [Next]_vars => CInv'
BY NextInv, IdsNext, ApartNext, AloneNext, ChargedNext, StrayNext DEF CInv

LEMMA CountsInvariance == Spec => []CInv
BY CountsInit, CountsNext, PTL DEF Spec
-----------------------------------------------------------------------------
(* Theorems *)

\* A RAN with a record that no request is working on is missing in the list of
\* identities only after an error or a crash, one RAN for each: whatever requests
\* overlap, SaveNodeb alone creates a record and its second write lists the RAN.
THEOREM UnlistedAreCounted == Spec => []UnlistedRansBounded
<1>1. CInv => UnlistedRansBounded
  <2> SUFFICES ASSUME CInv PROVE UnlistedRansBounded  OBVIOUS
  <2> DEFINE U == {r \in Ran : nodebs[r] # NoNodeb /\ r \notin ids /\ ~Busy(r)}
  <2>1. \A r \in Ran : Joining(r, {"addMember"}) => Busy(r)
    <3>1. ASSUME NEW r \in Ran, NEW q \in Proc, pc[q] = "addMember", job[q].ran = r
          PROVE  Busy(r)
      BY <3>1, ScopeNow DEF CInv, Busy, SetupPcs
    <3> QED  BY <3>1 DEF Joining
  <2>2. U \subseteq Charged  BY <2>1 DEF Charged, Unlisted, Known
  <2>3. faults + cut \in Nat  BY SpentType DEF CInv
  <2> DEFINE n == faults + cut  C == Charged
  <2>4. n \in Nat /\ U \subseteq C /\ IsFiniteSet(C) /\ Cardinality(C) <= n /\ n <= n
    BY <2>2, <2>3 DEF CInv, ChargedInv
  <2> HIDE DEF n, C, U
  <2>5. Cardinality(U) <= n  BY <2>4, SubsetCount
  <2> QED  BY <2>5 DEF n, U, UnlistedRansBounded
<1> QED  BY <1>1, CountsInvariance, PTL

\* While requests come one at a time for each RAN, a connected RAN that no request
\* is working on is associated to an E2T that exists and lists it, but for one RAN
\* for each error or interrupted request: E2_SETUP, lost connection, shutdown of an
\* E2T and red button write association, RAN list and registry one by one.
THEOREM ConnectedAreAnchored == Spec => []ConnectedIsAnchored
<1>1. CInv => ConnectedIsAnchored
  <2> SUFFICES ASSUME CInv, Apart PROVE ConnectedIsAnchored
    BY DEF ConnectedIsAnchored, Apart
  <2> DEFINE U == {r \in Ran : HasStatus(r, "CONNECTED") /\ ~Busy(r) /\ ~Anchored(r)}
  <2>1. \A r \in Ran : Joining(r, {"addMember", "associate", "addRan"}) => Busy(r)
    <3>1. ASSUME NEW r \in Ran, NEW q \in Proc, pc[q] \in {"addMember", "associate", "addRan"},
                 job[q].ran = r
          PROVE  Busy(r)
      BY <3>1, ScopeNow DEF CInv, Busy, SetupPcs
    <3> QED  BY <3>1 DEF Joining
  <2>2. U \subseteq Charged  BY <2>1 DEF Charged, Adrift, Known, HasStatus
  <2>3. faults + cut \in Nat  BY SpentType DEF CInv
  <2> DEFINE n == faults + cut  C == Charged
  <2>4. n \in Nat /\ U \subseteq C /\ IsFiniteSet(C) /\ Cardinality(C) <= n /\ n <= n
    BY <2>2, <2>3 DEF CInv, ChargedInv
  <2> HIDE DEF n, C, U
  <2>5. Cardinality(U) <= n  BY <2>4, SubsetCount
  <2> QED  BY <2>5 DEF n, U, ConnectedIsAnchored
<1> QED  BY <1>1, CountsInvariance, PTL

\* the pass that ends the red button has reached every RAN
LEMMA LastPass ==
  ASSUME CInv, CInv', overlap = "none", NEW p \in Proc, PassDone(p), pc'[p] = "idle"
  PROVE  /\ \A r \in ids : HasStatus(r, "SHUT_DOWN")
         /\ {a \in E2T : reg'[a] # NoInst /\ reg'[a].rans # NoRans} \subseteq Stray
<1>1. /\ pc[p] = "redGet" /\ todo[p] = NoRans /\ reg' = reg /\ ids \subseteq Ran
      /\ job[p].kind \in {"ForceShutDown", "ShuttingDown", "ShutDown"}
  BY HoldsNow DEF CInv, PassDone, Holds, IInv, NodebInv, db
<1>2. job[p].kind # "ShuttingDown"
  BY GotoOnly DEF CInv, PassDone, Becomes
<1>3. Tied(pc[p], job[p], nb[p], todo[p])  BY DEF CInv, ApartInv, Apart
<1>4. \A r \in ids : PassLeaves(job[p], r)  BY <1>1, <1>3 DEF Tied, Ahead, NoRans
<1>5. TiedAlone(pc[p], job[p]) /\ \A q \in Proc : q # p => pc[q] = "idle"
  BY <1>1, Lone DEF CInv
<1>6. ASSUME NEW a \in E2T, reg'[a] # NoInst, reg'[a].rans # NoRans  PROVE a \in Stray
  <2>1. job[p].kind = "ForceShutDown" => Registry!Directory[a] = 0
    BY <1>1, <1>5 DEF TiedAlone, Registry!NoneListed
  <2>2. StrayAt(pc[p], job[p], a)  BY <1>1, <1>2, <1>6, <2>1 DEF StrayAt, RedPcs
  <2> QED  BY <1>5, <2>2, StrayNow
<1> QED  BY <1>2, <1>4, <1>6 DEF PassLeaves

\* the first pass alone, when it has found every RAN shut down
LEMMA NothingToShut ==
  ASSUME CInv, CInv', overlap = "none", NEW p \in Proc, ClearRans(p), pc'[p] = "idle",
         faults' = faults
  PROVE  /\ \A r \in ids : HasStatus(r, "SHUT_DOWN")
         /\ {a \in E2T : reg'[a] # NoInst /\ reg'[a].rans # NoRans} \subseteq Stray
<1> DEFINE known == {a \in E2T : Registry!Directory[a] > 0 /\ reg[a] # NoInst}
<1>0. faults \in Nat  BY SpentType DEF CInv
<1>1. /\ pc[p] = "clearRans" /\ todo[p] = NoRans /\ ids \subseteq Ran
  BY HoldsNow DEF CInv, ClearRans, Holds, IInv, NodebInv
<1>2. PICK unsaved \in SUBSET known :
        /\ reg' = Cleared(known \ unsaved) /\ faults' = faults + Cardinality(unsaved)
        /\ IF job[p].updated
           THEN Step(p, "listRans", Request("ShutDown", NoE2T, NoRan), NoNodeb, NoRans)
           ELSE End(p)
  BY <1>0 DEF ClearRans, Fault
<1>3. ~job[p].updated  BY <1>2, StepOnly DEF CInv, Becomes
<1>4. unsaved = {}
  <2>1. unsaved \in SUBSET E2T  OBVIOUS
  <2> HIDE DEF known
  <2>2. IsFiniteSet(unsaved) /\ Cardinality(unsaved) \in Nat  BY <2>1, StrayFinite
  <2>3. Cardinality(unsaved) = 0  BY <1>0, <1>2, <2>2
  <2> QED  BY <2>2, <2>3, FS_EmptySet
<1>5. Tied(pc[p], job[p], nb[p], todo[p])  BY DEF CInv, ApartInv, Apart
<1>6. \A r \in ids : PassLeaves(job[p], r)  BY <1>1, <1>5 DEF Tied, Ahead, NoRans
<1>7. \A q \in Proc : q # p => pc[q] = "idle"  BY <1>1, Lone DEF CInv
<1>8. ASSUME NEW a \in E2T, reg'[a] # NoInst, reg'[a].rans # NoRans  PROVE a \in Stray
  <2>1. reg' = Cleared(known)  BY <1>2, <1>4
  <2>2. known \in SUBSET E2T /\ \A b \in known : reg[b] # NoInst  OBVIOUS
  <2>3. Registry!Directory[a] \in Nat
    BY DEF CInv, IInv, RegInv, Registry!Directory, Registry!NoneListed
  <2>4. reg[a] # NoInst /\ a \notin known
    <3> HIDE DEF known
    <3> QED  BY <1>8, <2>1, <2>2, ClearedLists DEF CInv
  <2>5. StrayAt(pc[p], job[p], a)  BY <1>1, <2>3, <2>4 DEF StrayAt
  <2> QED  BY <1>7, <2>5, StrayNow
<1> QED  BY <1>3, <1>6, <1>8 DEF PassLeaves

\* When the red button, alone, reports success every RAN in the list of identities
\* is SHUT_DOWN, and the E2Ts that keep RANs in their lists are at most as many as
\* the errors and interrupted requests before: each pass reaches every listed RAN
\* and the records are cleared in between.
THEOREM RedButtonReachesAll == Spec => RedButtonShutsAll
<1> DEFINE Done(p) == /\ overlap = "none" /\ <<faults, cut>>' = <<faults, cut>>
                      /\ pc[p] \in {"redGet", "clearRans"} /\ pc'[p] = "idle"
           Left == {a \in E2T : reg'[a] # NoInst /\ reg'[a].rans # NoRans}
           Shuts == \A p \in Proc :
                      Done(p) => /\ \A r \in ids : HasStatus(r, "SHUT_DOWN")
                                 /\ Cardinality(Left) <= faults + cut
<1>1. CInv /\ CInv' /\ [Next]_vars => [Shuts]_vars
  <2> SUFFICES ASSUME CInv, CInv', Next, NEW p \in Proc, Done(p)
               PROVE  /\ \A r \in ids : HasStatus(r, "SHUT_DOWN")
                      /\ Cardinality(Left) <= faults + cut
    OBVIOUS
  <2>0. faults \in Nat /\ cut \in Nat /\ faults + cut \in Nat  BY SpentType DEF CInv
  <2>1. \A q \in Proc : q # p => pc[q] = "idle"  BY Lone DEF CInv
  <2>2. \A S : \A q \in Proc : ~Takes(q, S)  BY DEF Takes, Only
  <2>3. \A q \in Proc : ~Arrive(q)  BY <2>2, ArriveTakes DEF CInv
  <2>4. \A S \in SUBSET E2T : ~Expire(S)  BY <2>2, ExpireTakes DEF CInv
  <2>5. ~ContinueWorker
    BY <2>1, ConstantsOK DEF ContinueWorker, Mark, GetNodeb, PutNodeb, Unregister, Unlist
  <2>6. ~Crash
    <3> SUFFICES ASSUME Crash PROVE FALSE  OBVIOUS
    <3> DEFINE m == Cardinality({q \in Proc : pc[q] # "idle"})
    <3>1. m \in Nat \ {0} /\ faults' + cut' = (faults + cut) + m  BY InterruptedCount DEF CInv
    <3> HIDE DEF m
    <3> QED  BY <2>0, <3>1
  <2>7. Continue(p)
    <3>1. PICK q \in Proc : Continue(q)  BY <2>3, <2>4, <2>5, <2>6 DEF Next, Rest, vars
    <3>2. pc[q] # "idle"  BY <3>1, ContinueActs DEF CInv, Acts
    <3> QED  BY <2>1, <3>1, <3>2
  <2>8. PassDone(p) \/ ClearRans(p)
    <3>1. PassDone(p) \/ ClearRans(p) \/ RedGet(p)
      BY <2>7 DEF Continue, LookupRan, SaveNew, AddMember, Associate, AddRan, Fetch, Down,
         Dissociate, ClearAssoc, RemoveRan, Register, List, ListRans, RedPut, WriteBack
    <3>2. ~RedGet(p)
      <4> SUFFICES ASSUME RedGet(p) PROVE FALSE  OBVIOUS
      <4>1. faults' = faults /\ faults' # faults + 1  BY <2>0
      <4>2. PICK r \in Ran :
              \/ Step(p, "redGet", job[p], NoNodeb, Handled(p, r))
              \/ Step(p, "redPut", [job[p] EXCEPT !.ran = r], nodebs[r], Handled(p, r))
        BY <4>1, ConstantsOK DEF RedGet, Fault
      <4>3. ASSUME NEW l \in {"redGet", "redPut"}, NEW j, NEW n, NEW t, Step(p, l, j, n, t)
            PROVE  FALSE
        <5>1. pc'[p] = l  BY <4>3, StepOnly DEF CInv, Becomes
        <5> QED  BY <5>1
      <4> QED  BY <4>2, <4>3
    <3> QED  BY <3>1, <3>2
  <2>9. (\A r \in ids : HasStatus(r, "SHUT_DOWN")) /\ Left \subseteq Stray
    BY <2>8, LastPass, NothingToShut
  <2>10. Cardinality(Left) <= faults + cut
    <3> DEFINE n == faults + cut  S == Stray
    <3>1. n \in Nat /\ IsFiniteSet(S) /\ Cardinality(S) <= n /\ Left \subseteq S /\ n <= n
      BY <2>0, <2>9 DEF CInv, StrayInv
    <3> HIDE DEF n, S, Left
    <3>2. Cardinality(Left) <= n  BY <3>1, SubsetCount
    <3> QED  BY <3>2 DEF n
  <2> QED  BY <2>9, <2>10
<1> QED  BY CountsInvariance, <1>1, PTL DEF Spec, RedButtonShutsAll
=============================================================================
