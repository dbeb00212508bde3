--------------------- MODULE E2TInstancesRegistry_proofs ---------------------
(***************************************************************************)
(* More about E2TInstances, on top of the invariant of the mutex: how many *)
(* entries are torn between the record and the address list, and that the  *)
(* manager implements E2TRegistry when the worker's unlocked save is left  *)
(* out.                                                                    *)
(***************************************************************************)
EXTENDS E2TInstances_proofs, FiniteSetTheorems

(* Counting torn entries                                                   *)

Spent == faults + 2 * crashes

LEMMA SpentType ==
  /\ TypeOK => faults \in Nat /\ crashes \in Nat
  /\ TypeOK' => faults' \in Nat /\ crashes' \in Nat
BY ConstantsOK DEF TypeOK

LEMMA SubsetCount ==
  ASSUME NEW S, NEW T, NEW n \in Nat, NEW m \in Nat,
         IsFiniteSet(S), Cardinality(S) <= n, T \subseteq S, n <= m
  PROVE  IsFiniteSet(T) /\ Cardinality(T) <= m
<1>1. Cardinality(S) \in Nat  BY FS_CardinalityType
<1>2. IsFiniteSet(T) /\ Cardinality(T) <= Cardinality(S)  BY FS_Subset
<1>3. Cardinality(T) \in Nat  BY <1>2, FS_CardinalityType
<1> QED  BY <1>1, <1>2, <1>3

LEMMA OneMoreCount ==
  ASSUME NEW S, NEW T, NEW a, NEW n \in Nat,
         IsFiniteSet(S), Cardinality(S) <= n, T \subseteq S \cup {a}
  PROVE  IsFiniteSet(T) /\ Cardinality(T) <= n + 1
<1>1. Cardinality(S) \in Nat  BY FS_CardinalityType
<1>2. IsFiniteSet(S \cup {a}) /\ Cardinality(S \cup {a}) <= n + 1
  BY <1>1, FS_AddElement
<1> QED  BY <1>2, SubsetCount

LEMMA CountKept ==
  ASSUME TypeOK, TypeOK', Counted, Uneven' \subseteq Uneven, Spent <= Spent'
  PROVE  Counted'
<1>1. Spent \in Nat /\ Spent' \in Nat  BY SpentType DEF Spent
<1>2. IsFiniteSet(Uneven) /\ Cardinality(Uneven) <= Spent  BY DEF Counted, Spent
<1>3. IsFiniteSet(Uneven') /\ Cardinality(Uneven') <= Spent'  BY <1>1, <1>2, SubsetCount
<1> QED  BY <1>3 DEF Counted, Spent

LEMMA CountRaised ==
  ASSUME TypeOK, TypeOK', Counted, NEW a, Uneven' \subseteq Uneven \cup {a},
         Spent' = Spent + 1
  PROVE  Counted'
<1>1. Spent \in Nat /\ Spent' \in Nat  BY SpentType DEF Spent
<1>2. IsFiniteSet(Uneven) /\ Cardinality(Uneven) <= Spent  BY DEF Counted, Spent
<1>3. IsFiniteSet(Uneven') /\ Cardinality(Uneven') <= Spent'
  BY <1>1, <1>2, OneMoreCount
<1> QED  BY <1>3 DEF Counted, Spent

LEMMA CountRaisedTwice ==
  ASSUME TypeOK, TypeOK', Counted, NEW a, NEW b, Uneven' \subseteq (Uneven \cup {a}) \cup {b},
         Spent' = Spent + 2
  PROVE  Counted'
<1>1. Spent \in Nat /\ Spent' \in Nat  BY SpentType DEF Spent
<1>2. IsFiniteSet(Uneven) /\ Cardinality(Uneven) <= Spent  BY DEF Counted, Spent
<1>3. IsFiniteSet(Uneven \cup {a}) /\ Cardinality(Uneven \cup {a}) <= Spent + 1
  BY <1>1, <1>2, OneMoreCount
<1>4. Spent + 1 \in Nat /\ (Spent + 1) + 1 = Spent'  BY <1>1
<1>5. IsFiniteSet(Uneven') /\ Cardinality(Uneven') <= (Spent + 1) + 1
  BY <1>3, <1>4, OneMoreCount
<1> QED  BY <1>4, <1>5 DEF Counted, Spent

\* the same goroutines are between their two writes
StaysListing(p) == pc'[p] = pc[p] /\ op'[p] = op[p] /\ asnap'[p] = asnap[p]
SameListing ==
  /\ UNCHANGED addresses
  /\ \A p \in Proc : p \in Listing \/ p \in Listing' => StaysListing(p)

LEMMA SameMending ==
  ASSUME SameListing
  PROVE  AddrList' = AddrList /\ Listing' = Listing /\ Mending' = Mending
<1>1. AddrList' = AddrList  BY DEF SameListing, AddrList
<1>2. Listing' = Listing  BY DEF SameListing, StaysListing, Listing
<1>3. Mending' = Mending  BY <1>2 DEF SameListing, StaysListing, Mending, Listing
<1> QED  BY <1>1, <1>2, <1>3

LEMMA SameListingInv ==
  ASSUME IInv, ListingInv, SameListing,
         \A p \in Listing : records'[op[p].addr] # NoInst <=> records[op[p].addr] # NoInst
  PROVE  ListingInv'
<1>1. AddrList' = AddrList /\ Listing' = Listing  BY SameMending
<1>2. \A p \in Listing' : (records'[op'[p].addr] # NoInst) = (op'[p].kind = "Add")
  BY <1>1 DEF SameListing, StaysListing, ListingInv, Listing
<1>3. \A p \in Proc : pc'[p] = "saveAddrs" => p \in Listing'  BY DEF Listing
<1>4. \A p \in Proc : pc'[p] = "saveAddrs" => asnap'[p] = AddrList'
  BY <1>1, <1>3 DEF SameListing, StaysListing, ListingInv
<1> QED  BY <1>2, <1>4 DEF ListingInv

\* a step that moreover leaves the same records in existence and the worker
\* no less at a revived one
Existing == \A a \in E2T : records'[a] # NoInst <=> records[a] # NoInst
Quiet ==
  /\ SameListing /\ Existing
  /\ Reviving \subseteq Reviving'
  /\ faults <= faults' /\ crashes' = crashes

LEMMA ListedAddr == ASSUME IInv, NEW p \in Listing PROVE op[p].addr \in E2T
BY DEF Listing, IInv, OpInv, ReadyFor, Op

LEMMA QuietTorn ==
  ASSUME IInv, IInv', TornInv, Quiet  PROVE TornInv'
<1>1. AddrList' = AddrList /\ Mending' = Mending  BY SameMending DEF Quiet
<1>2. Torn' = Torn  BY <1>1 DEF Quiet, Existing, Torn, Listed
<1>3. Spent <= Spent'  BY SpentType DEF Quiet, Spent, IInv
<1>4. Uneven' \subseteq Uneven  BY <1>1, <1>2 DEF Uneven, Quiet
<1>5. Counted'  BY <1>3, <1>4, CountKept DEF TornInv, IInv
<1>6. ListingInv'  BY ListedAddr, SameListingInv DEF Quiet, Existing, TornInv
<1> QED  BY <1>5, <1>6 DEF TornInv

LEMMA NoReviving ==
  ASSUME pc[Worker] \notin {"nodebs", "remove"}  PROVE Reviving = {}
BY DEF Reviving

\* a step of p takes at most its own E2T from those being revived, and none
\* when p is not in the shutdown of one
OthersStay(p) == \A q \in Proc : q # p => pc'[q] = pc[q] /\ op'[q] = op[q]
LEMMA RevivingBut ==
  ASSUME NEW p \in Proc, OthersStay(p), UNCHANGED round
  PROVE  Reviving \subseteq Reviving' \cup {op[p].addr}
BY ConstantsOK DEF Reviving, OthersStay

LEMMA RevivingKept ==
  ASSUME NEW p \in Proc, pc[p] \notin {"nodebs", "remove"}, OthersStay(p), UNCHANGED round
  PROVE  Reviving \subseteq Reviving'
BY ConstantsOK DEF Reviving, OthersStay

\* the goroutine between Lock and Unlock is the only one
LEMMA OnlyHolderLists ==
  ASSUME IInv, NEW p \in Proc, mux \in {p, NoProc}
  PROVE  Listing \subseteq {p}
BY ConstantsOK DEF IInv, LockInv, LockedPc, Listing

\* a step of p from and to a place that is not between the two writes
Moves(p) ==
  \/ \E l \in {"update", "clearing", "nodebs", "remove"} :
       Goto(p, l) /\ UNCHANGED <<op, asnap>>
  \/ UNCHANGED <<pc, op, asnap>>
  \/ \E r \in {"ok", "error"} : Finish(p, r)

LEMMA MovesStay ==
  ASSUME IInv, NEW p \in Proc, p \notin Listing, Moves(p), UNCHANGED addresses
  PROVE  SameListing /\ OthersStay(p)
BY DEF Moves, Goto, Finish, Listing, SameListing, StaysListing, OthersStay, IInv, TypeOK

LEMMA FaultSpends == TypeOK /\ Fault => faults <= faults'
BY SpentType DEF Fault

LEMMA SameFaults == TypeOK /\ UNCHANGED faults => faults <= faults'
BY SpentType

LEMMA SaveKeepsExistence ==
  ASSUME TypeOK, NEW a \in E2T, records[a] # NoInst, NEW i, i # NoInst,
         SaveRecord(a, i) \/ MaybeSaveRecord(a, i)
  PROVE  Existing
BY DEF TypeOK, SaveRecord, MaybeSaveRecord, Existing

LEMMA QuietStep ==
  ASSUME IInv, NEW p \in Proc, p \notin Listing, pc[p] \notin {"nodebs", "remove"},
         Moves(p), UNCHANGED <<addresses, round, crashes>>, Fault \/ UNCHANGED faults,
         Existing
  PROVE  Quiet
<1>1. SameListing /\ OthersStay(p)  BY MovesStay
<1>2. Reviving \subseteq Reviving'  BY <1>1, RevivingKept
<1>3. faults <= faults'  BY FaultSpends, SameFaults DEF IInv
<1> QED  BY <1>1, <1>2, <1>3 DEF Quiet

LEMMA LoadQuiet == ASSUME IInv, NEW p \in Proc, Load(p) PROVE Quiet
<1>1. pc[p] = "call" /\ p \notin Listing  BY DEF Load, At, Listing
<1>2. Moves(p)  BY DEF Load, Moves
<1>3. UNCHANGED <<addresses, round, crashes>> /\ (Fault \/ UNCHANGED faults)
  BY DEF Load, db
<1>4. Existing  BY DEF Load, db, Existing
<1> QED  BY <1>1, <1>2, <1>3, <1>4, QuietStep

LEMMA LoadAllQuiet == ASSUME IInv, NEW p \in Proc, LoadAll(p) PROVE Quiet
<1>1. pc[p] = "call" /\ p \notin Listing  BY DEF LoadAll, At, Listing
<1>2. Moves(p)  BY DEF LoadAll, Moves
<1>3. UNCHANGED <<addresses, round, crashes>> /\ (Fault \/ UNCHANGED faults)
  BY DEF LoadAll, db
<1>4. Existing  BY DEF LoadAll, db, Existing
<1> QED  BY <1>1, <1>2, <1>3, <1>4, QuietStep

LEMMA SaveUpdateQuiet == ASSUME IInv, NEW p \in Proc, SaveUpdate(p) PROVE Quiet
<1> DEFINE o == op[p]
           new == Updated(o, snap[p][o.addr])
<1>1. pc[p] = "update" /\ p \notin Listing  BY DEF SaveUpdate, Listing
<1>2. o.addr \in E2T /\ snap[p][o.addr] # NoInst /\ new # NoInst
  BY <1>1, UpdateSavesInstance, ConstantsOK
<1>3. records[o.addr] # NoInst  BY <1>1, <1>2 DEF IInv, FreshOrMarked, Held
<1>4. SaveRecord(o.addr, new) \/ MaybeSaveRecord(o.addr, new)  BY DEF SaveUpdate
<1>5. Existing
  <2> HIDE DEF new
  <2> QED  BY <1>2, <1>3, <1>4, SaveKeepsExistence DEF IInv
<1>6. Moves(p)  BY DEF SaveUpdate, Moves
<1>7. UNCHANGED <<addresses, round, crashes>> /\ (Fault \/ UNCHANGED faults)
  BY DEF SaveUpdate
<1> QED  BY <1>1, <1>5, <1>6, <1>7, QuietStep

LEMMA SaveClearedQuiet == ASSUME IInv, NEW p \in Proc, SaveCleared(p) PROVE Quiet
<1>1. PICK a \in E2T :
        LET new  == [snap[p][a] EXCEPT !.rans = NoRans]
            rest == [snap[p] EXCEPT ![a] = NoInst]
        IN /\ snap[p][a] # NoInst
           /\ \/ SaveRecord(a, new) /\ UNCHANGED faults
              \/ Fault /\ MaybeSaveRecord(a, new)
           /\ \/ rest = NoSnap /\ Finish(p, "ok")
              \/ /\ rest # NoSnap
                 /\ snap' = [snap EXCEPT ![p] = rest]
                 /\ UNCHANGED <<mux, pc, op, asnap, res>>
  BY DEF SaveCleared
<1> DEFINE new == [snap[p][a] EXCEPT !.rans = NoRans]
<1>2. pc[p] = "clearing" /\ p \notin Listing  BY DEF SaveCleared, Listing
<1>3. records[a] # NoInst  BY <1>1, <1>2 DEF IInv, FreshOrMarked, Held
<1>4. new # NoInst
  <2>1. snap[p][a] \in Instance  BY <1>1 DEF IInv, TypeOK, Record
  <2>2. new \in Instance  BY <2>1 DEF Instance, RanBag, NoRans
  <2> QED  BY <2>2, ConstantsOK
<1>5. SaveRecord(a, new) \/ MaybeSaveRecord(a, new)  BY <1>1
<1>6. Existing
  <2> HIDE DEF new
  <2> QED  BY <1>3, <1>4, <1>5, SaveKeepsExistence DEF IInv
<1>7. Moves(p)  BY <1>1 DEF Moves
<1>8. UNCHANGED <<addresses, round, crashes>>  BY DEF SaveCleared
<1>9. Fault \/ UNCHANGED faults  BY <1>1
<1> QED  BY <1>2, <1>6, <1>7, <1>8, <1>9, QuietStep

LEMMA RestQuiet ==
  ASSUME IInv,
         \/ \E p \in Proc : Return(p) \/ \E o \in Op : Call(p, o)
         \/ ReadForShutdown \/ \E a \in E2T : NextInstance(a)
         \/ Tick \/ Boot \/ Rest \/ UNCHANGED vars
  PROVE  Quiet
<1>1. ASSUME NEW p \in Proc, Return(p) \/ \E o \in Op : Call(p, o)  PROVE Quiet
  <2>1. /\ pc[p] \in {"ret", "idle"} /\ \E l \in {"idle", "call"} : pc' = [pc EXCEPT ![p] = l]
        /\ \A q \in Proc : q # p => op'[q] = op[q]
        /\ UNCHANGED <<records, addresses, asnap, faults, crashes>>
        /\ p = Worker \/ UNCHANGED round
    BY <1>1 DEF Return, Call, Goto, db, budget, IInv, TypeOK
  <2>2. OthersStay(p)  BY <2>1 DEF OthersStay, IInv, TypeOK
  <2>3. Reviving \subseteq Reviving'
    <3>1. CASE p = Worker
      <4>1. Reviving = {}  BY <2>1, <3>1, NoReviving
      <4> QED  BY <4>1
    <3>2. CASE UNCHANGED round  BY <2>1, <2>2, <3>2, RevivingKept
    <3> QED  BY <2>1, <3>1, <3>2
  <2> QED
    BY <2>1, <2>3, SameFaults
    DEF Quiet, SameListing, Existing, Listing, StaysListing, IInv, TypeOK
<1>2. CASE ReadForShutdown \/ \E a \in E2T : NextInstance(a)
  <2>1. /\ pc[Worker] = "idle"
        /\ \E l \in {"idle", "mark"} : pc' = [pc EXCEPT ![Worker] = l]
        /\ \A q \in Proc : q # Worker => op'[q] = op[q]
        /\ UNCHANGED <<records, addresses, asnap, faults, crashes>>
    BY <1>2, ConstantsOK DEF ReadForShutdown, NextInstance, Goto, db, threads, budget, IInv, TypeOK
  <2>2. Reviving = {}  BY <2>1, NoReviving
  <2> QED
    BY <2>1, <2>2, SameFaults
    DEF Quiet, SameListing, Existing, Listing, StaysListing, IInv, TypeOK
<1>3. CASE Tick \/ Rest \/ UNCHANGED vars
  <2>1. UNCHANGED <<records, addresses, pc, op, asnap, round, faults, crashes>>
    BY <1>3 DEF Tick, Rest, vars, db, threads, budget
  <2>2. Reviving' = Reviving  BY <2>1 DEF Reviving
  <2> QED
    BY <2>1, <2>2, SameFaults DEF Quiet, SameListing, Existing, StaysListing, IInv
<1>4. CASE Boot
  <2>1. UNCHANGED <<addresses, pc, op, asnap, round, crashes>>  BY <1>4 DEF Boot, threads
  <2>2. faults <= faults'  BY <1>4, FaultSpends, SameFaults DEF Boot, IInv
  <2>3. ASSUME NEW a \in E2T  PROVE records'[a] # NoInst <=> records[a] # NoInst
    <3>1. CASE records'[a] = records[a]  BY <3>1
    <3>2. CASE records[a] # NoInst /\ records'[a] = [records[a] EXCEPT !.ts = clock]
      <4>1. records[a] \in Instance /\ clock \in Nat
        BY <3>2, ConstantsOK DEF IInv, TypeOK, Record
      <4>2. records'[a] \in Instance  BY <3>2, <4>1 DEF Instance
      <4> QED  BY <3>2, <4>2, ConstantsOK
    <3> QED  BY <1>4, <3>1, <3>2 DEF Boot
  <2>4. Reviving' = Reviving  BY <2>1 DEF Reviving
  <2> QED  BY <2>1, <2>2, <2>3, <2>4 DEF Quiet, SameListing, Existing, StaysListing
<1> QED  BY <1>1, <1>2, <1>3, <1>4

\* The worker's mark brings a removed record back only for an E2T that it
\* handles once more; the record is being revived until it is removed again.
LEMMA MarkTorn ==
  ASSUME IInv, IInv', TornInv, NEW p \in Proc, Mark(p)  PROVE TornInv'
<1> DEFINE a == op[p].addr
           i == round[a].copy
<1>1. pc[p] = "mark" /\ p \notin Listing /\ p = Worker /\ a \in E2T
  BY DEF Mark, Listing, IInv, OpInv, ReadyFor, Op
<1>2. /\ Moves(p) /\ UNCHANGED <<addresses, round, crashes>>
      /\ Fault \/ UNCHANGED faults
  BY DEF Mark, Moves
<1>3. CASE Existing
  <2>1. Quiet  BY <1>1, <1>2, <1>3, QuietStep
  <2> QED  BY <2>1, QuietTorn
<1>4. CASE ~Existing
  <2>1. round[a].times > 0 /\ i # NoInst
    BY <1>1 DEF IInv, RoundInv, TypeOK, Turn
  <2>2. Marked(i) # NoInst
    <3>1. i \in Instance /\ clock \in Nat
      BY <1>1, <2>1, ConstantsOK DEF IInv, TypeOK, Record, Turn
    <3>2. Marked(i) \in Instance  BY <3>1 DEF Marked, Instance, States
    <3> QED  BY <3>2, ConstantsOK
  <2>3. ~UNCHANGED records  BY <1>4 DEF Existing
  <2>4. SaveRecord(a, Marked(i)) \/ MaybeSaveRecord(a, Marked(i))  BY <2>3 DEF Mark
  <2>5. records[a] = NoInst
    <3> HIDE DEF i
    <3> QED  BY <1>1, <1>4, <2>2, <2>4, SaveKeepsExistence DEF IInv
  <2>6. round[a].times > 1
    <3>1. ~Awaited(a)  BY <1>1, <2>5 DEF IInv, MarkTarget
    <3> QED  BY <1>1, <2>1, <3>1 DEF Awaited, Marking, IInv, TypeOK, Turn
  <2>7. \A b \in E2T \ {a} : records'[b] = records[b]
    BY <2>4 DEF SaveRecord, MaybeSaveRecord, IInv, TypeOK
  <2>8. SameListing  BY <1>1, <1>2, MovesStay
  <2>9. AddrList' = AddrList /\ Mending' = Mending  BY <2>8, SameMending
  <2>10. ListingInv'
    <3>1. \A q \in Listing : op[q].kind = "Add"
      BY <1>1 DEF Listing, IInv, OpInv, ReadyFor
    <3>2. \A q \in Listing : op[q].addr \in E2T \ {a}
      BY <2>5, <3>1, ListedAddr DEF TornInv, ListingInv
    <3> QED  BY <2>7, <2>8, <3>2, SameListingInv DEF TornInv
  <2>11. Torn' \subseteq Torn \cup {a}  BY <2>7, <2>9 DEF Torn, Listed
  <2>12. Reviving = {}  BY <1>1, NoReviving
  <2>13. Uneven' \subseteq Uneven \cup {a}  BY <2>9, <2>11, <2>12 DEF Uneven
  <2>14. CASE Goto(p, "nodebs") /\ UNCHANGED <<op, faults>>
    <3>1. pc'[Worker] = "nodebs" /\ op'[Worker].addr = a
      BY <1>1, <2>14 DEF Goto, IInv, TypeOK
    <3>2. a \in Reviving'  BY <1>1, <1>2, <2>6, <3>1 DEF Reviving
    <3>3. Uneven' \subseteq Uneven  BY <2>13, <3>2 DEF Uneven
    <3>4. Spent <= Spent'  BY <1>2, <2>14, SpentType DEF Spent, IInv
    <3>5. Counted'  BY <3>3, <3>4, CountKept DEF TornInv, IInv
    <3> QED  BY <2>10, <3>5 DEF TornInv
  <2>15. CASE Fault
    <3>1. Spent' = Spent + 1  BY <1>2, <2>15, SpentType DEF Fault, Spent, IInv
    <3>2. Counted'  BY <2>13, <3>1, CountRaised DEF TornInv, IInv
    <3> QED  BY <2>10, <3>2 DEF TornInv
  <2> QED  BY <2>3, <2>14, <2>15 DEF Mark
<1> QED  BY <1>3, <1>4

LEMMA NodebsClearedTorn ==
  ASSUME IInv, IInv', TornInv, NEW p \in Proc, NodebsCleared(p)  PROVE TornInv'
<1>1. /\ pc[p] = "nodebs" /\ p \notin Listing
      /\ UNCHANGED <<records, addresses, round, crashes>>
  BY DEF NodebsCleared, Listing, db
<1>2. SameListing /\ OthersStay(p)  BY <1>1, MovesStay DEF NodebsCleared, Moves
<1>3. CASE Goto(p, "remove") /\ UNCHANGED <<op, faults>>
  <2>1. Reviving \subseteq Reviving'
    BY <1>1, <1>2, <1>3 DEF Reviving, OthersStay, Goto, IInv, TypeOK
  <2>2. Quiet  BY <1>1, <1>2, <1>3, <2>1, SameFaults DEF Quiet, Existing, IInv
  <2> QED  BY <2>2, QuietTorn
<1>4. CASE Fault
  <2>1. AddrList' = AddrList /\ Mending' = Mending  BY <1>2, SameMending
  <2>2. Torn' = Torn  BY <1>1, <2>1 DEF Torn, Listed
  <2>3. Uneven' \subseteq Uneven \cup {op[p].addr}
    BY <1>1, <1>2, <2>1, <2>2, RevivingBut DEF Uneven
  <2>4. Spent' = Spent + 1  BY <1>1, <1>4, SpentType DEF Fault, Spent, IInv
  <2>5. Counted'  BY <2>3, <2>4, CountRaised DEF TornInv, IInv
  <2>6. ListingInv'  BY <1>1, <1>2, SameListingInv DEF TornInv
  <2> QED  BY <2>5, <2>6 DEF TornInv
<1> QED  BY <1>3, <1>4 DEF NodebsCleared

\* an operation on a that ends with an error may leave a torn, and only a
LEMMA FailedTorn ==
  ASSUME IInv, IInv', TornInv, NEW p \in Proc, mux \in {p, NoProc}, Fault,
         UNCHANGED <<round, crashes>>, Finish(p, "error"),
         \A a \in E2T \ {op[p].addr} : /\ records'[a] = records[a]
                                       /\ AddrList'[a] = AddrList[a]
  PROVE  TornInv'
<1>1. Listing \subseteq {p}  BY OnlyHolderLists
<1>2. Listing' = {}
  BY <1>1 DEF Finish, Listing, IInv, TypeOK
<1>3. Uneven' \subseteq Uneven \cup {op[p].addr}
  <2>1. OthersStay(p)  BY DEF Finish, OthersStay, IInv, TypeOK
  <2>2. Reviving \subseteq Reviving' \cup {op[p].addr}  BY <2>1, RevivingBut
  <2>3. Torn' \subseteq Torn \cup {op[p].addr}  BY DEF Torn, Listed
  <2>4. Mending \subseteq {op[p].addr}  BY <1>1 DEF Mending
  <2> QED  BY <2>2, <2>3, <2>4 DEF Uneven
<1>4. Spent' = Spent + 1  BY SpentType DEF Fault, Spent, IInv
<1>5. Counted'  BY <1>3, <1>4, CountRaised DEF TornInv, IInv
<1>6. ListingInv'  BY <1>2 DEF ListingInv, Listing
<1> QED  BY <1>5, <1>6 DEF TornInv

LEMMA PutRecordTorn ==
  ASSUME IInv, IInv', TornInv, NEW p \in Proc, NEW i \in Record, PutRecord(p, i),
         ReadyFor(p, {"Add", "Shutdown"}), (i # NoInst) = (op[p].kind = "Add")
  PROVE  TornInv'
<1> DEFINE a == op[p].addr
<1>1. a \in E2T  BY DEF ReadyFor, Op
<1>2. mux = NoProc /\ UNCHANGED <<addresses, round, crashes>>  BY DEF PutRecord, CanLock
<1>3. AddrList' = AddrList  BY <1>2 DEF AddrList
<1>4. Listing = {}  BY <1>2, ConstantsOK DEF IInv, LockInv, LockedPc, Listing
<1>5. CASE SaveRecord(a, i) /\ Goto(p, "getAddrs") /\ UNCHANGED <<op, asnap, faults>>
  <2>1. records' = [records EXCEPT ![a] = i] /\ op' = op  BY <1>5 DEF SaveRecord
  <2>2. Listing' = {p}
    BY <1>4, <1>5 DEF Goto, Listing, IInv, TypeOK
  <2>3. a \in Mending'  BY <2>1, <2>2 DEF Mending
  <2>4. Torn' \subseteq Torn \cup {a}
    BY <1>3, <2>1 DEF Torn, Listed, IInv, TypeOK
  <2>5. Mending = {}  BY <1>4 DEF Mending
  <2>6. OthersStay(p)  BY <1>5 DEF OthersStay, Goto, IInv, TypeOK
  <2>7. Reviving \subseteq Reviving' \cup {a}  BY <1>2, <2>6, RevivingBut
  <2>8. Uneven' \subseteq Uneven  BY <2>3, <2>4, <2>5, <2>7 DEF Uneven
  <2>9. Spent <= Spent'  BY <1>2, <1>5, SpentType DEF Spent, IInv
  <2>10. Counted'  BY <2>8, <2>9, CountKept DEF TornInv, IInv
  <2>11. records'[a] = i  BY <1>1, <2>1 DEF IInv, TypeOK
  <2>12. \A q \in Proc : pc'[q] = "saveAddrs" => FALSE
    BY <2>2, <1>5 DEF Listing, Goto, IInv, TypeOK
  <2>13. ListingInv'  BY <2>1, <2>2, <2>11, <2>12 DEF ListingInv
  <2> QED  BY <2>10, <2>13 DEF TornInv
<1>6. CASE Fault /\ MaybeSaveRecord(a, i) /\ Finish(p, "error")
  <2>1. \A b \in E2T \ {a} : records'[b] = records[b] /\ AddrList'[b] = AddrList[b]
    BY <1>3, <1>6 DEF MaybeSaveRecord, SaveRecord, IInv, TypeOK
  <2> QED  BY <1>2, <1>6, <2>1, FailedTorn
<1> QED  BY <1>5, <1>6 DEF PutRecord

LEMMA SaveNewTorn ==
  ASSUME IInv, IInv', TornInv, NEW p \in Proc, SaveNew(p)  PROVE TornInv'
<1>1. ReadyFor(p, {"Add", "Shutdown"}) /\ op[p].kind = "Add"
  BY DEF SaveNew, At, IInv, OpInv, ReadyFor
<1>2. NewE2TInstance \in Record /\ NewE2TInstance # NoInst
  BY NewInstanceType, TypeParts, ConstantsOK DEF IInv, Record
<1> QED  BY <1>1, <1>2, PutRecordTorn DEF SaveNew

LEMMA RemoveRecordTorn ==
  ASSUME IInv, IInv', TornInv, NEW p \in Proc, RemoveRecord(p)  PROVE TornInv'
<1>1. ReadyFor(p, {"Add", "Shutdown"}) /\ op[p].kind = "Shutdown"
  BY DEF RemoveRecord, IInv, OpInv, ReadyFor
<1>2. NoInst \in Record  BY DEF Record
<1> QED  BY <1>1, <1>2, PutRecordTorn DEF RemoveRecord

LEMMA GetAddrsTorn ==
  ASSUME IInv, IInv', TornInv, NEW p \in Proc, GetAddrs(p)  PROVE TornInv'
<1>1. pc[p] = "getAddrs" /\ UNCHANGED <<records, addresses, round, crashes>>
  BY DEF GetAddrs, db
<1>2. AddrList' = AddrList  BY <1>1 DEF AddrList
<1>3. mux = p  BY <1>1 DEF IInv, LockInv, LockedPc
<1>4. CASE /\ asnap' = [asnap EXCEPT ![p] = AddrList] /\ Goto(p, "saveAddrs")
           /\ UNCHANGED <<op, faults>>
  <2>1. Listing' = Listing
    BY <1>1, <1>4 DEF Goto, Listing, IInv, TypeOK
  <2>2. OthersStay(p)  BY <1>4 DEF OthersStay, Goto, IInv, TypeOK
  <2>3. Reviving \subseteq Reviving'  BY <1>1, <2>2, RevivingKept
  <2>4. Uneven' \subseteq Uneven
    BY <1>1, <1>2, <1>4, <2>1, <2>3 DEF Uneven, Torn, Listed, Mending
  <2>5. Spent <= Spent'  BY <1>1, <1>4, SpentType DEF Spent, IInv
  <2>6. Counted'  BY <2>4, <2>5, CountKept DEF TornInv, IInv
  <2>7. \A q \in Proc : pc'[q] = "saveAddrs" => q = p
    BY <1>3, OnlyHolderLists, <2>1 DEF Listing
  <2>8. asnap'[p] = AddrList'  BY <1>2, <1>4 DEF IInv, TypeOK
  <2>9. ListingInv'
    BY <1>1, <1>4, <2>1, <2>7, <2>8 DEF TornInv, ListingInv
  <2> QED  BY <2>6, <2>9 DEF TornInv
<1>5. CASE Fault /\ Finish(p, "error")
  BY <1>1, <1>2, <1>3, <1>5, FailedTorn
<1> QED  BY <1>4, <1>5 DEF GetAddrs

LEMMA SaveAddrsTorn ==
  ASSUME IInv, IInv', TornInv, NEW p \in Proc, SaveAddrs(p)  PROVE TornInv'
<1> DEFINE a == op[p].addr
<1>1. pc[p] = "saveAddrs" /\ p \in Listing /\ UNCHANGED <<records, round, crashes>>
  BY DEF SaveAddrs, Listing
<1>2. mux = p  BY <1>1 DEF IInv, LockInv, LockedPc
<1>3. a \in E2T  BY <1>1 DEF IInv, OpInv, ReadyFor, Op
<1>4. asnap[p] = AddrList /\ (records[a] # NoInst) = (op[p].kind = "Add")
  BY <1>1 DEF TornInv, ListingInv
<1>5. NewAddrs(p) \in AddrBag /\ NewAddrs(p) = [AddrList EXCEPT ![a] = NewAddrs(p)[a]]
      /\ (NewAddrs(p)[a] > 0) = (op[p].kind = "Add")
  <2> DEFINE n == IF op[p].kind = "Add" THEN AddrList[a] + 1 ELSE 0
  <2>1. AddrList \in [E2T -> Nat]  BY AddrListType, TypeParts DEF IInv, AddrBag
  <2>2. n \in Nat /\ (n > 0) = (op[p].kind = "Add")  BY <1>3, <2>1
  <2>3. NewAddrs(p) = [AddrList EXCEPT ![a] = n]  BY <1>4 DEF NewAddrs
  <2> HIDE DEF n
  <2> QED  BY <1>3, <2>1, <2>2, <2>3 DEF AddrBag
<1>6. addresses' \in {NewAddrs(p), addresses}  BY DEF SaveAddrs
<1>7. NewAddrs(p) # NoAddrs  BY <1>5, ConstantsOK
<1>8. AddrList \in AddrBag  BY AddrListType, TypeParts DEF IInv
<1>9. \A b \in E2T \ {a} : AddrList'[b] = AddrList[b]
  <2>1. CASE addresses' = NewAddrs(p)
    <3>1. AddrList' = NewAddrs(p)  BY <1>7, <2>1 DEF AddrList
    <3> QED  BY <1>5, <1>8, <3>1 DEF AddrBag
  <2>2. CASE addresses' = addresses  BY <2>2 DEF AddrList
  <2> QED  BY <1>6, <2>1, <2>2
<1>10. CASE addresses' = NewAddrs(p) /\ Finish(p, "ok") /\ UNCHANGED faults
  <2>1. AddrList' = NewAddrs(p)  BY <1>7, <1>10 DEF AddrList
  <2>2. a \notin Torn'  BY <1>1, <1>4, <1>5, <2>1 DEF Torn, Listed
  <2>3. \A b \in Torn' : b \in Torn
    BY <1>1, <1>9, <2>2 DEF Torn, Listed
  <2>4. Listing \subseteq {p}  BY <1>2, OnlyHolderLists
  <2>5. Listing' = {}  BY <1>10, <2>4 DEF Finish, Listing, IInv, TypeOK
  <2>6. Mending \subseteq {a}  BY <2>4 DEF Mending
  <2>7. OthersStay(p)  BY <1>10 DEF Finish, OthersStay, IInv, TypeOK
  <2>8. Reviving \subseteq Reviving'  BY <1>1, <2>7, RevivingKept
  <2>9. Uneven' \subseteq Uneven  BY <2>2, <2>3, <2>6, <2>8 DEF Uneven
  <2>10. Spent <= Spent'  BY <1>1, <1>10, SpentType DEF Spent, IInv
  <2>11. Counted'  BY <2>9, <2>10, CountKept DEF TornInv, IInv
  <2>12. ListingInv'  BY <2>5 DEF ListingInv, Listing
  <2> QED  BY <2>11, <2>12 DEF TornInv
<1>11. CASE Fault /\ Finish(p, "error")
  BY <1>1, <1>2, <1>9, <1>11, FailedTorn
<1> QED  BY <1>10, <1>11 DEF SaveAddrs

\* a crash abandons at most one entry between its two writes and one revived
LEMMA CrashTorn ==
  ASSUME IInv, IInv', TornInv, Crash  PROVE TornInv'
<1>1. UNCHANGED <<records, addresses, faults>> /\ crashes' = crashes + 1
  BY DEF Crash, db
<1>2. Listing' = {}  BY DEF Crash, Listing
<1>3. Torn' = Torn  BY <1>1 DEF Torn, Listed, AddrList
<1>4. Mending \subseteq {op[mux].addr}
  <2>1. CASE mux \in Proc  BY <2>1, OnlyHolderLists DEF Mending
  <2>2. CASE mux = NoProc
    <3>1. Listing = {}  BY <2>2, ConstantsOK DEF IInv, LockInv, LockedPc, Listing
    <3> QED  BY <3>1 DEF Mending
  <2> QED  BY <2>1, <2>2 DEF IInv, TypeOK
<1>5. Reviving \subseteq {op[Worker].addr}  BY DEF Reviving
<1>6. Uneven' \subseteq (Uneven \cup {op[mux].addr}) \cup {op[Worker].addr}
  BY <1>3, <1>4, <1>5 DEF Uneven
<1>7. Spent' = Spent + 2  BY <1>1, SpentType DEF Spent, IInv
<1>8. Counted'  BY <1>6, <1>7, CountRaisedTwice DEF TornInv, IInv
<1>9. ListingInv'  BY <1>2 DEF ListingInv, Listing
<1> QED  BY <1>8, <1>9 DEF TornInv

LEMMA TornInvariance == Spec => [](IInv /\ TornInv)
<1>1. Init => IInv /\ TornInv
  <2> SUFFICES ASSUME Init PROVE TornInv
    BY InitInv
  <2>1. Torn = {}  BY DEF Init, NoSnap, Torn, Listed, AddrList
  <2>2. Uneven = {}  BY <2>1 DEF Uneven
  <2>3. Counted
    <3>1. IsFiniteSet(Uneven) /\ Cardinality(Uneven) = 0  BY <2>2, FS_EmptySet
    <3> QED  BY <3>1 DEF Counted, Init
  <2>4. ListingInv  BY DEF Init, ListingInv, Listing
  <2> QED  BY <2>3, <2>4 DEF TornInv
<1>2. IInv /\ TornInv /\ [Next]_vars => (IInv /\ TornInv)'
  <2> SUFFICES ASSUME IInv, TornInv, [Next]_vars PROVE IInv' /\ TornInv'
    OBVIOUS
  <2>1. IInv'  BY NextInv
  <2>2. CASE Quiet  BY <2>1, <2>2, QuietTorn
  <2>3. ASSUME NEW p \in Proc, Acquire(p)  PROVE TornInv'
    BY <2>1, <2>2, <2>3, LoadQuiet, LoadAllQuiet, SaveNewTorn, RemoveRecordTorn DEF Acquire
  <2>4. ASSUME NEW p \in Proc, Continue(p)  PROVE TornInv'
    BY <2>1, <2>2, <2>4, SaveUpdateQuiet, SaveClearedQuiet, GetAddrsTorn, SaveAddrsTorn,
       MarkTorn, NodebsClearedTorn, RestQuiet DEF Continue
  <2>5. CASE \/ \E p \in Proc : \E o \in Op : Call(p, o)
             \/ ReadForShutdown \/ \E a \in E2T : NextInstance(a)
             \/ Tick \/ Boot \/ Rest \/ UNCHANGED vars
    BY <2>2, <2>5, RestQuiet
  <2>6. CASE Crash  BY <2>1, <2>6, CrashTorn
  <2> QED  BY <2>1, <2>3, <2>4, <2>5, <2>6 DEF Next
<1> QED  BY <1>1, <1>2, PTL DEF Spec

\* AddE2TInstance and RemoveE2TInstance write the record and the address list
\* with two calls; whenever the mutex is free, the entries that have one
\* without the other are no more than the calls that failed and twice the
\* crashes, apart from the one the worker is about to remove once more.
THEOREM TornEntriesAreCounted == Spec => []TornEntriesBounded
<1>1. IInv /\ TornInv => TornEntriesBounded
  <2> SUFFICES ASSUME IInv, TornInv, mux = NoProc
               PROVE  Cardinality(Torn \ Reviving) <= faults + 2 * crashes
    BY DEF TornEntriesBounded
  <2>1. Listing = {}  BY ConstantsOK DEF IInv, LockInv, LockedPc, Listing
  <2>2. Uneven = Torn \ Reviving  BY <2>1 DEF Uneven, Mending
  <2> QED  BY <2>2 DEF TornInv, Counted
<1> QED  BY TornInvariance, <1>1, PTL
-----------------------------------------------------------------------------
(* The refinement of E2TRegistry                                           *)

\* the worker has nothing to do
LEMMA NoShutdownSteps ==
  ASSUME IInv, AtomicInv, NEW p \in Proc
  PROVE  ~Mark(p) /\ ~NodebsCleared(p) /\ ~RemoveRecord(p)
BY DEF IInv, OpInv, ReadyFor, AtomicInv, Mark, NodebsCleared, RemoveRecord

LEMMA NoRoundSteps ==
  ASSUME IInv, AtomicInv, "Shutdown" \notin Kinds
  PROVE  ~ReadForShutdown /\ \A a \in E2T : ~NextInstance(a)
BY DEF ReadForShutdown, NextInstance, AtomicInv, IInv, TypeOK, Turn

LEMMA FinishAtomic ==
  ASSUME IInv, AtomicInv, NEW p \in Proc, mux \in {p, NoProc},
         NEW r \in {"ok", "error"}, Finish(p, r), UNCHANGED round
  PROVE  AtomicInv'
<1>1. \A q \in Proc : q # p => pc[q] \notin {"update", "clearing"}
  BY ConstantsOK DEF IInv, LockInv, LockedPc
<1>2. \A q \in Proc : pc'[q] \notin {"update", "clearing"} /\ op'[q] = op[q]
  BY <1>1 DEF Finish, IInv, TypeOK
<1> QED  BY <1>2 DEF AtomicInv, Held

LEMMA LoadAtomic ==
  ASSUME IInv, AtomicInv, NEW p \in Proc, Load(p)  PROVE AtomicInv'
<1> DEFINE a == op[p].addr
<1>1. mux = NoProc /\ pc[p] = "call" /\ UNCHANGED <<records, round>>
  BY DEF Load, At, CanLock, db
<1>2. CASE /\ ~Ignores(op[p], records[a]) /\ snap' = [snap EXCEPT ![p][a] = records[a]]
           /\ Goto(p, "update") /\ UNCHANGED op
  <2>1. \A q \in Proc : pc[q] \notin {"update", "clearing"}
    BY <1>1, ConstantsOK DEF IInv, LockInv, LockedPc
  <2>2. \A q \in Proc : pc'[q] \in {"update", "clearing"} => q = p
    BY <1>2, <2>1 DEF Goto, IInv, TypeOK
  <2>3. snap[p] = NoSnap /\ a \in E2T
    BY <1>1 DEF IInv, OpInv, Load, At, ReadyFor, Op, RmwKinds
  <2>4. snap'[p] = [NoSnap EXCEPT ![a] = records[a]]  BY <1>2, <2>3 DEF IInv, TypeOK
  <2>5. \A b \in E2T : snap'[p][b] = IF b = a THEN records[a] ELSE NoInst
    BY <2>4 DEF NoSnap
  <2> QED  BY <1>1, <1>2, <2>2, <2>3, <2>5 DEF AtomicInv, Held
<1>3. CASE \E r \in {"ok", "error"} : Finish(p, r)  BY <1>1, <1>3, FinishAtomic
<1> QED  BY <1>2, <1>3 DEF Load

LEMMA LoadAllAtomic ==
  ASSUME IInv, AtomicInv, NEW p \in Proc, LoadAll(p)  PROVE AtomicInv'
<1> DEFINE all == [a \in E2T |-> IF Listed(a) THEN records[a] ELSE NoInst]
<1>1. mux = NoProc /\ UNCHANGED <<records, round>>  BY DEF LoadAll, CanLock, db
<1>2. CASE snap' = [snap EXCEPT ![p] = all] /\ Goto(p, "clearing") /\ UNCHANGED op
  <2>1. \A q \in Proc : pc[q] \notin {"update", "clearing"}
    BY <1>1, ConstantsOK DEF IInv, LockInv, LockedPc
  <2>2. \A q \in Proc : /\ pc'[q] # "update"
                        /\ pc'[q] = "clearing" => q = p
    BY <1>2, <2>1 DEF Goto, IInv, TypeOK
  <2>3. snap'[p] = all  BY <1>2 DEF IInv, TypeOK
  <2> QED  BY <1>1, <1>2, <2>2, <2>3 DEF AtomicInv, Held
<1>3. CASE \E r \in {"ok", "error"} : Finish(p, r)  BY <1>1, <1>3, FinishAtomic
<1> QED  BY <1>2, <1>3 DEF LoadAll

LEMMA SaveClearedAtomic ==
  ASSUME IInv, AtomicInv, NEW p \in Proc, SaveCleared(p)  PROVE AtomicInv'
<1>1. pc[p] = "clearing" /\ mux = p /\ UNCHANGED round
  BY DEF SaveCleared, IInv, LockInv, LockedPc
<1>2. PICK a \in E2T :
        LET new  == [snap[p][a] EXCEPT !.rans = NoRans]
            rest == [snap[p] EXCEPT ![a] = NoInst]
        IN /\ SaveRecord(a, new) \/ MaybeSaveRecord(a, new)
           /\ \/ Finish(p, "ok")
              \/ snap' = [snap EXCEPT ![p] = rest] /\ UNCHANGED <<pc, op>>
  BY DEF SaveCleared
<1>3. \A b \in E2T : b # a => records'[b] = records[b]
  BY <1>2 DEF SaveRecord, MaybeSaveRecord, IInv, TypeOK
<1>4. CASE snap' = [snap EXCEPT ![p] = [snap[p] EXCEPT ![a] = NoInst]] /\ UNCHANGED <<pc, op>>
  <2>1. \A q \in Proc : pc[q] \in {"update", "clearing"} => q = p
    BY <1>1, ConstantsOK DEF IInv, LockInv, LockedPc
  <2>2. \A b \in E2T : snap'[p][b] # NoInst => b # a /\ snap'[p][b] = snap[p][b]
    BY <1>4 DEF IInv, TypeOK
  <2> QED  BY <1>1, <1>3, <1>4, <2>1, <2>2 DEF AtomicInv, Held
<1>5. CASE Finish(p, "ok")  BY <1>1, <1>5, FinishAtomic
<1> QED  BY <1>2, <1>4, <1>5

LEMMA OtherAtomic ==
  ASSUME IInv, AtomicInv, "Shutdown" \notin Kinds,
         \/ \E p \in Proc : \/ SaveUpdate(p) \/ SaveNew(p) \/ GetAddrs(p)
                            \/ SaveAddrs(p) \/ Return(p) \/ \E o \in Op : Call(p, o)
         \/ Tick \/ Crash \/ Boot \/ Rest \/ UNCHANGED vars
  PROVE  AtomicInv'
<1>1. ASSUME NEW p \in Proc, SaveUpdate(p) \/ SaveAddrs(p)  PROVE AtomicInv'
  <2>1. mux = p /\ UNCHANGED round /\ \E r \in {"ok", "error"} : Finish(p, r)
    BY <1>1 DEF SaveUpdate, SaveAddrs, IInv, LockInv, LockedPc
  <2> QED  BY <2>1, FinishAtomic
<1>2. ASSUME NEW p \in Proc, SaveNew(p) \/ GetAddrs(p)  PROVE AtomicInv'
  <2>1. mux \in {p, NoProc} /\ UNCHANGED round
    BY <1>2 DEF SaveNew, PutRecord, CanLock, GetAddrs, IInv, LockInv, LockedPc
  <2>2. CASE Finish(p, "error")  BY <2>1, <2>2, FinishAtomic
  <2>3. CASE UNCHANGED op /\ \E l \in {"getAddrs", "saveAddrs"} : Goto(p, l)
    <3>1. \A q \in Proc : q # p => pc[q] \notin {"update", "clearing"}
      BY <2>1, ConstantsOK DEF IInv, LockInv, LockedPc
    <3>2. \A q \in Proc : pc'[q] \notin {"update", "clearing"}
      BY <2>3, <3>1 DEF Goto, IInv, TypeOK
    <3> QED  BY <2>1, <2>3, <3>2 DEF AtomicInv, Held
  <2> QED  BY <1>2, <2>2, <2>3 DEF SaveNew, PutRecord, GetAddrs
<1>3. ASSUME NEW p \in Proc, Return(p) \/ \E o \in Op : Call(p, o)  PROVE AtomicInv'
  <2>1. /\ \E l \in {"idle", "call"} : pc' = [pc EXCEPT ![p] = l]
        /\ \E o : o.kind # "Shutdown" /\ op' = [op EXCEPT ![p] = o]
        /\ UNCHANGED <<records, snap>>
    BY <1>3 DEF Return, Call, Goto, db, NoOp
  <2>2. round' \in {round, NoRound}  BY <1>3 DEF Return, Call
  <2>3. \A a \in E2T : round'[a].left = 0  BY <2>2 DEF AtomicInv, NoRound
  <2> QED  BY <2>1, <2>3 DEF AtomicInv, Held, IInv, TypeOK
<1>4. CASE Tick \/ Rest \/ UNCHANGED vars
  <2>1. UNCHANGED <<records, pc, op, snap, round>>
    BY <1>4 DEF Tick, Rest, vars, db, threads
  <2> QED  BY <2>1 DEF AtomicInv, Held
<1>5. CASE Crash  BY <1>5 DEF Crash, AtomicInv, Held, NoOp, NoRound
<1>6. CASE Boot
  <2>1. \A p \in Proc : pc'[p] = "idle"  BY <1>6 DEF Boot, threads, IInv, BootInv
  <2>2. UNCHANGED <<op, round>>  BY <1>6 DEF Boot, threads
  <2> QED  BY <2>1, <2>2 DEF AtomicInv, Held
<1> QED  BY <1>1, <1>2, <1>3, <1>4, <1>5, <1>6

rvars == <<records, addresses, clock>>

\* what is saved replaces the value the record has at that moment
LEMMA SaveUpdateMaps ==
  ASSUME IInv, AtomicInv, NEW p \in Proc, SaveUpdate(p)
  PROVE  Registry!RegNext \/ UNCHANGED rvars
<1> DEFINE o == op[p]
           a == o.addr
           i == records[a]
<1>1. pc[p] = "update" /\ UNCHANGED <<addresses, clock>>  BY DEF SaveUpdate
<1>2. o \in Op /\ o.kind \in RmwKinds /\ a \in E2T /\ snap[p][a] \in Instance
  BY <1>1, UpdateSavesInstance
<1>3. snap[p][a] = i /\ i # NoInst /\ i \in Instance
  BY <1>1, <1>2, ConstantsOK DEF AtomicInv, Held
<1>4. ~Ignores(o, i)  BY <1>1, <1>3 DEF AtomicInv
<1>5. UNCHANGED records \/ records' = [records EXCEPT ![a] = Updated(o, i)]
  BY <1>3 DEF SaveUpdate, SaveRecord, MaybeSaveRecord
<1>6. CASE records' = [records EXCEPT ![a] = Updated(o, i)]
  <2>1. Registry!Exists(a)  BY <1>3 DEF Registry!Exists
  <2>2. CASE o.kind = "AddRan"
    <3>1. o.ran \in Ran  BY <1>2, <2>2 DEF Op
    <3>2. Updated(o, i) = [i EXCEPT !.rans[o.ran] = @ + 1]  BY <2>2 DEF Updated
    <3>3. records' = [records EXCEPT ![a].rans[o.ran] = @ + 1]  BY <1>6, <3>2
    <3>4. Registry!AddRan(a, o.ran)  BY <1>1, <2>1, <3>3 DEF Registry!AddRan
    <3> QED  BY <1>2, <3>1, <3>4 DEF Registry!RegNext
  <2>3. CASE o.kind = "RemoveRan"
    <3>1. o.ran \in Ran  BY <1>2, <2>3 DEF Op
    <3>2. Updated(o, i) = [i EXCEPT !.rans[o.ran] = 0]  BY <2>3 DEF Updated, WithoutRan
    <3>3. records' = [records EXCEPT ![a].rans[o.ran] = 0]  BY <1>6, <3>2
    <3>4. Registry!RemoveRan(a, o.ran)  BY <1>1, <2>1, <3>3 DEF Registry!RemoveRan
    <3> QED  BY <1>2, <3>1, <3>4 DEF Registry!RegNext
  <2>4. CASE o.kind = "Reset"
    <3>1. Updated(o, i) = [i EXCEPT !.ts = clock]  BY <2>4 DEF Updated
    <3>2. records' = [records EXCEPT ![a].ts = clock]  BY <1>6, <3>1
    <3>3. i.state # "ToBeDeleted"  BY <1>4, <2>4 DEF Ignores
    <3>4. Registry!KeepAlive(a)  BY <1>1, <2>1, <3>2, <3>3 DEF Registry!KeepAlive
    <3> QED  BY <1>2, <3>4 DEF Registry!RegNext
  <2>5. CASE o.kind = "SetState"
    <3>1. o.from \in States /\ o.to \in States  BY <1>2, <2>5 DEF Op
    <3>2. Updated(o, i) = [i EXCEPT !.state = o.to,
                                    !.ts = IF o.to = "Active" THEN clock ELSE @]
      BY <2>5 DEF Updated
    <3>3. records' = [records EXCEPT ![a].state = o.to,
                                     ![a].ts = IF o.to = "Active" THEN clock ELSE @]
      BY <1>2, <1>3, <1>6, <3>2 DEF IInv, TypeOK, Instance
    <3>4. i.state = o.from  BY <1>4, <2>5 DEF Ignores
    <3>5. Registry!SetState(a, o.from, o.to)
      BY <1>1, <2>1, <3>3, <3>4 DEF Registry!SetState
    <3> QED  BY <1>2, <3>1, <3>5 DEF Registry!RegNext, States
  <2> QED  BY <1>2, <2>2, <2>3, <2>4, <2>5 DEF RmwKinds
<1> QED  BY <1>1, <1>5, <1>6 DEF rvars

LEMMA SaveClearedMaps ==
  ASSUME IInv, AtomicInv, NEW p \in Proc, SaveCleared(p)
  PROVE  Registry!RegNext \/ UNCHANGED rvars
<1>1. pc[p] = "clearing" /\ UNCHANGED <<addresses, clock>>  BY DEF SaveCleared
<1>2. PICK a \in E2T :
        /\ snap[p][a] # NoInst
        /\ \/ UNCHANGED records
           \/ records' = [records EXCEPT ![a] = [snap[p][a] EXCEPT !.rans = NoRans]]
  BY DEF SaveCleared, SaveRecord, MaybeSaveRecord
<1>3. snap[p][a] = records[a]  BY <1>1, <1>2 DEF AtomicInv, Held
<1>4. CASE records' = [records EXCEPT ![a] = [snap[p][a] EXCEPT !.rans = NoRans]]
  <2>1. records' = [records EXCEPT ![a].rans = NoRans]  BY <1>3, <1>4
  <2>2. Registry!ClearRans(a)
    BY <1>1, <1>2, <1>3, <2>1 DEF Registry!ClearRans, Registry!Exists, NoRans
  <2> QED  BY <2>2 DEF Registry!RegNext
<1> QED  BY <1>1, <1>2, <1>4 DEF rvars

LEMMA SaveNewMaps ==
  ASSUME IInv, NEW p \in Proc, SaveNew(p)
  PROVE  Registry!RegNext \/ UNCHANGED rvars
<1> DEFINE a == op[p].addr
<1>1. a \in E2T  BY DEF SaveNew, At, IInv, OpInv, ReadyFor, Op
<1>2. /\ UNCHANGED <<addresses, clock>>
      /\ UNCHANGED records \/ records' = [records EXCEPT ![a] = NewE2TInstance]
  BY DEF SaveNew, PutRecord, SaveRecord, MaybeSaveRecord
<1>3. CASE records' = [records EXCEPT ![a] = NewE2TInstance]
  <2>1. Registry!Register(a)
    BY <1>2, <1>3 DEF Registry!Register, NewE2TInstance, NoRans
  <2> QED  BY <1>1, <2>1 DEF Registry!RegNext
<1> QED  BY <1>2, <1>3 DEF rvars

LEMMA SaveAddrsMaps ==
  ASSUME IInv, TornInv, AtomicInv, NEW p \in Proc, SaveAddrs(p)
  PROVE  Registry!RegNext \/ UNCHANGED rvars
<1> DEFINE a == op[p].addr
<1>1. pc[p] = "saveAddrs" /\ UNCHANGED <<records, clock>>  BY DEF SaveAddrs
<1>2. a \in E2T /\ op[p].kind = "Add"
  BY <1>1 DEF IInv, OpInv, ReadyFor, Op, AtomicInv
<1>3. asnap[p] = AddrList  BY <1>1 DEF TornInv, ListingInv
<1>4. AddrList = Registry!Directory
  BY DEF AddrList, Registry!Directory, Registry!NoneListed
<1>5. NewAddrs(p) = [Registry!Directory EXCEPT ![a] = @ + 1]
  BY <1>2, <1>3, <1>4 DEF NewAddrs
<1>6. CASE addresses' = NewAddrs(p)
  <2>1. Registry!List(a)  BY <1>1, <1>5, <1>6 DEF Registry!List
  <2> QED  BY <1>2, <2>1 DEF Registry!RegNext
<1>7. CASE UNCHANGED addresses  BY <1>1, <1>7 DEF rvars
<1> QED  BY <1>6, <1>7 DEF SaveAddrs

LEMMA BootMaps == ASSUME Boot PROVE Registry!RegNext
<1>1. PICK S \in SUBSET {a \in E2T : /\ Listed(a) /\ records[a] # NoInst
                                     /\ records[a].state = "Active"} :
        records' = [a \in E2T |-> IF a \in S THEN [records[a] EXCEPT !.ts = clock]
                                  ELSE records[a]]
  BY DEF Boot
<1>2. UNCHANGED <<addresses, clock>>  BY DEF Boot
<1>3. S \in SUBSET {a \in E2T : Registry!Exists(a) /\ records[a].state = "Active"}
  BY DEF Registry!Exists
<1>4. Registry!BootReset  BY <1>1, <1>2, <1>3 DEF Registry!BootReset
<1> QED  BY <1>4 DEF Registry!RegNext

LEMMA StepMaps ==
  ASSUME IInv, TornInv, AtomicInv, "Shutdown" \notin Kinds, [Next]_vars
  PROVE  Registry!RegNext \/ UNCHANGED rvars
<1>1. ASSUME NEW p \in Proc, Acquire(p)
      PROVE  Registry!RegNext \/ UNCHANGED rvars
  <2>1. Load(p) \/ LoadAll(p) => UNCHANGED rvars  BY DEF Load, LoadAll, db, rvars
  <2> QED  BY <1>1, <2>1, SaveNewMaps, NoShutdownSteps DEF Acquire
<1>2. ASSUME NEW p \in Proc, Continue(p)
      PROVE  Registry!RegNext \/ UNCHANGED rvars
  <2>1. GetAddrs(p) \/ Return(p) => UNCHANGED rvars  BY DEF GetAddrs, Return, db, rvars
  <2> QED
    BY <1>2, <2>1, SaveUpdateMaps, SaveClearedMaps, SaveAddrsMaps, NoShutdownSteps
    DEF Continue
<1>3. ASSUME NEW p \in Proc, NEW o \in Op, Call(p, o)  PROVE UNCHANGED rvars
  BY <1>3 DEF Call, db, rvars
<1>4. ~ReadForShutdown /\ \A a \in E2T : ~NextInstance(a)  BY NoRoundSteps
<1>5. Tick => Registry!RegNext  BY DEF Tick, db, Registry!Advance, Registry!RegNext
<1>6. Crash \/ Rest \/ UNCHANGED vars => UNCHANGED rvars
  BY DEF Crash, Rest, vars, db, rvars
<1> QED  BY <1>1, <1>2, <1>3, <1>4, <1>5, <1>6, BootMaps DEF Next

\* Without the worker's unlocked save, E2TInstancesManager implements the
\* registry in which every operation acts at one instant on the record's
\* current value: each save is one abstract operation, and the reads, the
\* failed calls that wrote nothing and the crashes are invisible.
THEOREM RegistryIsImplemented ==
  ASSUME "Shutdown" \notin Kinds
  PROVE  Spec => ImplementsRegistry
<1>1. Init => AtomicInv /\ Registry!RegInit
  BY DEF Init, AtomicInv, Held, NoOp, NoSnap, NoRound, Registry!RegInit
<1>2. IInv /\ AtomicInv /\ [Next]_vars => AtomicInv'
  <2> SUFFICES ASSUME IInv, AtomicInv, [Next]_vars PROVE AtomicInv'
    OBVIOUS
  <2>1. ASSUME NEW p \in Proc, Acquire(p) \/ Continue(p)  PROVE AtomicInv'
    BY <2>1, LoadAtomic, LoadAllAtomic, SaveClearedAtomic, OtherAtomic, NoShutdownSteps
    DEF Acquire, Continue
  <2>2. ~ReadForShutdown /\ \A a \in E2T : ~NextInstance(a)  BY NoRoundSteps
  <2> QED  BY <2>1, <2>2, OtherAtomic DEF Next
<1>3. IInv /\ TornInv /\ AtomicInv /\ [Next]_vars => [Registry!RegNext]_(Registry!rvars)
  BY StepMaps DEF rvars, Registry!rvars
<1> QED
  BY <1>1, <1>2, <1>3, TornInvariance, PTL DEF Spec, ImplementsRegistry, Registry!RegSpec

=============================================================================
