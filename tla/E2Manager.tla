------------------------------ MODULE E2Manager ------------------------------
(***************************************************************************)
(* The handlers of the E2 Manager over the R-NIB: RAN records (nodebs), the*)
(* list of RAN identities, and the registry of E2Ts.                       *)
(*                                                                         *)
(*   handlers/rmrmsghandlers/   E2_SETUP, lost connection, E2_TERM_INIT    *)
(*   handlers/httpmsghandlers/  the red button, the gNB update             *)
(*   managers/                  association, disconnection, shutdown       *)
(*                                                                         *)
(* Every message and HTTP request has a goroutine of its own (an element   *)
(* of Proc) and the keep-alive worker has one.  A step is one database     *)
(* call; nb, todo and copies are what a goroutine read earlier and will    *)
(* write, or act on, later: nothing locks a nodeb.  The operations of      *)
(* E2TInstancesManager are the actions of E2TRegistry, which E2TInstances  *)
(* implements as long as the worker marks nothing.  The mark takes no lock *)
(* and replaces the record with the worker's copy; that it can fall        *)
(* between the read and the write of one of these operations is the        *)
(* subject of E2TInstances and is not repeated here.                       *)
(***************************************************************************)
EXTENDS Naturals, FiniteSets

CONSTANTS
  E2T, Ran, Proc,
  Worker,                  \* the keep-alive worker, a member of Proc
  NoInst, NoAddrs,         \* as in E2TRegistry
  NoNodeb, NoE2T, NoRan,   \* no RAN record, no association, no RAN
  Kinds,                   \* the requests that may arrive
  MaxCalls,                \* bound on the requests, by how far they overlap
  MaxFaults, MaxCut        \* bounds on failed calls and interrupted requests

AllKinds == {"Setup", "Lost", "NewE2T", "TermInit", "RedButton", "UpdateGnb", "Shutdown"}
\* how far requests overlap: not at all, about different RANs only, about the
\* same RAN but without the handlers that save a nodeb as they read it, or any way
Overlaps == {"none", "distinct", "fresh", "any"}

Status == {"CONNECTED", "DISCONNECTED", "SHUTTING_DOWN", "SHUT_DOWN"}
Nodeb == [status: Status, assoc: E2T \cup {NoE2T}]
RanBag == [Ran -> Nat]
Instance == [rans: RanBag, state: {"Active", "ToBeDeleted"}, ts: Nat, dts: Nat]

ASSUME ConstantsOK ==
  /\ Worker \in Proc /\ NoE2T \notin E2T /\ NoRan \notin Ran
  /\ NoInst \notin Instance /\ NoNodeb \notin Nodeb /\ NoAddrs \notin [E2T -> Nat]
  /\ Kinds \subseteq AllKinds /\ MaxCalls \in [Overlaps -> Nat]
  /\ IsFiniteSet(E2T) /\ IsFiniteSet(Proc)
  /\ {MaxFaults, MaxCut} \subseteq Nat

VARIABLES
  reg, dir,    \* R-NIB: E2T records and E2T addresses, see E2TRegistry
  nodebs, ids, \* R-NIB: RAN records, and the list of RAN identities
  pc, job,     \* per goroutine: the next database call, and the request
  nb, todo,    \* per goroutine: a nodeb it read, the RANs still to handle
  copies,      \* the worker's copies of the E2T records it found expired
  calls,       \* requests so far
  overlap,     \* the furthest overlap of requests so far
  faults,      \* failed calls so far
  cut          \* requests that a crash has interrupted

Registry == INSTANCE E2TRegistry WITH now <- 0

db == <<reg, dir, nodebs, ids>>
threads == <<pc, job, nb, todo>>
vars == <<reg, dir, nodebs, ids, pc, job, nb, todo, copies, calls, overlap, faults, cut>>

NoRans == [r \in Ran |-> 0]
NoCopies == [a \in E2T |-> NoInst]
NoJob == [kind |-> "None", addr |-> NoE2T, ran |-> NoRan, updated |-> FALSE]
Job == [kind: AllKinds \cup {"None", "ForceShutDown", "ShuttingDown", "ShutDown"},
        addr: E2T \cup {NoE2T}, ran: Ran \cup {NoRan}, updated: BOOLEAN]
Pc == {"idle", "lookup", "saveNew", "addMember", "associate", "addRan",
       "fetch", "down", "dissociate", "clearAssoc", "removeRan",
       "register", "list", "listRans", "redGet", "redPut", "clearRans",
       "writeBack", "mark", "getNodeb", "putNodeb", "unlist"}

TypeOK ==
  /\ reg \in [E2T -> Instance \cup {NoInst}] /\ dir \in [E2T -> Nat] \cup {NoAddrs}
  /\ nodebs \in [Ran -> Nodeb \cup {NoNodeb}] /\ ids \subseteq Ran
  /\ pc \in [Proc -> Pc] /\ job \in [Proc -> Job]
  /\ nb \in [Proc -> Nodeb \cup {NoNodeb}] /\ todo \in [Proc -> RanBag]
  /\ copies \in [E2T -> Instance \cup {NoInst}]
  /\ overlap \in Overlaps /\ calls \in 0..MaxCalls[overlap]
  /\ faults \in 0..MaxFaults /\ cut \in 0..MaxCut

Init ==
  /\ reg = NoCopies /\ dir = NoAddrs
  /\ nodebs = [r \in Ran |-> NoNodeb] /\ ids = {}
  /\ pc = [p \in Proc |-> "idle"] /\ job = [p \in Proc |-> NoJob]
  /\ nb = [p \in Proc |-> NoNodeb] /\ todo = [p \in Proc |-> NoRans]
  /\ copies = NoCopies
  /\ calls = 0 /\ overlap = "none" /\ faults = 0 /\ cut = 0
-----------------------------------------------------------------------------
(* Helpers *)

\* a database or routing-manager call fails; a failed write may have applied
Fault == faults < MaxFaults /\ faults' = faults + 1
Put(r, n) == nodebs' = [nodebs EXCEPT ![r] = n]
MaybePut(r, n) == Put(r, n) \/ UNCHANGED nodebs

Step(p, l, j, n, t) ==
  /\ pc' = [pc EXCEPT ![p] = l] /\ job' = [job EXCEPT ![p] = j]
  /\ nb' = [nb EXCEPT ![p] = n] /\ todo' = [todo EXCEPT ![p] = t]
End(p) == Step(p, "idle", NoJob, NoNodeb, NoRans)
\* a write fails: it is given up or, after a connection error, tried again
Fails(p) == Fault /\ (End(p) \/ UNCHANGED threads)
Goto(p, l) == Step(p, l, job[p], nb[p], todo[p])

\* E2TInstancesManager.mux is held between the two writes of a registration
\* and of a removal
MutexFree == \A q \in Proc : pc[q] \notin {"list", "unlist"}

Scope(j) == IF j.kind \in {"Setup", "Lost", "UpdateGnb"} THEN {j.ran} ELSE Ran

Conflicts(scope) == {q \in Proc : pc[q] # "idle" /\ Scope(job[q]) \cap scope # {}}
WritesBack == {"Lost", "TermInit", "UpdateGnb"}

\* one more request, about the RANs of scope
Arrives(k, scope) ==
  /\ overlap' =
       IF overlap = "any" \/ \E q \in Conflicts(scope) : {k, job[q].kind} \cap WritesBack # {}
       THEN "any"
       ELSE IF overlap = "fresh" \/ Conflicts(scope) # {} THEN "fresh"
       ELSE IF \E q \in Proc : pc[q] # "idle" THEN "distinct" ELSE overlap
  /\ calls < MaxCalls[overlap'] /\ calls' = calls + 1

Start(p, k, l, j, n, t) ==
  /\ k \in Kinds /\ pc[p] = "idle" /\ Arrives(k, Scope(j))
  /\ Step(p, l, j, n, t)
  /\ UNCHANGED <<db, copies, faults, cut>>

Request(k, a, r) == [NoJob EXCEPT !.kind = k, !.addr = a, !.ran = r]
-----------------------------------------------------------------------------
(* E2_SETUP: Handle, handleNewRan, handleExistingRan, AssociateRan         *)

NewNodeb(a) == [status |-> "CONNECTED", assoc |-> a]

\* the E2T must be registered; its state is not looked at
Setup(p, a, r) ==
  reg[a] # NoInst /\ Start(p, "Setup", "lookup", Request("Setup", a, r), NoNodeb, NoRans)

RefusesSetup(n) == n.status = "SHUTTING_DOWN"

NewRanListedOnly(p) == Step(p, "addRan", job[p], NewNodeb(job[p].addr), NoRans) \* mutant: nothing saved
NewRan(p) == Step(p, "saveNew", job[p], NewNodeb(job[p].addr), NoRans)

LookupRan(p) ==
  /\ pc[p] = "lookup"
  /\ LET n == nodebs[job[p].ran]
     IN \/ /\ UNCHANGED faults
           /\ \/ n = NoNodeb /\ NewRan(p)
              \/ n # NoNodeb /\ RefusesSetup(n) /\ End(p)
              \/ n # NoNodeb /\ ~RefusesSetup(n) /\ Step(p, "associate", job[p], n, NoRans)
        \/ Fault /\ End(p)
  /\ UNCHANGED <<db, copies, calls, overlap, cut>>

\* SaveNodeb: the record, then the member of the list of identities; what is
\* tried again after a connection error is the whole of it
SaveNewUnlisted(p) == \* mutant: the list of identities is forgotten
  /\ pc[p] = "saveNew"
  /\ Put(job[p].ran, nb[p]) /\ Goto(p, "associate")
  /\ UNCHANGED <<reg, dir, ids, copies, calls, overlap, faults, cut>>
SaveNew(p) ==
  /\ pc[p] = "saveNew"
  /\ \/ Put(job[p].ran, nb[p]) /\ Goto(p, "addMember") /\ UNCHANGED faults
     \/ Fails(p) /\ MaybePut(job[p].ran, nb[p])
  /\ UNCHANGED <<reg, dir, ids, copies, calls, overlap, cut>>

AddMember(p) ==
  /\ pc[p] = "addMember"
  /\ \/ ids' = ids \cup {job[p].ran} /\ Goto(p, "associate") /\ UNCHANGED faults
     \/ /\ Fault /\ (End(p) \/ Goto(p, "saveNew"))
        /\ ids' \in {ids, ids \cup {job[p].ran}}
  /\ UNCHANGED <<reg, dir, nodebs, copies, calls, overlap, cut>>

\* associateRanAndUpdateNodeb: the routing manager first; if it refuses, the
\* nodeb is saved as disconnected and the RAN gets E2_SETUP_FAILURE
Associate(p) ==
  /\ pc[p] = "associate"
  /\ LET r   == job[p].ran
         up  == [status |-> "CONNECTED", assoc |-> job[p].addr]
         off == [nb[p] EXCEPT !.status = "DISCONNECTED"]
     IN \/ Put(r, up) /\ Goto(p, "addRan") /\ UNCHANGED faults
        \/ Fails(p) /\ MaybePut(r, up)
        \/ Fault /\ MaybePut(r, off) /\ End(p)
  /\ UNCHANGED <<reg, dir, ids, copies, calls, overlap, cut>>

AddRan(p) ==
  /\ pc[p] = "addRan" /\ MutexFree
  /\ LET a == job[p].addr
         r == job[p].ran
     IN \/ Registry!AddRan(a, r) /\ UNCHANGED faults
        \/ reg[a] = NoInst /\ UNCHANGED <<reg, dir, faults>>
        \/ Fault /\ (Registry!AddRan(a, r) \/ UNCHANGED <<reg, dir>>)
  /\ End(p)
  /\ UNCHANGED <<nodebs, ids, copies, calls, overlap, cut>>
-----------------------------------------------------------------------------
(* Lost connection and E2_TERM_INIT of a known E2T: DisconnectRan for each *)
(* RAN of todo.  An error other than "not found" ends the loop.            *)

Lost(p, r) ==
  Start(p, "Lost", "fetch", Request("Lost", NoE2T, r), NoNodeb, [NoRans EXCEPT ![r] = 1])

TermInit(p, a) ==
  /\ reg[a] # NoInst /\ reg[a].state = "Active" /\ reg[a].rans # NoRans
  /\ Start(p, "TermInit", "fetch", Request("TermInit", NoE2T, NoRan), NoNodeb, reg[a].rans)

HandledTwice(p, r) == [todo[p] EXCEPT ![r] = @ - 2] \* mutant: two entries at once
NeverHandled(p, r) == todo[p]                       \* mutant: the loop does not advance
Handled(p, r) == [todo[p] EXCEPT ![r] = @ - 1]
NextRan(p, r) ==
  IF Handled(p, r) = NoRans THEN End(p)
  ELSE Step(p, "fetch", Request(job[p].kind, NoE2T, NoRan), NoNodeb, Handled(p, r))

Fetch(p) ==
  /\ pc[p] = "fetch"
  /\ \/ \E r \in Ran :
          /\ todo[p][r] > 0 /\ UNCHANGED faults
          /\ IF nodebs[r] = NoNodeb \/ (nodebs[r] # NoNodeb /\ nodebs[r].status = "SHUT_DOWN")
             THEN NextRan(p, r)
             ELSE Step(p, "down", Request(job[p].kind, nodebs[r].assoc, r), nodebs[r], todo[p])
     \/ Fault /\ End(p)
  /\ UNCHANGED <<db, copies, calls, overlap, cut>>

Down(p) ==
  /\ pc[p] = "down"
  /\ LET r    == job[p].ran
         off  == [nb[p] EXCEPT !.status = "DISCONNECTED"]
         shut == [nb[p] EXCEPT !.status = "SHUT_DOWN"]
         closing == nb[p].status = "SHUTTING_DOWN"
     IN \/ closing /\ Put(r, shut) /\ NextRan(p, r) /\ UNCHANGED faults
        \/ ~closing /\ Put(r, off) /\ Goto(p, "dissociate") /\ UNCHANGED faults
        \/ Fails(p) /\ MaybePut(r, IF closing THEN shut ELSE off)
  /\ UNCHANGED <<reg, dir, ids, copies, calls, overlap, cut>>

\* DissociateRan reads the nodeb again, saves it without its association, then
\* removes the RAN from the E2T that the FIRST read found
Dissociate(p) ==
  /\ pc[p] = "dissociate"
  /\ \/ Step(p, "clearAssoc", job[p], nodebs[job[p].ran], todo[p]) /\ UNCHANGED faults
     \/ Fault /\ End(p)
  /\ UNCHANGED <<db, copies, calls, overlap, cut>>

ClearAssoc(p) ==
  /\ pc[p] = "clearAssoc"
  /\ LET free == [nb[p] EXCEPT !.assoc = NoE2T]
     IN \/ Put(job[p].ran, free) /\ Goto(p, "removeRan") /\ UNCHANGED faults
        \/ Fails(p) /\ MaybePut(job[p].ran, free)
  /\ UNCHANGED <<reg, dir, ids, copies, calls, overlap, cut>>

\* an empty address fails the validation of the key
RemoveRan(p) ==
  /\ pc[p] = "removeRan" /\ MutexFree
  /\ LET a == job[p].addr
         r == job[p].ran
     IN \/ a # NoE2T /\ Registry!RemoveRan(a, r) /\ NextRan(p, r) /\ UNCHANGED faults
        \/ /\ a = NoE2T \/ (a # NoE2T /\ reg[a] = NoInst)
           /\ End(p) /\ UNCHANGED <<reg, dir, faults>>
        \/ /\ a # NoE2T /\ Fault /\ End(p)
           /\ Registry!RemoveRan(a, r) \/ UNCHANGED <<reg, dir>>
  /\ UNCHANGED <<nodebs, ids, copies, calls, overlap, cut>>
-----------------------------------------------------------------------------
(* E2_TERM_INIT of an unknown E2T: AddE2TInstance, the record then the list *)

NewE2T(p, a) ==
  /\ reg[a] = NoInst
  /\ Start(p, "NewE2T", "register", Request("NewE2T", a, NoRan), NoNodeb, NoRans)

Register(p) ==
  /\ pc[p] = "register" /\ MutexFree
  /\ \/ Registry!Register(job[p].addr) /\ Goto(p, "list") /\ UNCHANGED faults
     \/ Fault /\ (Registry!Register(job[p].addr) \/ UNCHANGED <<reg, dir>>) /\ End(p)
  /\ UNCHANGED <<nodebs, ids, copies, calls, overlap, cut>>

List(p) ==
  /\ pc[p] = "list" /\ End(p)
  /\ \/ Registry!List(job[p].addr) /\ UNCHANGED faults
     \/ Fault /\ (Registry!List(job[p].addr) \/ UNCHANGED <<reg, dir>>)
  /\ UNCHANGED <<nodebs, ids, copies, calls, overlap, cut>>
-----------------------------------------------------------------------------
(* The red button, PUT /nodeb/shutdown: a pass that sets every RAN to      *)
(* SHUTTING_DOWN, the RAN lists cleared, a sleep, and a pass to SHUT_DOWN; *)
(* without any E2T, one pass straight to SHUT_DOWN.                        *)

RedButton(p) ==
  LET pass == IF Registry!Directory = Registry!NoneListed THEN "ForceShutDown"
              ELSE "ShuttingDown"
  IN Start(p, "RedButton", "listRans", Request(pass, NoE2T, NoRan), NoNodeb, NoRans)

\* GetListNodebIds; the sleep before the second pass is a wait at this step
ListRans(p) ==
  /\ pc[p] = "listRans"
  /\ \/ Step(p, "redGet", job[p], NoNodeb, [r \in Ran |-> IF r \in ids THEN 1 ELSE 0])
        /\ UNCHANGED faults
     \/ Fault /\ End(p)
  /\ UNCHANGED <<db, copies, calls, overlap, cut>>

\* the callback of each pass: which RANs it leaves alone, what it saves
PassSkipsDisconnected(k, n) == \* mutant: the first pass leaves more RANs alone
  \/ k = "ShuttingDown" /\ n.status \in {"SHUT_DOWN", "DISCONNECTED"}
  \/ k = "ShutDown" /\ n.status # "SHUTTING_DOWN"
PassSkips(k, n) ==
  \/ k = "ShuttingDown" /\ n.status = "SHUT_DOWN"
  \/ k = "ShutDown" /\ n.status # "SHUTTING_DOWN"
PassKeepsAssociation(k, n) == \* mutant: resetAssociatedE2TAddress is false
  [n EXCEPT !.status = IF k = "ShuttingDown" THEN "SHUTTING_DOWN" ELSE "SHUT_DOWN"]
PassSaves(k, n) ==
  CASE k = "ForceShutDown" -> [status |-> "SHUT_DOWN", assoc |-> NoE2T]
    [] k = "ShuttingDown"  -> [status |-> "SHUTTING_DOWN", assoc |-> NoE2T]
    [] k = "ShutDown"      -> [n EXCEPT !.status = "SHUT_DOWN"]

RedGet(p) ==
  /\ pc[p] = "redGet" /\ todo[p] # NoRans
  /\ \/ \E r \in Ran :
          /\ todo[p][r] > 0 /\ UNCHANGED faults
          /\ IF nodebs[r] = NoNodeb \/ (nodebs[r] # NoNodeb /\ PassSkips(job[p].kind, nodebs[r]))
             THEN Step(p, "redGet", job[p], NoNodeb, Handled(p, r))
             ELSE Step(p, "redPut", [job[p] EXCEPT !.ran = r], nodebs[r], Handled(p, r))
     \/ Fault /\ End(p)
  /\ UNCHANGED <<db, copies, calls, overlap, cut>>

\* updatedAtLeastOnce
NotCounted(j) == [j EXCEPT !.ran = NoRan] \* mutant: never set
Counted(j) == [j EXCEPT !.ran = NoRan, !.updated = TRUE]

RedPut(p) ==
  /\ pc[p] = "redPut"
  /\ LET new == PassSaves(job[p].kind, nb[p])
     IN \/ /\ Put(job[p].ran, new) /\ UNCHANGED faults
           /\ Step(p, "redGet", Counted(job[p]), NoNodeb, todo[p])
        \/ Fails(p) /\ MaybePut(job[p].ran, new)
  /\ UNCHANGED <<reg, dir, ids, copies, calls, overlap, cut>>

PassDone(p) ==
  /\ pc[p] = "redGet" /\ todo[p] = NoRans
  /\ IF job[p].kind = "ShuttingDown" THEN Goto(p, "clearRans") ELSE End(p)
  /\ UNCHANGED <<db, copies, calls, overlap, faults, cut>>

\* ClearRansOfAllE2TInstances under the mutex, passing over a record it fails to
\* save; then SCTP_CLEAR_ALL; then the sleep, unless the first pass has updated
\* nothing.  Failing to read the records or to send the message ends it.
Cleared(S) == [a \in E2T |-> IF a \in S THEN [reg[a] EXCEPT !.rans = NoRans] ELSE reg[a]]

ClearRans(p) ==
  /\ pc[p] = "clearRans" /\ MutexFree
  /\ LET known == {a \in E2T : Registry!Directory[a] > 0 /\ reg[a] # NoInst}
     IN \/ \E unsaved \in SUBSET known :
             /\ reg' = Cleared(known \ unsaved)
             /\ faults' = faults + Cardinality(unsaved) /\ faults' <= MaxFaults
             /\ IF job[p].updated
                THEN Step(p, "listRans", Request("ShutDown", NoE2T, NoRan), NoNodeb, NoRans)
                ELSE End(p)
        \/ Fault /\ reg' \in {reg, Cleared(known)} /\ End(p)
  /\ UNCHANGED <<dir, nodebs, ids, copies, calls, overlap, cut>>
-----------------------------------------------------------------------------
(* PUT /nodeb/{ran}/update reads a nodeb and writes it back with new cells *)

UpdateGnb(p, r) ==
  /\ nodebs[r] # NoNodeb
  /\ Start(p, "UpdateGnb", "writeBack", Request("UpdateGnb", NoE2T, r), nodebs[r], NoRans)

WriteBack(p) ==
  /\ pc[p] = "writeBack"
  /\ \/ Put(job[p].ran, nb[p]) /\ End(p) /\ UNCHANGED faults
     \/ Fails(p) /\ MaybePut(job[p].ran, nb[p])
  /\ UNCHANGED <<reg, dir, ids, copies, calls, overlap, cut>>
-----------------------------------------------------------------------------
(* The keep-alive worker: read all records, shut down the expired ones one *)
(* after the other.  Which of them expire is up to the environment.        *)

Expire(S) ==
  /\ S # {} /\ \A a \in S : Registry!Directory[a] > 0 /\ reg[a] # NoInst
  /\ "Shutdown" \in Kinds /\ pc[Worker] = "idle"
  /\ Arrives("Shutdown", Ran)
  /\ copies' = [a \in E2T |-> IF a \in S THEN reg[a] ELSE NoInst]
  /\ Step(Worker, "mark", Request("Shutdown", NoE2T, NoRan), NoNodeb, NoRans)
  /\ UNCHANGED <<db, faults, cut>>

NextE2T(a) ==
  /\ copies' = [copies EXCEPT ![a] = NoInst]
  /\ IF copies' = NoCopies THEN End(Worker)
     ELSE Step(Worker, "mark", Request("Shutdown", NoE2T, NoRan), NoNodeb, NoRans)

\* markE2tInstanceToBeDeleted saves the worker's copy, without the mutex
Mark ==
  /\ pc[Worker] = "mark"
  /\ \E a \in E2T :
       LET marked == [reg EXCEPT ![a] = [copies[a] EXCEPT !.state = "ToBeDeleted"]]
       IN /\ copies[a] # NoInst
          /\ \/ /\ reg' = marked /\ UNCHANGED <<copies, faults>>
                /\ Step(Worker, "getNodeb", Request("Shutdown", a, NoRan), NoNodeb, copies[a].rans)
             \/ Fault /\ reg' \in {reg, marked} /\ NextE2T(a)
  /\ UNCHANGED <<dir, nodebs, ids, calls, overlap, cut>>

\* clearNodebsAssociation: a RAN that is not found ends the shutdown, any
\* other error of the read passes over the RAN
GetNodeb ==
  /\ pc[Worker] = "getNodeb" /\ todo[Worker] # NoRans
  /\ \E r \in Ran :
       /\ todo[Worker][r] > 0
       /\ LET a == job[Worker].addr
          IN \/ /\ UNCHANGED faults
                /\ IF nodebs[r] = NoNodeb THEN NextE2T(a)
                   ELSE /\ UNCHANGED copies
                        /\ Step(Worker, "putNodeb", Request("Shutdown", a, r), nodebs[r],
                                Handled(Worker, r))
             \/ /\ Fault /\ UNCHANGED copies
                /\ Step(Worker, "getNodeb", job[Worker], NoNodeb, Handled(Worker, r))
  /\ UNCHANGED <<db, calls, overlap, cut>>

DissociatedOnly(n) == [n EXCEPT !.assoc = NoE2T] \* mutant: the status stays
Disconnected(n) == [status |-> "DISCONNECTED", assoc |-> NoE2T]

PutNodeb ==
  /\ pc[Worker] = "putNodeb"
  /\ LET off == Disconnected(nb[Worker])
         a   == job[Worker].addr
         r   == job[Worker].ran
     IN \/ /\ Put(r, off) /\ UNCHANGED <<copies, faults>>
           /\ Step(Worker, "getNodeb", Request("Shutdown", a, NoRan), NoNodeb, todo[Worker])
        \/ Fault /\ MaybePut(r, off) /\ (NextE2T(a) \/ UNCHANGED <<threads, copies>>)
  /\ UNCHANGED <<reg, dir, ids, calls, overlap, cut>>

Unregister ==
  /\ pc[Worker] = "getNodeb" /\ todo[Worker] = NoRans /\ MutexFree
  /\ LET a == job[Worker].addr
     IN \/ Registry!Unregister(a) /\ Goto(Worker, "unlist") /\ UNCHANGED <<copies, faults>>
        \/ Fault /\ (Registry!Unregister(a) \/ UNCHANGED <<reg, dir>>) /\ NextE2T(a)
  /\ UNCHANGED <<nodebs, ids, calls, overlap, cut>>

Unlist ==
  /\ pc[Worker] = "unlist"
  /\ LET a == job[Worker].addr
     IN /\ NextE2T(a)
        /\ \/ Registry!Unlist(a) /\ UNCHANGED faults
           \/ Fault /\ (Registry!Unlist(a) \/ UNCHANGED <<reg, dir>>)
  /\ UNCHANGED <<nodebs, ids, calls, overlap, cut>>
-----------------------------------------------------------------------------
\* only the database survives
Crash ==
  /\ LET interrupted == {p \in Proc : pc[p] # "idle"}
     IN interrupted # {} /\ cut' = cut + Cardinality(interrupted) /\ cut' <= MaxCut
  /\ pc' = [p \in Proc |-> "idle"] /\ job' = [p \in Proc |-> NoJob]
  /\ nb' = [p \in Proc |-> NoNodeb] /\ todo' = [p \in Proc |-> NoRans]
  /\ copies' = NoCopies
  /\ UNCHANGED <<db, calls, overlap, faults>>

\* nothing in progress and nothing arriving: not a deadlock
Rest == (\A p \in Proc : pc[p] = "idle") /\ UNCHANGED vars

Arrive(p) ==
  \/ \E a \in E2T : TermInit(p, a) \/ NewE2T(p, a) \/ \E r \in Ran : Setup(p, a, r)
  \/ \E r \in Ran : Lost(p, r) \/ UpdateGnb(p, r)
  \/ RedButton(p)

Continue(p) ==
  \/ LookupRan(p) \/ SaveNew(p) \/ AddMember(p) \/ Associate(p) \/ AddRan(p)
  \/ Fetch(p) \/ Down(p) \/ Dissociate(p) \/ ClearAssoc(p) \/ RemoveRan(p)
  \/ Register(p) \/ List(p)
  \/ ListRans(p) \/ RedGet(p) \/ RedPut(p) \/ PassDone(p) \/ ClearRans(p)
  \/ WriteBack(p)
ContinueWorker == Mark \/ GetNodeb \/ PutNodeb \/ Unregister \/ Unlist

Next ==
  \/ \E p \in Proc : (p # Worker /\ Arrive(p)) \/ Continue(p)
  \/ \E S \in SUBSET E2T : Expire(S)
  \/ ContinueWorker \/ Crash \/ Rest

Spec == Init /\ [][Next]_vars

\* the Go scheduler runs every goroutine that can run, and the mutex is held
\* for two steps at most and handed to waiters in order
FairSpec == Spec /\ (\A p \in Proc : SF_vars(Continue(p))) /\ SF_vars(ContinueWorker)
-----------------------------------------------------------------------------
(* Properties *)

HasStatus(r, s) == nodebs[r] # NoNodeb /\ nodebs[r].status = s
Busy(r) == \E q \in Proc : pc[q] # "idle" /\ r \in Scope(job[q])

\* A RAN that is being shut down, or has been, is not associated to an E2T:
\* E2_SETUP, the loss of its connection, a restart of its E2T and the update of
\* its cells all write back nodebs they read earlier, the red button decides by
\* the status alone whether it has to clear the association.
ShutDownIsDissociated ==
  \A r \in Ran, s \in {"SHUTTING_DOWN", "SHUT_DOWN"} :
    HasStatus(r, s) => nodebs[r].assoc = NoE2T

\* Every RAN in an E2T's list has a record: clearNodebsAssociation gives up the
\* removal of an E2T for good when one of its RANs is not found.
ListedRanHasNodeb ==
  \A a \in E2T, r \in Ran :
    reg[a] # NoInst => (reg[a].rans[r] > 0 => nodebs[r] # NoNodeb)

\* A RAN stays out of the list of identities, where the red button and the
\* queries look for RANs, only if an error or a crash cut its SaveNodeb short,
\* and no later E2_SETUP of that RAN repairs it.
UnlistedRansBounded ==
  Cardinality({r \in Ran : nodebs[r] # NoNodeb /\ r \notin ids /\ ~Busy(r)})
    <= faults + cut

\* A RAN that no request is working on and that is CONNECTED is associated to an
\* E2T that exists and has the RAN in its list, except for one RAN for each error
\* or interrupted request: association, RAN list and removal of an E2T are
\* written one by one.  It holds as long as requests for a RAN come one at a time.
Anchored(r) ==
  \E a \in E2T : nodebs[r].assoc = a /\ reg[a] # NoInst /\ reg[a].rans[r] > 0

ConnectedIsAnchored ==
  overlap \in {"none", "distinct"} =>
  Cardinality({r \in Ran : HasStatus(r, "CONNECTED") /\ ~Busy(r) /\ ~Anchored(r)})
    <= faults + cut

\* When the red button, alone, reports success every RAN in the list of identities is
\* SHUT_DOWN without association, and an E2T keeps RANs in its list only after
\* an error or a crash (its list was not saved, or it is missing in E2TAddresses).
RedButtonShutsAll ==
  [][\A p \in Proc :
       /\ overlap = "none" /\ <<faults, cut>>' = <<faults, cut>>
       /\ pc[p] \in {"redGet", "clearRans"} /\ pc'[p] = "idle"
       => /\ \A r \in ids : HasStatus(r, "SHUT_DOWN")
          /\ Cardinality({a \in E2T : reg'[a] # NoInst /\ reg'[a].rans # NoRans}) <= faults + cut
    ]_vars

\* A request ends, whatever is in progress next to it.
EveryRequestEnds == \A p \in Proc : pc[p] # "idle" ~> pc[p] = "idle"

\* A RAN does not stay SHUTTING_DOWN, where its E2_SETUP requests are refused:
\* the red button's second pass, or a setup that overtook the first, ends it,
\* unless an error or a crash stops that pass or one of the handlers that write
\* a nodeb back (DissociateRan, the gNB update) restores what the pass replaced.
ShuttingDownEnds ==
  \A r \in Ran :
    HasStatus(r, "SHUTTING_DOWN") ~> \/ ~HasStatus(r, "SHUTTING_DOWN")
                                      \/ faults + cut > 0 \/ overlap = "any"

(* What tests say and the code does not keep *)

\* A RAN that is SHUTTING_DOWN does not become CONNECTED by an E2_SETUP.
SetupRespectsShutdown ==
  [][\A r \in Ran :
       HasStatus(r, "SHUTTING_DOWN") => ~HasStatus(r, "CONNECTED")']_vars

\* No RAN at rest is associated to an E2T that has been removed.
RemovedE2TIsDissociated ==
  \A r \in Ran :
    nodebs[r] # NoNodeb /\ ~Busy(r)
    => \A a \in E2T : nodebs[r].assoc = a => reg[a] # NoInst

\* An E2_TERM_INIT that meets no error leaves none of the RANs it found in the
\* E2T's list CONNECTED.
TermInitReachesAll ==
  [][\A p \in Proc, r \in Ran :
       job[p].kind = "TermInit" /\ job'[p].kind = "None"
       /\ <<faults, cut>>' = <<faults, cut>> /\ todo[p][r] > 0
       => ~HasStatus(r, "CONNECTED")']_vars
-----------------------------------------------------------------------------
(* The inductive invariant behind ShutDownIsDissociated and                *)
(* ListedRanHasNodeb: what both say of the database also holds of every    *)
(* copy a goroutine may still write.                                       *)

Known == {r \in Ran : nodebs[r] # NoNodeb}
CleanNodeb ==
  {n \in Nodeb : n.status \in {"SHUTTING_DOWN", "SHUT_DOWN"} => n.assoc = NoE2T}
ListsOnly(known, i) == i # NoInst => \A r \in Ran : i.rans[r] > 0 => r \in known

RegInv ==
  /\ reg \in [E2T -> Instance \cup {NoInst}] /\ dir \in [E2T -> Nat] \cup {NoAddrs}
  /\ \A a \in E2T : ListsOnly(Known, reg[a])
CopyInv ==
  /\ copies \in [E2T -> Instance \cup {NoInst}]
  /\ \A a \in E2T : ListsOnly(Known, copies[a])

NodebInv == nodebs \in [Ran -> CleanNodeb \cup {NoNodeb}] /\ ids \subseteq Ran

\* what a goroutine holds when its next database call is l
Holds(l, j, n, t, known) ==
  /\ l \in Pc /\ j \in Job /\ n \in CleanNodeb \cup {NoNodeb} /\ t \in RanBag
  /\ l \in {"lookup", "saveNew", "addMember", "associate", "addRan"}
       => j.kind = "Setup" /\ j.ran \in Ran /\ j.addr \in E2T
  /\ l \in {"fetch", "down", "dissociate", "clearAssoc", "removeRan"}
       => \/ j.kind = "TermInit"
          \/ j.kind = "Lost" /\ j.ran \in Ran /\ t = [NoRans EXCEPT ![j.ran] = 1]
  /\ l \in {"down", "dissociate", "clearAssoc", "removeRan"} => j.ran \in Ran /\ t[j.ran] > 0
  /\ l \in {"register", "list"} => j.kind = "NewE2T" /\ j.addr \in E2T
  /\ l \in {"listRans", "redGet", "redPut", "clearRans"}
       => j.kind \in {"ForceShutDown", "ShuttingDown", "ShutDown"}
  /\ l = "clearRans" => j.kind = "ShuttingDown" /\ t = NoRans
  /\ l = "writeBack" => j.kind = "UpdateGnb"
  /\ l \in {"mark", "getNodeb", "putNodeb", "unlist"} => j.kind = "Shutdown"
  /\ l \in {"getNodeb", "putNodeb", "unlist"} => j.addr \in E2T
  /\ l \in {"saveNew", "addMember", "associate", "down", "clearAssoc", "redPut", "writeBack"}
       => n # NoNodeb
  /\ l \in {"addMember", "associate", "addRan", "down", "dissociate", "clearAssoc",
             "redPut", "writeBack", "putNodeb"} => j.ran \in known
  /\ l \in {"redPut", "writeBack", "putNodeb"} => j.ran \in Ran
  /\ l = "redPut" => ~PassSkips(j.kind, n)

ThreadInv ==
  /\ pc \in [Proc -> Pc] /\ job \in [Proc -> Job]
  /\ nb \in [Proc -> CleanNodeb \cup {NoNodeb}] /\ todo \in [Proc -> RanBag]
  /\ \A p \in Proc : Holds(pc[p], job[p], nb[p], todo[p], Known)

CountInv ==
  /\ overlap \in Overlaps /\ calls \in 0..MaxCalls[overlap]
  /\ faults \in 0..MaxFaults /\ cut \in 0..MaxCut

IInv == RegInv /\ CopyInv /\ NodebInv /\ ThreadInv /\ CountInv
-----------------------------------------------------------------------------
(* The inductive invariant behind UnlistedRansBounded, ConnectedIsAnchored *)
(* and RedButtonShutsAll.  While requests come one at a time for each RAN, *)
(* what a goroutine has read or written stays true of the RANs it is about *)
(* (Tied), and a RAN is left in a bad state only when an error or a crash  *)
(* stops the one goroutine that was to repair it (Charged, Stray).         *)

Apart == overlap \in {"none", "distinct"}
Lists(a, r) == reg[a] # NoInst /\ reg[a].rans[r] > 0
Closed(r) == HasStatus(r, "SHUTTING_DOWN") \/ HasStatus(r, "SHUT_DOWN")

\* what a pass of the red button leaves behind, and the RANs a loop still has to reach
PassLeaves(j, r) ==
  IF j.kind = "ShuttingDown" /\ j.updated THEN Closed(r) ELSE HasStatus(r, "SHUT_DOWN")
Ahead(l, j, t, r) == t[r] > 0 \/ (l \in {"redPut", "putNodeb"} /\ j.ran = r)

SetupPcs == {"lookup", "saveNew", "addMember", "associate", "addRan"}
WorkerPcs == {"mark", "getNodeb", "putNodeb", "unlist"}

Tied(l, j, n, t) ==
  /\ l \in SetupPcs => reg[j.addr] # NoInst
  /\ l = "addRan" => nodebs[j.ran] = NewNodeb(j.addr)
  /\ l \in {"dissociate", "clearAssoc", "removeRan"} => ~HasStatus(j.ran, "CONNECTED")
  /\ l = "clearAssoc" => n.status # "CONNECTED"
  /\ l = "writeBack" => n = nodebs[j.ran]
  /\ l = "register" => \A r \in Ran : ~Lists(j.addr, r)
  /\ l \in {"redGet", "redPut", "clearRans"} =>
       \A r \in ids : ~Ahead(l, j, t, r) => PassLeaves(j, r)
  /\ l \in {"listRans", "redGet", "redPut"} /\ j.kind = "ShutDown" => \A r \in ids : Closed(r)
  /\ l \in WorkerPcs =>
       \A a \in E2T, r \in Ran : copies[a] # NoInst /\ Lists(a, r) => copies[a].rans[r] > 0

\* the same of the E2Ts, while there is one request at a time
TiedAlone(l, j) ==
  /\ l \in WorkerPcs => \A a \in E2T : copies[a] # NoInst => Registry!Directory[a] > 0
  /\ l = "unlist" => reg[j.addr] = NoInst
  /\ l \in {"listRans", "redGet", "redPut"} /\ j.kind = "ForceShutDown"
       => Registry!Directory = Registry!NoneListed

ApartInv ==
  Apart => \A p \in Proc :
    /\ Tied(pc[p], job[p], nb[p], todo[p])
    /\ \A q \in Proc : p # q /\ pc[p] # "idle" /\ pc[q] # "idle"
                       => Scope(job[p]) \cap Scope(job[q]) = {}
AloneInv ==
  overlap = "none" => \A p \in Proc :
    /\ TiedAlone(pc[p], job[p])
    /\ \A q \in Proc : pc[p] # "idle" /\ pc[q] # "idle" => p = q

\* an E2_SETUP of the RAN is at one of these steps
Joining(r, pcs) == \E p \in Proc : pc[p] \in pcs /\ job[p].ran = r

Unlisted(r) == r \notin ids /\ ~Joining(r, {"addMember"})
Adrift(r) ==
  HasStatus(r, "CONNECTED") /\ ~Anchored(r) /\ ~Joining(r, {"addMember", "associate", "addRan"})
\* the worker has passed over the RAN and is about to remove its E2T
Doomed(r) ==
  /\ pc[Worker] \in {"getNodeb", "putNodeb"}
  /\ ~Ahead(pc[Worker], job[Worker], todo[Worker], r)
  /\ HasStatus(r, "CONNECTED") /\ Anchored(r) /\ nodebs[r].assoc = job[Worker].addr
Charged == {r \in Known : Unlisted(r) \/ (Apart /\ (Adrift(r) \/ Doomed(r)))}

\* an E2T that the red button does not find, or has failed to clear
Stray ==
  {a \in E2T :
     /\ overlap = "none" /\ reg[a] # NoInst
     /\ \/ Registry!Directory[a] = 0 /\ ~\E p \in Proc : pc[p] = "list" /\ job[p].addr = a
        \/ /\ reg[a].rans # NoRans
           /\ \E p \in Proc : pc[p] \in {"listRans", "redGet", "redPut"} /\ job[p].kind = "ShutDown"}

ChargedInv == IsFiniteSet(Charged) /\ Cardinality(Charged) <= faults + cut
StrayInv == IsFiniteSet(Stray) /\ Cardinality(Stray) <= faults + cut

CInv == IInv /\ ids \subseteq Known /\ ApartInv /\ AloneInv /\ ChargedInv /\ StrayInv
=============================================================================
