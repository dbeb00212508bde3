----------------------------- MODULE XApp_proofs -----------------------------
(***************************************************************************)
(* Proofs about XApp.  Each of the four things the threads share has an    *)
(* invariant of its own: the status table, the send buffer, the map of     *)
(* agents to gNBs, and what terminate_du_reporting still has to do.        *)
(* Nothing is assumed of the bounds or the number of agents.               *)
(***************************************************************************)
EXTENDS XApp, SequenceTheorems, TLAPS

\* between add_request_entry and delete_request_entry
Busy == main \in {"fill", "send", "waiting", "check", "delete"}
\* the receiver's key is a buffer of a received name, the main thread works on
\* a position of the list
Places ==
  /\ receiver # "idle" => key \in Ptr
  /\ Busy => i \in DOMAIN rnib_gnblist

\* positions whose request has been entered in the table
Begun == IF Busy THEN 1..i ELSE 1..(i - 1)

\* an entry of the receiver is about a gNB that has answered, and is never
\* pending; the main thread's entry never holds the receiver's status
Table ==
  /\ status_table[Buf] # "success"
  /\ receiver # "idle" => name[key] \in answered
  /\ ~reused => \A p \in Ptr : status_table[p] # "none" => name[p] \in answered
  /\ SuccessIsAnsweredOrTimedOut

\* without a race, the main thread's entry is there while its request is under
\* way, and an entry of the receiver is about a gNB whose request was entered
Requested(g) == \E l \in Begun : rnib_gnblist[l] = g
Causes ==
  ~raced =>
    /\ status_table[Buf] # "none" <=> Busy
    /\ ~reused /\ receiver \in {"found", "present"} => Requested(name[key])
    /\ ~reused => \A p \in Ptr : status_table[p] # "none" => Requested(name[p])
    /\ \A j \in DOMAIN rnib_gnblist : res[j] = "duplicate" => j <= i
    /\ RefusalHasCause

Buffer ==
  ~crossed => \A t \in Threads : sending[t] # NoGnb =>
    header = sending[t] /\ \A u \in Threads : sending[u] # NoGnb => u = t

Control == OneAgentPerGnb /\ ReporterIsControlled

\* the agents the loop has not come to have the gNBs that are still due
Ending ==
  /\ sending[ControlT] # NoGnb => visit \in Agent /\ sending[ControlT] = agentIp_gnbId[visit]
  /\ rnib_gnblist # <<>> =>
       \A g \in due : visit # 0 /\ \E a \in agentIp_socket : a >= visit /\ agentIp_gnbId[a] = g
  /\ ~running => visit = Agents + 1

IInv == TypeOK /\ Places /\ Table /\ Causes /\ Buffer /\ Control /\ Ending

LEMMA ThreadsDistinct ==
  /\ Agents \in Nat /\ MainT \in Threads /\ ControlT \in Threads /\ Agent \subseteq Threads
  /\ MainT # ControlT /\ MainT \notin Agent /\ ControlT \notin Agent
BY ConstantsOK DEF MainT, ControlT, Threads, Agent

LEMMA InitInv == Init => IInv
<1> SUFFICES ASSUME Init PROVE IInv
  OBVIOUS
<1>1. rnib_gnblist \in Seq(Gnb) /\ Len(rnib_gnblist) \in Nat
  <2>1. PICK n \in 0..MaxList : rnib_gnblist \in [1..n -> Gnb]  BY DEF Init
  <2>2. n \in Nat  BY ConstantsOK
  <2> QED  BY <2>1, <2>2, SeqDef, LenProperties
<1>2. TypeOK
  <2>1. 0 \in 0..(Agents + 1) /\ 1 \in 1..(Len(rnib_gnblist) + 1)  BY <1>1, ConstantsOK
  <2> QED  BY <1>1, <2>1 DEF Init, TypeOK, Results, Key
<1>3. Places  BY DEF Init, Places, Busy
<1>4. Table  BY DEF Init, Table, SuccessIsAnsweredOrTimedOut, Key
<1>5. Causes  BY DEF Init, Causes, RefusalHasCause, Key, Busy
<1>6. Buffer  BY DEF Init, Buffer
<1>7. Control  BY DEF Init, Control, OneAgentPerGnb, ReporterIsControlled
<1>8. Ending
  <2>1. sending[ControlT] = NoGnb  BY ThreadsDistinct DEF Init
  <2> QED  BY <2>1 DEF Init, Ending
<1> QED  BY <1>2, <1>3, <1>4, <1>5, <1>6, <1>7, <1>8 DEF IInv
-----------------------------------------------------------------------------
(* Steps that leave a part alone                                           *)

LEMMA TableSame ==
  ASSUME Table, Causes, UNCHANGED <<requests, timedOut, table, reception>>
  PROVE  Table' /\ Causes'
BY DEF Table, Causes, requests, table, reception, SuccessIsAnsweredOrTimedOut,
       RefusalHasCause, Busy, Begun, Requested

LEMMA PlacesSame ==
  ASSUME Places, UNCHANGED <<requests, reception>>  PROVE Places'
BY DEF Places, Busy, requests, reception

LEMMA BufferSame == ASSUME Buffer, UNCHANGED sender PROVE Buffer'
BY DEF Buffer, sender

LEMMA ControlSame == ASSUME Control, UNCHANGED agents PROVE Control'
BY DEF Control, OneAgentPerGnb, ReporterIsControlled, agents

LEMMA EndingSame ==
  ASSUME Ending, UNCHANGED <<rnib_gnblist, ending, running, agentIp_gnbId>>,
         sending'[ControlT] = sending[ControlT], agentIp_socket \subseteq agentIp_socket'
  PROVE  Ending'
BY DEF Ending, ending

\* what the main thread's steps on the table leave alone
LEMMA OthersSame ==
  ASSUME IInv, UNCHANGED <<rnib_gnblist, undialled, agentIp_socket, agents, sender, ending, running>>
  PROVE  Buffer' /\ Control' /\ Ending'
<1>1. /\ sending'[ControlT] = sending[ControlT] /\ agentIp_gnbId' = agentIp_gnbId
      /\ agentIp_socket \subseteq agentIp_socket'
  BY DEF sender, agents
<1>2. Ending'  BY <1>1, EndingSame DEF IInv
<1> QED  BY <1>2, BufferSame, ControlSame DEF IInv
-----------------------------------------------------------------------------
(* The main thread                                                         *)

LEMMA OpenAgentInv == ASSUME IInv, NEW a \in Agent, OpenAgent(a) PROVE IInv'
<1> USE DEF IInv, OpenAgent
<1>1. TypeOK'  BY DEF TypeOK, requests, table, reception, agents, sender, ending
<1>2. sending'[ControlT] = sending[ControlT] /\ rnib_gnblist' = rnib_gnblist /\ agentIp_gnbId' = agentIp_gnbId
      /\ agentIp_socket \subseteq agentIp_socket'
  BY DEF sender, requests, agents
<1>3. Ending'  BY <1>2, EndingSame
<1> QED  BY <1>1, <1>3, TableSame, PlacesSame, BufferSame, ControlSame

\* a step of the main thread between requests, or that the table does not see
LEMMA QuietStep ==
  ASSUME IInv, UNCHANGED <<rnib_gnblist, i, res, timedOut, table, reception>>,
         Busy' = Busy
  PROVE  Places' /\ Table' /\ Causes'
BY DEF IInv, Places, Table, Causes, table, reception, SuccessIsAnsweredOrTimedOut,
       RefusalHasCause, Begun, Requested

LEMMA AllOpenedInv == ASSUME IInv, AllOpened PROVE IInv'
<1>1. TypeOK'  BY DEF IInv, AllOpened, TypeOK, table, reception, agents, sender, ending
<1>2. Busy' = Busy  BY DEF AllOpened, Busy
<1> QED  BY <1>1, <1>2, QuietStep, OthersSame DEF IInv, AllOpened

LEMMA AllSubscribedInv == ASSUME IInv, AllSubscribed PROVE IInv'
<1>1. TypeOK'  BY DEF IInv, AllSubscribed, TypeOK, table, reception, agents, sender, ending
<1>2. Busy' = Busy  BY DEF AllSubscribed, Busy
<1> QED  BY <1>1, <1>2, QuietStep, OthersSame DEF IInv, AllSubscribed

LEMMA WakeInv == ASSUME IInv, Wake PROVE IInv'
<1>1. TypeOK'  BY DEF IInv, Wake, TypeOK, table, reception, agents, sender, ending
<1>2. Busy' = Busy  BY DEF Wake, Busy
<1> QED  BY <1>1, <1>2, QuietStep, OthersSame DEF IInv, Wake

LEMMA ElapseInv == ASSUME IInv, Elapse PROVE IInv'
<1>1. TypeOK'  BY DEF IInv, Elapse, TypeOK, table, reception, agents, sender, ending
<1>2. Busy' = Busy  BY DEF Elapse, Busy
<1> QED  BY <1>1, <1>2, QuietStep, OthersSame DEF IInv, Elapse

LEMMA CurrentIs == i \in DOMAIN rnib_gnblist /\ rnib_gnblist \in Seq(Gnb) => Current = rnib_gnblist[i]
BY LenProperties DEF Current

LEMMA FillKeeps ==
  ASSUME IInv, NEW t \in Threads, NEW g \in Gnb, Fill(t, g)
  PROVE  /\ sending' \in [Threads -> Gnb \cup {NoGnb}] /\ header' \in Gnb \cup {NoGnb}
         /\ crossed' \in BOOLEAN
         /\ \A u \in Threads \ {t} : sending'[u] = sending[u]
         /\ sending'[t] = g /\ Buffer'
BY DEF IInv, TypeOK, Fill, Buffer

LEMMA EmitKeeps ==
  ASSUME IInv, NEW t \in Threads, NEW ok \in BOOLEAN, Emit(t, ok)
  PROVE  /\ sending' \in [Threads -> Gnb \cup {NoGnb}] /\ header' \in Gnb \cup {NoGnb}
         /\ crossed' \in BOOLEAN
         /\ \A u \in Threads \ {t} : sending'[u] = sending[u]
         /\ sending'[t] = NoGnb /\ Buffer'
BY DEF IInv, TypeOK, Emit, Buffer

LEMMA FillRequestInv == ASSUME IInv, FillRequest PROVE IInv'
<1> USE DEF FillRequest
<1>1. Current \in Gnb  BY CurrentIs, ElementOfSeq, LenProperties DEF IInv, Places, Busy, TypeOK
<1>2. /\ sending' \in [Threads -> Gnb \cup {NoGnb}] /\ header' \in Gnb \cup {NoGnb}
      /\ crossed' \in BOOLEAN /\ Buffer' /\ sending'[ControlT] = sending[ControlT]
  BY <1>1, FillKeeps, ThreadsDistinct
<1>3. TypeOK'  BY <1>2 DEF IInv, TypeOK, table, reception, agents, ending
<1>4. Busy' = Busy  BY DEF Busy
<1>5. agentIp_gnbId' = agentIp_gnbId /\ agentIp_socket \subseteq agentIp_socket'
  BY DEF agents
<1>6. Ending'  BY <1>2, <1>5, EndingSame DEF IInv
<1> QED  BY <1>2, <1>3, <1>4, <1>6, QuietStep, ControlSame DEF IInv

\* the end of a request: its result is known to be no success without cause,
\* and the entry is gone, unless a race has kept it
LEMMA ReturnsKeeps ==
  ASSUME IInv, NEW r \in Results, Returns(r), i \in DOMAIN rnib_gnblist, UNCHANGED rnib_gnblist
  PROVE  /\ res' \in [DOMAIN rnib_gnblist -> Results] /\ res'[i] = r
         /\ \A j \in DOMAIN rnib_gnblist : j # i => res'[j] = res[j]
         /\ i' = i + 1 /\ i' \in 1..(Len(rnib_gnblist) + 1) /\ main' = "add" /\ elapsed' = FALSE
         /\ ~Busy' /\ Begun \subseteq Begun' /\ Begun' = 1..i
<1>1. /\ i \in 1..Len(rnib_gnblist) /\ Len(rnib_gnblist) \in Nat
      /\ res \in [DOMAIN rnib_gnblist -> Results]
  BY LenProperties DEF IInv, TypeOK
<1>2. res' = [res EXCEPT ![i] = r] /\ i' = i + 1 /\ main' = "add" /\ elapsed' = FALSE
  BY DEF Returns
<1>3. /\ res' \in [DOMAIN rnib_gnblist -> Results] /\ res'[i] = r
      /\ \A j \in DOMAIN rnib_gnblist : j # i => res'[j] = res[j]
  BY <1>1, <1>2
<1>4. i' \in 1..(Len(rnib_gnblist) + 1)  BY <1>1, <1>2
<1>5. ~Busy' /\ Begun' = 1..i  BY <1>1, <1>2 DEF Busy, Begun
<1>6. Begun \subseteq 1..i  BY <1>1 DEF Begun
<1> QED  BY <1>2, <1>3, <1>4, <1>5, <1>6

LEMMA AddInv == ASSUME IInv, Add PROVE IInv'
<1> USE DEF Add
<1> DEFINE g == rnib_gnblist[i]
<1>0. i \in DOMAIN rnib_gnblist /\ Current = g /\ ~Busy
  BY CurrentIs, LenProperties DEF IInv, TypeOK, Busy
<1>1. Buffer' /\ Control' /\ Ending'  BY OthersSame
<1>2. CASE Entries(Current) # {} /\ Returns("duplicate") /\ UNCHANGED <<status_table, raced>>
  <2>1. "duplicate" \in Results  BY DEF Results
  <2>2. /\ res' \in [DOMAIN rnib_gnblist -> Results] /\ res'[i] = "duplicate"
        /\ \A j \in DOMAIN rnib_gnblist : j # i => res'[j] = res[j]
        /\ i' = i + 1 /\ i' \in 1..(Len(rnib_gnblist) + 1) /\ main' = "add" /\ elapsed' = FALSE
        /\ ~Busy' /\ Begun \subseteq Begun' /\ Begun' = 1..i
    BY <1>0, <1>2, <2>1, ReturnsKeeps
  <2>3. TypeOK'
    BY <1>2, <2>2 DEF IInv, TypeOK, reception, agents, sender, ending
  <2>4. Places'  BY <2>2 DEF IInv, Places, reception
  <2>5. Table'
    BY <1>2, <2>2 DEF IInv, Table, TypeOK, reception, SuccessIsAnsweredOrTimedOut
  <2>6. ASSUME ~raced, ~reused
        PROVE  g \in answered /\ \E l \in 1..(i - 1) : rnib_gnblist[l] = g
    <3>1. PICK k \in Key : status_table[k] # "none" /\ NameOf(k) = g
      BY <1>0, <1>2 DEF Entries
    <3>2. k \in Ptr  BY <1>0, <2>6, <3>1 DEF IInv, Causes, Key
    <3>3. name[k] = g  BY <3>1, <3>2, ConstantsOK DEF NameOf
    <3> QED  BY <1>0, <2>6, <3>1, <3>2, <3>3 DEF IInv, Causes, Table, Requested, Begun
  <2>7. Causes'
    BY <1>0, <1>2, <2>2, <2>6 DEF IInv, TypeOK, Causes, Requested, RefusalHasCause, reception
  <2> QED  BY <1>1, <2>3, <2>4, <2>5, <2>7 DEF IInv
<1>3. CASE /\ Put(Buf, "pending", receiver = "present") /\ Entries(Current) = {}
           /\ main' = "fill" /\ UNCHANGED <<i, elapsed, res>>
  <2>1. TypeOK'
    BY <1>3 DEF IInv, TypeOK, Put, Key, reception, agents, sender, ending
  <2>2. Busy' /\ Begun \subseteq Begun'
    BY <1>0, <1>3, LenProperties DEF IInv, TypeOK, Busy, Begun
  <2>3. Places'  BY <1>0, <1>3 DEF IInv, Places, reception
  <2>4. Table'
    BY <1>3, ConstantsOK DEF IInv, Table, TypeOK, Put, Key, reception, SuccessIsAnsweredOrTimedOut
  <2>5. Causes'
    BY <1>3, <2>2, ConstantsOK
       DEF IInv, TypeOK, Causes, Put, Key, Requested, RefusalHasCause, reception
  <2> QED  BY <1>1, <2>1, <2>3, <2>4, <2>5 DEF IInv
<1> QED  BY <1>2, <1>3

\* the main thread's entry is deleted, or kept by a race; the request is over
LEMMA DeletedKeeps ==
  ASSUME IInv, NEW r \in Results, Returns(r), i \in DOMAIN rnib_gnblist,
         UNCHANGED <<rnib_gnblist, timedOut, name, reused, reception>>,
         Put(Buf, "none", receiver = "present"),
         r = "success" => res[i] = "success", r = "duplicate" => res[i] = "duplicate",
         r = "unknown" => res[i] = "unknown"
  PROVE  /\ status_table' \in [Key -> {"none", "pending", "success"}] /\ raced' \in BOOLEAN
         /\ Places' /\ Table' /\ Causes'
<1>1. /\ res' \in [DOMAIN rnib_gnblist -> Results] /\ res'[i] = r
      /\ \A j \in DOMAIN rnib_gnblist : j # i => res'[j] = res[j]
      /\ i' = i + 1 /\ i' \in 1..(Len(rnib_gnblist) + 1) /\ main' = "add" /\ elapsed' = FALSE
      /\ ~Busy' /\ Begun \subseteq Begun' /\ Begun' = 1..i
  BY ReturnsKeeps
<1>2. status_table' \in [Key -> {"none", "pending", "success"}] /\ raced' \in BOOLEAN
  BY DEF IInv, TypeOK, Put
<1>3. Places'  BY <1>1 DEF IInv, Places, reception
<1>4. Table'
  BY <1>1, ConstantsOK
     DEF IInv, Table, TypeOK, Put, Key, reception, SuccessIsAnsweredOrTimedOut
<1>5. ASSUME ~raced'  PROVE Causes'
  <2>1. ~raced /\ status_table' = [status_table EXCEPT ![Buf] = "none"]
    BY <1>5, <1>2 DEF Put
  <2>2. /\ status_table' [Buf] = "none"
        /\ \A p \in Ptr : status_table'[p] = status_table[p]
    BY <2>1, ConstantsOK DEF IInv, TypeOK, Key
  <2>3. \A j \in DOMAIN rnib_gnblist : res'[j] = "duplicate" => res[j] = "duplicate"
    BY <1>1
  <2>4. \A j \in DOMAIN rnib_gnblist : res'[j] = "unknown" => res[j] = "unknown"
    BY <1>1
  <2>5. i \in Nat /\ \A j \in DOMAIN rnib_gnblist : j \in Nat
    BY LenProperties DEF IInv, TypeOK
  <2> QED
    BY <1>1, <2>1, <2>2, <2>3, <2>4, <2>5
       DEF IInv, Causes, Requested, RefusalHasCause, reception
<1> QED  BY <1>2, <1>3, <1>4, <1>5 DEF Causes

LEMMA TransmitInv == ASSUME IInv, Transmit PROVE IInv'
<1> USE DEF Transmit
<1>0. i \in DOMAIN rnib_gnblist /\ Busy  BY DEF IInv, Places, Busy
<1>1. PICK ok \in BOOLEAN : Emit(MainT, ok)  OBVIOUS
<1>2. /\ sending' \in [Threads -> Gnb \cup {NoGnb}] /\ header' \in Gnb \cup {NoGnb}
      /\ crossed' \in BOOLEAN /\ Buffer' /\ sending'[ControlT] = sending[ControlT]
  BY <1>1, EmitKeeps, ThreadsDistinct
<1>3. agentIp_gnbId' = agentIp_gnbId /\ agentIp_socket \subseteq agentIp_socket'
  BY DEF agents
<1>4. Ending' /\ Control'  BY <1>2, <1>3, EndingSame, ControlSame DEF IInv
<1>5. CASE main' = "waiting" /\ UNCHANGED <<i, elapsed, res, status_table, raced>>
  <2>1. TypeOK'  BY <1>2, <1>5 DEF IInv, TypeOK, reception, agents, ending
  <2>2. Busy' = Busy  BY <1>0, <1>5 DEF Busy
  <2> QED  BY <1>2, <1>4, <1>5, <2>1, <2>2, QuietStep DEF IInv, table
<1>6. CASE Returns("tx") /\ Put(Buf, "none", receiver = "present")
  <2>1. "tx" \in Results  BY DEF Results
  <2>2. /\ res' \in [DOMAIN rnib_gnblist -> Results]
        /\ i' \in 1..(Len(rnib_gnblist) + 1) /\ main' = "add" /\ elapsed' = FALSE
    BY <1>0, <1>6, <2>1, ReturnsKeeps
  <2>3. /\ status_table' \in [Key -> {"none", "pending", "success"}] /\ raced' \in BOOLEAN
        /\ Places' /\ Table' /\ Causes'
    BY <1>0, <1>6, <2>1, DeletedKeeps
  <2>4. TypeOK'  BY <1>2, <2>2, <2>3 DEF IInv, TypeOK, reception, agents, ending
  <2> QED  BY <1>2, <1>4, <2>3, <2>4 DEF IInv
<1> QED  BY <1>5, <1>6

LEMMA DeleteInv == ASSUME IInv, Delete PROVE IInv'
<1> USE DEF Delete
<1>0. i \in DOMAIN rnib_gnblist /\ res[i] \in Results
  BY DEF IInv, Places, Busy, TypeOK
<1>1. Buffer' /\ Control' /\ Ending'  BY OthersSame
<1>2. /\ res' \in [DOMAIN rnib_gnblist -> Results]
      /\ i' \in 1..(Len(rnib_gnblist) + 1) /\ main' = "add" /\ elapsed' = FALSE
  BY <1>0, ReturnsKeeps
<1>3. /\ status_table' \in [Key -> {"none", "pending", "success"}] /\ raced' \in BOOLEAN
      /\ Places' /\ Table' /\ Causes'
  BY <1>0, DeletedKeeps
<1>4. TypeOK'  BY <1>2, <1>3 DEF IInv, TypeOK, reception, agents, sender, ending
<1> QED  BY <1>1, <1>3, <1>4 DEF IInv

LEMMA CheckInv == ASSUME IInv, Check PROVE IInv'
<1> USE DEF Check
<1>0. i \in DOMAIN rnib_gnblist /\ Busy /\ Current = rnib_gnblist[i]
  BY CurrentIs DEF IInv, Places, Busy, TypeOK
<1>1. Buffer' /\ Control' /\ Ending'  BY OthersSame
<1>2. CASE main' = "waiting" /\ UNCHANGED <<res, timedOut, raced>>
  <2>1. TypeOK'  BY <1>2 DEF IInv, TypeOK, reception, agents, sender, ending
  <2>2. Busy' = Busy  BY <1>0, <1>2 DEF Busy
  <2> QED  BY <1>1, <1>2, <2>1, <2>2, QuietStep DEF IInv, table
<1>3. ASSUME NEW r \in {"success", "unknown"}, Conclude(r), timedOut' \subseteq DOMAIN rnib_gnblist,
             timedOut \subseteq timedOut', raced' \in BOOLEAN, raced => raced',
             ~reused /\ r = "success" => Current \in answered \/ i \in timedOut',
             r = "unknown" => raced'
      PROVE  IInv'
  <2>1. /\ res' \in [DOMAIN rnib_gnblist -> Results] /\ res'[i] = r
        /\ \A j \in DOMAIN rnib_gnblist : j # i => res'[j] = res[j]
    BY <1>0, <1>3 DEF IInv, TypeOK, Conclude, Results
  <2>2. main' = "delete" /\ Busy' /\ Begun' = Begun
    BY <1>0, <1>3 DEF Conclude, Busy, Begun
  <2>3. TypeOK'  BY <1>3, <2>1, <2>2 DEF IInv, TypeOK, reception, agents, sender, ending
  <2>4. Places'  BY <1>0, <2>2 DEF IInv, Places, reception
  <2>5. Table'
    BY <1>0, <1>3, <2>1 DEF IInv, Table, reception, SuccessIsAnsweredOrTimedOut
  <2>6. Causes'
    BY <1>0, <1>3, <2>1, <2>2
       DEF IInv, Causes, reception, Requested, RefusalHasCause
  <2> QED  BY <1>1, <2>3, <2>4, <2>5, <2>6 DEF IInv
<1>4. ASSUME NEW k \in Entries(Current), status_table[k] = "success", ~reused
      PROVE  Current \in answered
  <2>1. k \in Ptr /\ NameOf(k) = Current  BY <1>4 DEF IInv, Table, Entries, Key
  <2>2. name[k] = Current  BY <2>1, ConstantsOK DEF NameOf
  <2> QED  BY <1>4, <2>1, <2>2 DEF IInv, Table
<1>5. ~raced => Entries(Current) # {}
  <2>1. ~raced => Buf \in Entries(Current)
    BY <1>0 DEF IInv, Causes, Entries, Key, NameOf
  <2> QED  BY <2>1
<1>6. timedOut \subseteq DOMAIN rnib_gnblist /\ raced \in BOOLEAN  BY DEF IInv, TypeOK
<1>7. CASE \E k \in Entries(Current) :
             status_table[k] = "success" /\ Conclude("success") /\ UNCHANGED <<timedOut, raced>>
  BY <1>3, <1>4, <1>6, <1>7
<1>8. CASE Conclude("success") /\ timedOut' = timedOut \cup {i} /\ UNCHANGED raced
  BY <1>0, <1>3, <1>6, <1>8
<1>9. CASE Entries(Current) = {} /\ Conclude("unknown") /\ UNCHANGED <<timedOut, raced>>
  BY <1>3, <1>5, <1>6, <1>9
<1>10. CASE Conclude("unknown") /\ UNCHANGED timedOut /\ raced' = TRUE
  BY <1>3, <1>6, <1>10
<1> QED  BY <1>2, <1>7, <1>8, <1>9, <1>10
-----------------------------------------------------------------------------
(* The receiver                                                            *)

\* while the receiver is idle, a name may be written into any buffer: unless
\* it had an entry, that is no matter
LEMMA NamedKeeps ==
  ASSUME IInv, NEW g \in Gnb, NEW p \in Ptr, Named(g, p)
  PROVE  /\ name' \in [Ptr -> Gnb \cup {NoGnb}] /\ reused' \in BOOLEAN /\ name'[p] = g
         /\ reused => reused'
         /\ ~reused' => \A q \in Ptr : status_table[q] # "none" => name'[q] = name[q]
BY DEF IInv, TypeOK, Named, Key

LEMMA ResponseInv ==
  ASSUME IInv, NEW g \in Gnb, NEW p \in Ptr, Response(g, p)  PROVE IInv'
<1> USE DEF Response
<1>1. /\ name' \in [Ptr -> Gnb \cup {NoGnb}] /\ reused' \in BOOLEAN /\ name'[p] = g
      /\ reused => reused'
      /\ ~reused' => \A q \in Ptr : status_table[q] # "none" => name'[q] = name[q]
  BY NamedKeeps
<1>2. Busy' = Busy /\ Begun' = Begun  BY DEF Busy, Begun, requests
<1>3. TypeOK'  BY <1>1 DEF IInv, TypeOK, requests, agents, sender, ending, Key
<1>4. Places'  BY <1>2 DEF IInv, Places, requests
<1>5. Table'
  BY <1>1 DEF IInv, Table, requests, SuccessIsAnsweredOrTimedOut
<1>6. Causes'
  BY <1>1, <1>2 DEF IInv, Causes, Requested, RefusalHasCause, requests
<1>7. agentIp_gnbId' = agentIp_gnbId /\ agentIp_socket \subseteq agentIp_socket'
      /\ sending'[ControlT] = sending[ControlT] /\ rnib_gnblist' = rnib_gnblist
  BY DEF agents, sender, requests
<1>8. Ending'  BY <1>7, EndingSame DEF IInv
<1> QED
  BY <1>3, <1>4, <1>5, <1>6, <1>8, BufferSame, ControlSame DEF IInv

\* a name some entry has is the name of a gNB whose request was entered
LEMMA EntryIsRequested ==
  ASSUME IInv, NEW g, Entries(g) # {}, ~raced, ~reused  PROVE Requested(g)
<1>1. PICK k \in Key : status_table[k] # "none" /\ NameOf(k) = g  BY DEF Entries
<1>2. CASE k = Buf
  <2>1. Busy /\ i \in DOMAIN rnib_gnblist /\ i \in 1..i
    BY <1>1, <1>2, LenProperties DEF IInv, Causes, Places, TypeOK
  <2> QED  BY <1>1, <1>2, <2>1, CurrentIs DEF IInv, TypeOK, NameOf, Requested, Begun
<1>3. CASE k \in Ptr
  BY <1>1, <1>3, ConstantsOK DEF IInv, Causes, NameOf
<1> QED  BY <1>1, <1>2, <1>3 DEF Key

LEMMA PresentInv == ASSUME IInv, Present PROVE IInv'
<1> USE DEF Present
<1>1. TypeOK'  BY DEF IInv, TypeOK, requests, agents, sender, ending
<1>2. Busy' = Busy /\ Begun' = Begun  BY DEF Busy, Begun, requests
<1>3. Places'  BY <1>2 DEF IInv, Places, requests
<1>4. Table'  BY DEF IInv, Table, requests, SuccessIsAnsweredOrTimedOut
<1>5. Causes'
  <2>1. ASSUME ~raced', ~reused', receiver' \in {"found", "present"}
        PROVE  Requested(name[key])
    BY <2>1, EntryIsRequested
  <2> QED  BY <1>2, <2>1 DEF IInv, Causes, Requested, RefusalHasCause, requests
<1>7. agentIp_gnbId' = agentIp_gnbId /\ agentIp_socket \subseteq agentIp_socket'
      /\ sending'[ControlT] = sending[ControlT] /\ rnib_gnblist' = rnib_gnblist
  BY DEF agents, sender, requests
<1>8. Ending'  BY <1>7, EndingSame DEF IInv
<1> QED
  BY <1>1, <1>3, <1>4, <1>5, <1>8, BufferSame, ControlSame DEF IInv

LEMMA SetStatusInv == ASSUME IInv, SetStatus PROVE IInv'
<1> USE DEF SetStatus
<1>0. key \in Ptr /\ key # Buf  BY ConstantsOK DEF IInv, Places
<1>1. /\ status_table' \in [Key -> {"none", "pending", "success"}] /\ raced' \in BOOLEAN
      /\ \A k \in Key : k # key => status_table'[k] = status_table[k]
      /\ raced => raced'
  <2>1. /\ raced' \in BOOLEAN
        /\ raced => raced'
        /\ \/ status_table' = [status_table EXCEPT ![key] = "success"]
           \/ status_table' = status_table
    <3>1. raced \in BOOLEAN  BY DEF IInv, TypeOK
    <3>2. CASE status_table' = [status_table EXCEPT ![key] = "success"] /\ raced' = raced
      BY <3>1, <3>2
    <3>3. CASE raced' = TRUE /\ status_table' = status_table
      BY <3>3
    <3> QED  BY <3>2, <3>3 DEF Put
  <2>2. status_table \in [Key -> {"none", "pending", "success"}]  BY DEF IInv, TypeOK
  <2>3. /\ status_table' \in [Key -> {"none", "pending", "success"}]
        /\ \A k \in Key : k # key => status_table'[k] = status_table[k]
    BY <2>1, <2>2
  <2> QED  BY <2>1, <2>3
<1>2. Busy' = Busy /\ Begun' = Begun  BY DEF Busy, Begun, requests
<1>3. TypeOK'  BY <1>1 DEF IInv, TypeOK, requests, agents, sender, ending
<1>4. Places'  BY <1>2 DEF IInv, Places, requests
<1>5. Buf \in Key /\ Ptr \subseteq Key /\ status_table'[Buf] = status_table[Buf]
  BY <1>0, <1>1 DEF Key
<1>6. Table'
  BY <1>0, <1>1, <1>5 DEF IInv, Table, requests, SuccessIsAnsweredOrTimedOut
<1>7. Causes'
  BY <1>0, <1>1, <1>2, <1>5 DEF IInv, Causes, Requested, RefusalHasCause, requests
<1>8. agentIp_gnbId' = agentIp_gnbId /\ agentIp_socket \subseteq agentIp_socket'
      /\ sending'[ControlT] = sending[ControlT] /\ rnib_gnblist' = rnib_gnblist
  BY DEF agents, sender, requests
<1>9. Ending'  BY <1>8, EndingSame DEF IInv
<1> QED
  BY <1>3, <1>4, <1>6, <1>7, <1>9, BufferSame, ControlSame DEF IInv

LEMMA IndicationInv ==
  ASSUME IInv, NEW g \in Gnb, NEW p \in Ptr, Indication(g, p)  PROVE IInv'
<1> USE DEF Indication
<1>0. /\ First(AgentsOf(g)) \subseteq AgentsOf(g) /\ AgentsOf(g) \subseteq Agent
      /\ First(Untaken) \subseteq Untaken /\ Untaken \subseteq Agent
      /\ Last(agentIp_socket) \subseteq Agent
  BY DEF IInv, TypeOK, First, Last, AgentsOf, Untaken
<1>1. /\ name' \in [Ptr -> Gnb \cup {NoGnb}] /\ reused' \in BOOLEAN /\ name'[p] = g
      /\ reused => reused'
      /\ ~reused' => \A q \in Ptr : status_table[q] # "none" => name'[q] = name[q]
  BY NamedKeeps
<1>2. Busy' = Busy /\ Begun' = Begun  BY DEF Busy, Begun, requests
<1>3. /\ agentIp_gnbId' \in [Agent -> Gnb \cup {NoGnb}]
      /\ fed' \subseteq Gnb \X Agent /\ full' \subseteq Gnb
  BY <1>0 DEF IInv, TypeOK, agents
<1>4. TypeOK'
  BY <1>1, <1>3 DEF IInv, TypeOK, requests, reception, sender, ending
<1>5. Places'  BY <1>2 DEF IInv, Places, requests, reception
<1>6. Table'
  BY <1>1 DEF IInv, Table, requests, reception, SuccessIsAnsweredOrTimedOut
<1>7. Causes'
  BY <1>1, <1>2 DEF IInv, Causes, Requested, RefusalHasCause, requests, reception
\* an agent that has a gNB keeps it
<1>8. \A a \in Agent : agentIp_gnbId[a] # NoGnb => agentIp_gnbId'[a] = agentIp_gnbId[a]
  BY <1>0 DEF IInv, TypeOK, Untaken, agents
<1>9. OneAgentPerGnb'
  <2>1. \/ agentIp_gnbId' = agentIp_gnbId
        \/ /\ AgentsOf(g) = {}
           /\ \E a \in Agent : agentIp_gnbId' = [agentIp_gnbId EXCEPT ![a] = g]
    BY <1>0 DEF agents
  <2>2. CASE agentIp_gnbId' = agentIp_gnbId  BY <2>2 DEF IInv, Control, OneAgentPerGnb
  <2>3. ASSUME AgentsOf(g) = {}, NEW a \in Agent, agentIp_gnbId' = [agentIp_gnbId EXCEPT ![a] = g]
        PROVE  OneAgentPerGnb'
    <3>1. \A b \in Agent : agentIp_gnbId[b] # g  BY <2>3 DEF AgentsOf
    <3>2. \A b \in Agent : agentIp_gnbId'[b] = IF b = a THEN g ELSE agentIp_gnbId[b]
      BY <2>3 DEF IInv, TypeOK
    <3> QED  BY <3>1, <3>2 DEF IInv, Control, OneAgentPerGnb
  <2> QED  BY <2>1, <2>2, <2>3
<1>10. ReporterIsControlled'
  <2> SUFFICES ASSUME NEW h \in Gnb, NEW a \in Agent, <<h, a>> \in fed'
               PROVE  agentIp_gnbId'[a] = h \/ h \in full'
    BY DEF ReporterIsControlled
  <2>1. full \subseteq full' /\ h # NoGnb  BY ConstantsOK DEF agents
  <2>2. CASE <<h, a>> \in fed  BY <1>8, <2>1, <2>2 DEF IInv, Control, ReporterIsControlled
  <2>3. CASE <<h, a>> \notin fed
    <3>1. CASE \E b \in First(AgentsOf(g)) :
                 fed' = fed \cup {<<g, b>>} /\ UNCHANGED <<agentIp_gnbId, full>>
      BY <1>0, <2>3, <3>1 DEF AgentsOf
    <3>2. CASE \E b \in First(Untaken) :
                 /\ agentIp_gnbId' = [agentIp_gnbId EXCEPT ![b] = g]
                 /\ fed' = fed \cup {<<g, b>>}
      BY <1>0, <2>3, <3>2 DEF IInv, TypeOK
    <3>3. CASE \E b \in Last(agentIp_socket) :
                 fed' = fed \cup {<<g, b>>} /\ full' = full \cup {g}
      BY <2>3, <3>3
    <3> QED  BY <2>3, <3>1, <3>2, <3>3 DEF agents
  <2> QED  BY <2>2, <2>3
<1>11. Ending'
  <2>1. \A h \in due : h # NoGnb  BY ConstantsOK DEF IInv, TypeOK
  <2>2. agentIp_socket \subseteq Agent  BY DEF IInv, TypeOK
  <2>3. sending[ControlT] # NoGnb => agentIp_gnbId[visit] # NoGnb
    BY DEF IInv, Ending
  <2> QED
    BY <1>8, <2>1, <2>2, <2>3 DEF IInv, Ending, requests, sender, ending
<1> QED
  BY <1>4, <1>5, <1>6, <1>7, <1>9, <1>10, <1>11, BufferSame DEF IInv, Control
-----------------------------------------------------------------------------
(* The agents' threads and the external control thread                     *)

\* their steps leave the requests and the table alone
LEMMA UnseenStep ==
  ASSUME IInv, UNCHANGED <<requests, timedOut, table, reception, agents>>
  PROVE  Places' /\ Table' /\ Causes' /\ Control'
BY TableSame, PlacesSame, ControlSame DEF IInv

LEMMA AgentFillsInv == ASSUME IInv, NEW a \in Agent, AgentFills(a) PROVE IInv'
<1> USE DEF AgentFills
<1>1. agentIp_gnbId[a] \in Gnb  BY DEF IInv, TypeOK
<1>2. /\ sending' \in [Threads -> Gnb \cup {NoGnb}] /\ header' \in Gnb \cup {NoGnb}
      /\ crossed' \in BOOLEAN /\ Buffer' /\ sending'[ControlT] = sending[ControlT]
  BY <1>1, FillKeeps, ThreadsDistinct
<1>3. TypeOK'  BY <1>2 DEF IInv, TypeOK, requests, table, reception, agents, ending
<1>4. Ending'
  BY <1>2, EndingSame DEF IInv, requests, agents
<1> QED  BY <1>2, <1>3, <1>4, UnseenStep DEF IInv

LEMMA AgentSendsInv ==
  ASSUME IInv, NEW a \in Agent, NEW ok \in BOOLEAN, AgentSends(a, ok)  PROVE IInv'
<1> USE DEF AgentSends
<1>2. /\ sending' \in [Threads -> Gnb \cup {NoGnb}] /\ header' \in Gnb \cup {NoGnb}
      /\ crossed' \in BOOLEAN /\ Buffer' /\ sending'[ControlT] = sending[ControlT]
  BY EmitKeeps, ThreadsDistinct
<1>3. TypeOK'  BY <1>2 DEF IInv, TypeOK, requests, table, reception, agents, ending
<1>4. Ending'
  BY <1>2, EndingSame DEF IInv, requests, agents
<1> QED  BY <1>2, <1>3, <1>4, UnseenStep DEF IInv

LEMMA TerminateInv == ASSUME IInv, Terminate PROVE IInv'
<1> USE DEF Terminate
<1>1. 1 \in 0..(Agents + 1) /\ 0 # Agents + 1 /\ 0 \notin Agent  BY ConstantsOK DEF Agent
<1>2. due' \subseteq Gnb  BY DEF IInv, TypeOK
<1>3. TypeOK'
  BY <1>1, <1>2 DEF IInv, TypeOK, requests, table, reception, agents, sender
<1>4. \A b \in agentIp_socket : b >= 1  BY DEF IInv, TypeOK, Agent
<1>5. Ending'  BY <1>1, <1>4 DEF IInv, Ending, requests, agents, sender
<1> QED  BY <1>3, <1>5, BufferSame, UnseenStep DEF IInv

\* an agent the loop leaves has no gNB that is still due
LEMMA VisitNext ==
  ASSUME IInv, visit \in Agent, visit' = visit + 1, due' \subseteq due,
         rnib_gnblist # <<>> /\ visit \in agentIp_socket => agentIp_gnbId[visit] \notin due',
         sending'[ControlT] = NoGnb,
         UNCHANGED <<rnib_gnblist, agentIp_gnbId, agentIp_socket, running>>
  PROVE  visit' \in 0..(Agents + 1) /\ Ending'
<1>1. visit' \in 0..(Agents + 1) /\ visit' # 0 /\ visit \in Nat /\ visit # Agents + 1
  BY ConstantsOK DEF Agent
<1>2. ASSUME NEW g \in due', rnib_gnblist # <<>>
      PROVE  \E a \in agentIp_socket : a >= visit + 1 /\ agentIp_gnbId[a] = g
  <2>1. PICK a \in agentIp_socket : a >= visit /\ agentIp_gnbId[a] = g
    BY <1>2 DEF IInv, Ending
  <2>2. a # visit /\ a \in Nat  BY <1>2, <2>1 DEF IInv, TypeOK, Agent
  <2> QED  BY <1>1, <2>1, <2>2
<1> QED  BY <1>1, <1>2 DEF IInv, Ending

LEMMA SkipAgentInv == ASSUME IInv, SkipAgent PROVE IInv'
<1> USE DEF SkipAgent
<1>1. NoGnb \notin due  BY ConstantsOK DEF IInv, TypeOK
<1>2. visit' \in 0..(Agents + 1) /\ Ending'
  BY <1>1, VisitNext DEF requests, agents, sender
<1>3. TypeOK'
  BY <1>2 DEF IInv, TypeOK, requests, table, reception, agents, sender
<1> QED  BY <1>2, <1>3, BufferSame, UnseenStep DEF IInv

LEMMA FillTerminationInv == ASSUME IInv, FillTermination PROVE IInv'
<1> USE DEF FillTermination
<1>1. visit \in Agent /\ agentIp_gnbId[visit] \in Gnb  BY DEF IInv, TypeOK
<1>2. /\ sending' \in [Threads -> Gnb \cup {NoGnb}] /\ header' \in Gnb \cup {NoGnb}
      /\ crossed' \in BOOLEAN /\ Buffer' /\ sending'[ControlT] = agentIp_gnbId[visit]
  BY <1>1, FillKeeps, ThreadsDistinct
<1>3. TypeOK'  BY <1>2 DEF IInv, TypeOK, requests, table, reception, agents, ending
<1>4. Ending'
  BY <1>1, <1>2 DEF IInv, Ending, requests, agents, ending
<1> QED  BY <1>2, <1>3, <1>4, UnseenStep DEF IInv

LEMMA SendTerminationInv ==
  ASSUME IInv, NEW ok \in BOOLEAN, SendTermination(ok)  PROVE IInv'
<1> USE DEF SendTermination
<1>1. /\ sending' \in [Threads -> Gnb \cup {NoGnb}] /\ header' \in Gnb \cup {NoGnb}
      /\ crossed' \in BOOLEAN /\ Buffer' /\ sending'[ControlT] = NoGnb
  BY EmitKeeps, ThreadsDistinct
<1>2. visit \in Agent /\ sending[ControlT] = agentIp_gnbId[visit]
  BY DEF IInv, Ending, Emit
<1>3. visit' \in 0..(Agents + 1) /\ Ending'
  BY <1>1, <1>2, VisitNext DEF requests, agents
<1>4. TypeOK'
  BY <1>1, <1>3 DEF IInv, TypeOK, requests, table, reception, agents
<1> QED  BY <1>1, <1>3, <1>4, UnseenStep DEF IInv

LEMMA KillInv == ASSUME IInv, Kill PROVE IInv'
<1> USE DEF Kill
<1>1. TypeOK'  BY DEF IInv, TypeOK, requests, table, reception, agents, sender, ending
<1>2. Ending'  BY DEF IInv, Ending, requests, agents, sender, ending
<1> QED  BY <1>1, <1>2, BufferSame, UnseenStep DEF IInv
-----------------------------------------------------------------------------
LEMMA StepInv == IInv /\ [Next]_vars => IInv'
<1> SUFFICES ASSUME IInv, [Next]_vars PROVE IInv'
  OBVIOUS
<1>1. CASE UNCHANGED vars
  <2>1. UNCHANGED <<requests, timedOut, table, reception, undialled, agentIp_socket, agents,
                    sender, ending, running>>
    BY <1>1 DEF vars
  <2>2. TypeOK'
    BY <2>1 DEF IInv, TypeOK, requests, table, reception, agents, sender, ending
  <2>3. Ending'  BY <2>1, EndingSame DEF IInv, requests, agents, sender
  <2> QED  BY <2>1, <2>2, <2>3, BufferSame, UnseenStep DEF IInv
<1>2. CASE MainThread
  BY <1>2, OpenAgentInv, AllOpenedInv, AddInv, FillRequestInv, TransmitInv, WakeInv, CheckInv,
     DeleteInv, AllSubscribedInv DEF MainThread
<1>3. CASE Elapse  BY <1>3, ElapseInv
<1>4. CASE Receiver
  BY <1>4, ResponseInv, IndicationInv, PresentInv, SetStatusInv DEF Receiver
<1>5. CASE AgentThread  BY <1>5, AgentFillsInv, AgentSendsInv DEF AgentThread
<1>6. CASE ControlThread
  BY <1>6, TerminateInv, SkipAgentInv, FillTerminationInv, SendTerminationInv, KillInv
     DEF ControlThread
<1> QED  BY <1>1, <1>2, <1>3, <1>4, <1>5, <1>6 DEF Next

LEMMA Inductive == Spec => []IInv
BY InitInv, StepInv, PTL DEF Spec

\* every variable keeps its type: no agent is dialled again, no position of the
\* list left unreturned
THEOREM TypeInv == Spec => []TypeOK
<1>1. IInv => TypeOK  BY DEF IInv
<1> QED  BY <1>1, Inductive, PTL

\* a refusal as a duplicate, and a lost entry, have the causes RefusalHasCause
\* names, whatever the list and however the answers come
THEOREM RefusalHasCauseInv == Spec => []RefusalHasCause
<1>1. IInv => RefusalHasCause  BY DEF IInv, Causes, RefusalHasCause
<1> QED  BY <1>1, Inductive, PTL

\* a subscription succeeds only if its gNB has answered or at its time-out,
\* even with races in the table
THEOREM SuccessIsAnsweredOrTimedOutInv == Spec => []SuccessIsAnsweredOrTimedOut
<1>1. IInv => SuccessIsAnsweredOrTimedOut  BY DEF IInv, Table
<1> QED  BY <1>1, Inductive, PTL

\* threads that do not meet in the send buffer send their own header
THEOREM OwnHeaderInv == Spec => []OwnHeader
<1>1. IInv => OwnHeader
  BY DEF IInv, TypeOK, Buffer, OwnHeader
<1> QED  BY <1>1, Inductive, PTL

\* no two agents get the same gNB
THEOREM OneAgentPerGnbInv == Spec => []OneAgentPerGnb
<1>1. IInv => OneAgentPerGnb  BY DEF IInv, Control
<1> QED  BY <1>1, Inductive, PTL

\* reports go to the agent that controls their gNB, unless none was free
THEOREM ReporterIsControlledInv == Spec => []ReporterIsControlled
<1>1. IInv => ReporterIsControlled  BY DEF IInv, Control
<1> QED  BY <1>1, Inductive, PTL

\* the xApp is not killed before every gNB with an agent was told of the end
THEOREM TerminationReachesAllInv == Spec => []TerminationReachesAll
<1>1. IInv => TerminationReachesAll
  <2> SUFFICES ASSUME IInv, ~running, rnib_gnblist # <<>>, NEW g \in due  PROVE FALSE
    BY DEF TerminationReachesAll
  <2>1. PICK a \in agentIp_socket : a >= Agents + 1  BY DEF IInv, Ending
  <2> QED  BY <2>1, ConstantsOK DEF IInv, TypeOK, Agent
<1> QED  BY <1>1, Inductive, PTL
=============================================================================
