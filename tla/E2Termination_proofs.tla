------------------------- MODULE E2Termination_proofs -------------------------
(***************************************************************************)
(* Proofs about E2Termination.  Routes, names and reports change together: *)
(* an entry appears with the name in the record of its connection, and     *)
(* goes with a report.  Nothing is assumed of the bounds.                  *)
(***************************************************************************)
EXTENDS E2Termination, SequenceTheorems, TLAPS

\* the connections, what they hold, and the names RANs have given on them
Sockets ==
  /\ sock \in [Conn -> {"new", "waiting", "open", "closed"}]
  /\ link \in [Conn -> {"up", "eof", "error"}]
  /\ backlog \in Seq(Conn)
  /\ \A i \in DOMAIN backlog : sock[backlog[i]] = "waiting"
  /\ \A i, j \in DOMAIN backlog : backlog[i] = backlog[j] => i = j

Honest(m, names) ==
  /\ m.ran \in Ran <=> m.content \in {"Setup", "BadFunctions"}
  /\ NameOf(m) \subseteq names

Input ==
  /\ inbox \in [Conn -> Seq(Message)]
  /\ said \in [Conn -> SUBSET (Ran \cup {NoRan})]
  /\ \A c \in Conn : \A i \in DOMAIN inbox[c] : Honest(inbox[c][i], said[c])

\* the listener reads open connections, and finds a request on an RMR event
Events ==
  /\ ready \subseteq Conn \cup {Listen} /\ batch \subseteq Event
  /\ reading \in Conn \cup {NoConn}
  /\ \A c \in Conn : reading = c => sock[c] = "open"
  /\ \A e, f \in batch : e.fd = f.fd => e = f
  /\ \A e \in batch : e.fd = Rmr => rmrQueue # <<>>

Routes ==
  /\ enodbName \in [Conn -> Ran \cup {NoRan}]
  /\ sctpMap \in [Ran -> Conn \cup {NoConn}] /\ forwarded \subseteq Conn
  /\ \A c \in Conn : enodbName[c] \in Ran => enodbName[c] \in said[c] /\ sock[c] \in {"open", "closed"}
  /\ \A n \in Ran : sctpMap[n] # NoConn => sock[sctpMap[n]] \in {"open", "closed"}
  /\ \A n \in Ran : LET c == sctpMap[n] IN
       c # NoConn /\ ~ChangedName(c) => enodbName[c] = n
  /\ RouteIsOpen /\ ReachableUnlessTakenOver

Reports ==
  /\ reported \in [Ran -> {"none", "up", "down"}]
  /\ lost \subseteq Ran /\ late \subseteq Ran
  /\ ReportedHasRoute /\ RouteIsReported

Rest ==
  /\ rmrQueue \in Seq(Request)
  /\ main \in {"announce", "wait", "repeat", "done"} /\ xapp \in BOOLEAN
  /\ left \subseteq Conn /\ cleared \subseteq Conn /\ stale \in BOOLEAN
  /\ sends \in 0..MaxSends /\ drops \in 0..MaxDrops /\ crashes \in 0..MaxCrashes

IInv == Sockets /\ Input /\ Events /\ Routes /\ Reports /\ Rest

-----------------------------------------------------------------------------
(* Steps that leave a part alone, or only add to it                        *)

LEMMA NamesSame ==
  ASSUME UNCHANGED said
  PROVE  Renamed' = Renamed /\ \A c : ChangedName(c)' = ChangedName(c)
BY DEF Renamed, ChangedName

LEMMA NamesGrow ==
  ASSUME \A c \in Conn : said[c] \subseteq said'[c]
  PROVE  (Renamed => Renamed') /\ \A c \in Conn : ChangedName(c) => ChangedName(c)'
BY DEF Renamed, ChangedName

LEMMA SocketsSame ==
  ASSUME Sockets, UNCHANGED <<sock, link, backlog>>  PROVE Sockets'
BY DEF Sockets

LEMMA InputSame ==
  ASSUME Input, UNCHANGED <<inbox, said>>  PROVE Input'
BY DEF Input, Honest, NameOf

LEMMA InputDiscarded ==
  ASSUME Input, NEW cs, Discard(cs), UNCHANGED said  PROVE Input'
<1>1. inbox' \in [Conn -> Seq(Message)]  BY DEF Input, Discard
<1>2. ASSUME NEW c \in Conn, NEW i \in DOMAIN inbox'[c]
      PROVE  Honest(inbox'[c][i], said'[c])
  <2>1. c \notin cs /\ inbox'[c] = inbox[c]  BY DEF Discard
  <2> QED  BY <2>1 DEF Input, Honest, NameOf
<1> QED  BY <1>1, <1>2 DEF Input

LEMMA EventsSame ==
  ASSUME Events, UNCHANGED <<batch, reading, sock>>, ready' \subseteq ready,
         rmrQueue # <<>> => rmrQueue' # <<>>
  PROVE  Events'
BY DEF Events, Event

LEMMA RoutesSame ==
  ASSUME Routes, UNCHANGED <<enodbName, sctpMap, forwarded, sock>>,
         \A c \in Conn : said[c] \subseteq said'[c]
  PROVE  Routes'
<1>1. RouteIsOpen'  BY DEF Routes, RouteIsOpen
<1>2. ReachableUnlessTakenOver'  BY DEF Routes, ReachableUnlessTakenOver
<1>3. ASSUME NEW n \in Ran, sctpMap[n] # NoConn, ~ChangedName(sctpMap[n])'
      PROVE  enodbName[sctpMap[n]] = n
  <2>1. sctpMap[n] \in Conn  BY <1>3 DEF Routes
  <2> QED  BY <1>3, <2>1, NamesGrow DEF Routes
<1> QED  BY <1>1, <1>2, <1>3 DEF Routes

LEMMA ReportsSame ==
  ASSUME Reports, UNCHANGED <<reported, lost, late, sctpMap, enodbName, forwarded>>,
         \A c \in Conn : said[c] \subseteq said'[c], main' = main \/ main # "announce"
  PROVE  Reports'
<1>1. ~Renamed' => ~Renamed  BY NamesGrow
<1> QED  BY <1>1 DEF Reports, ReportedHasRoute, RouteIsReported
-----------------------------------------------------------------------------
(* The RANs and the rest of the RIC                                        *)

LEMMA InitInv == Init => IInv
<1> SUFFICES ASSUME Init PROVE IInv
  OBVIOUS
<1>1. Sockets /\ Input  BY DEF Init, Sockets, Input
<1>4. Events  BY ConstantsOK DEF Init, Events
<1>5. Rest
  <2>1. 0 \in 0..MaxSends /\ 0 \in 0..MaxDrops /\ 0 \in 0..MaxCrashes  BY ConstantsOK
  <2>2. <<>> \in Seq(Request)  BY EmptySeq
  <2> QED  BY <2>1, <2>2 DEF Init, Rest
<1>2. Routes
  BY ConstantsOK DEF Init, Routes, RouteIsOpen, ReachableUnlessTakenOver, NoRoutes
<1>3. Reports  BY DEF Init, Reports, ReportedHasRoute, RouteIsReported
<1> QED  BY <1>1, <1>2, <1>3, <1>4, <1>5 DEF IInv

LEMMA DialInv == ASSUME IInv, NEW c \in Conn, Dial(c) PROVE IInv'
<1> USE DEF IInv, Dial, events, records, ric, reports, history
<1>1. Sockets'
  <2>1. sock' \in [Conn -> {"new", "waiting", "open", "closed"}] /\ backlog' \in Seq(Conn)
    BY DEF Sockets
  <2>2. /\ DOMAIN backlog' = 1..Len(backlog) + 1 /\ DOMAIN backlog = 1..Len(backlog)
        /\ \A i \in 1..Len(backlog) : backlog'[i] = backlog[i] /\ backlog[i] \in Conn
        /\ backlog'[Len(backlog) + 1] = c /\ Len(backlog) \in Nat
    BY DEF Sockets
  <2>3. \A i \in 1..Len(backlog) : backlog'[i] # c /\ sock'[backlog'[i]] = "waiting"
    BY <2>2 DEF Sockets
  <2>4. sock'[c] = "waiting"  BY DEF Sockets
  <2>5. \A i \in DOMAIN backlog' : sock'[backlog'[i]] = "waiting"  BY <2>2, <2>3, <2>4
  <2>6. ASSUME NEW i \in DOMAIN backlog', NEW j \in DOMAIN backlog', backlog'[i] = backlog'[j]
        PROVE  i = j
    <3>1. CASE i = Len(backlog) + 1  BY <2>2, <2>3, <2>6, <3>1
    <3>2. CASE j = Len(backlog) + 1  BY <2>2, <2>3, <2>6, <3>2
    <3>3. CASE i \in 1..Len(backlog) /\ j \in 1..Len(backlog)
      BY <2>2, <2>6, <3>3 DEF Sockets
    <3> QED  BY <2>2, <3>1, <3>2, <3>3
  <2> QED  BY <2>1, <2>5, <2>6 DEF Sockets
<1>2. Input' /\ Reports' /\ Rest'  BY InputSame, ReportsSame DEF Rest
<1>3. Events'  BY DEF Events, Sockets, Event
<1>4. Routes'
  BY ConstantsOK, NamesSame DEF Routes, RouteIsOpen, ReachableUnlessTakenOver, Sockets
<1> QED  BY <1>1, <1>2, <1>3, <1>4

LEMMA SendInv == ASSUME IInv, NEW c \in Conn, NEW m \in Message, Send(c, m) PROVE IInv'
<1> USE DEF IInv, Send, events, records, ric, reports, history
<1>1. Input'
  <2>1. NameOf(m) \subseteq Ran \cup {NoRan}  BY DEF Message, NameOf
  <2>2. said' \in [Conn -> SUBSET (Ran \cup {NoRan})]  BY <2>1 DEF Input
  <2>3. inbox' \in [Conn -> Seq(Message)]  BY DEF Input
  <2>4. /\ \A d \in Conn : said[d] \subseteq said'[d]
        /\ said'[c] = said[c] \cup NameOf(m) /\ \A d \in Conn : d # c => said'[d] = said[d]
    BY DEF Input
  <2>5. ASSUME NEW d \in Conn, NEW i \in DOMAIN inbox'[d]
        PROVE  Honest(inbox'[d][i], said'[d])
    <3>1. CASE d # c
      BY <2>4, <3>1 DEF Input, Honest
    <3>2. CASE d = c
      <4>1. inbox'[d] = Append(inbox[c], m) /\ inbox[c] \in Seq(Message)  BY <3>2 DEF Input
      <4>2. CASE i = Len(inbox[c]) + 1
        <5>1. inbox'[d][i] = m  BY <4>1, <4>2
        <5> QED  BY <5>1, <2>4, <3>2 DEF Honest
      <4>3. CASE i \in 1..Len(inbox[c])
        <5>1. inbox'[d][i] = inbox[c][i]  BY <4>1, <4>3
        <5> QED  BY <5>1, <4>1, <4>3, <2>4, <3>2 DEF Input, Honest
      <4> QED  BY <4>1, <4>2, <4>3
    <3> QED  BY <3>1, <3>2
  <2> QED  BY <2>2, <2>3, <2>5 DEF Input
<1>2. Sockets' /\ Reports' /\ Rest'
  BY ConstantsOK, SocketsSame, ReportsSame DEF Rest
<1>3. Events'  BY DEF Events, Sockets, Event, Pending
<1>4. Routes'  BY RoutesSame DEF Input
<1> QED  BY <1>1, <1>2, <1>3, <1>4

LEMMA HangUpInv ==
  ASSUME IInv, NEW c \in Conn, NEW how \in {"eof", "error"}, HangUp(c, how) PROVE IInv'
<1> USE DEF IInv, HangUp, events, records, ric, reports, history
<1>1. Sockets'  BY DEF Sockets
<1>2. Input' /\ Routes' /\ Reports' /\ Rest'  BY InputSame, RoutesSame, ReportsSame DEF Rest
<1>3. Events'  BY DEF Events, Event, Pending
<1> QED  BY <1>1, <1>2, <1>3

LEMMA RicSendsInv == ASSUME IInv, NEW r \in Request, RicSends(r) PROVE IInv'
<1> USE DEF IInv, RicSends, net, events, records, reports, history
<1>1. rmrQueue' \in Seq(Request) /\ rmrQueue' # <<>>  BY DEF Rest
<1>2. Sockets' /\ Input' /\ Routes' /\ Reports'
  BY SocketsSame, InputSame, RoutesSame, ReportsSame
<1>3. Events' /\ Rest'  BY <1>1, EventsSame DEF Rest
<1> QED  BY <1>2, <1>3
-----------------------------------------------------------------------------
(* Reports                                                                 *)

LEMMA DroppedType == ASSUME Rest, Dropped PROVE drops' \in 0..MaxDrops
BY ConstantsOK DEF Rest, Dropped

\* a failure is reported and the name erased: whatever else the step does, a
\* route that is left is as good as it was
LEMMA ErasedReports ==
  ASSUME Reports, Routes, Rest, NEW n \in Ran \cup {NoRan}, Report(n, "down"),
         sctpMap' = Erase(sctpMap, n), UNCHANGED <<enodbName, forwarded, main, said>>
  PROVE  Reports' /\ drops' \in 0..MaxDrops
<1>1. drops' \in 0..MaxDrops  BY DroppedType DEF Report, Rest
<1>2. /\ reported' \in [Ran -> {"none", "up", "down"}] /\ lost' \subseteq Ran /\ late' \subseteq Ran
      /\ \A p \in Ran : p # n => (p \in lost' <=> p \in lost) /\ (p \in late' <=> p \in late)
                                 /\ reported'[p] = reported[p]
      /\ n \in Ran => n \in lost' \/ reported'[n] = "down"
  BY DEF Report, Reports
<1>3. \A p \in Ran : sctpMap'[p] = IF p = n THEN NoConn ELSE sctpMap[p]
  BY DEF Erase
<1>4. ReportedHasRoute'  BY <1>2, <1>3, NamesSame DEF Reports, ReportedHasRoute
<1>5. RouteIsReported'
  <2>1. NoConn \notin forwarded  BY ConstantsOK DEF Routes
  <2> QED  BY <1>2, <1>3, <2>1 DEF Reports, RouteIsReported
<1> QED  BY <1>1, <1>2, <1>4, <1>5 DEF Reports

\* the entry of n is erased, and a connection that announced n is closed or
\* was closed before
LEMMA ErasedRoutes ==
  ASSUME Routes, Input, Sockets, NEW c \in Conn,
         sctpMap' = Erase(sctpMap, enodbName[c]),
         sock' = [sock EXCEPT ![c] = "closed"], UNCHANGED <<enodbName, forwarded, said>>
  PROVE  Routes'
<1>1. \A p \in Ran : sctpMap'[p] = IF p = enodbName[c] THEN NoConn ELSE sctpMap[p]
  BY DEF Erase
<1>2. sctpMap' \in [Ran -> Conn \cup {NoConn}]  BY DEF Erase, Routes
<1>3. \A d \in Conn : sock'[d] = IF d = c THEN "closed" ELSE sock[d]  BY DEF Sockets
<1>4. RouteIsOpen'  BY <1>1, <1>2, <1>3 DEF Routes, RouteIsOpen
<1>5. ReachableUnlessTakenOver'
  <2> SUFFICES ASSUME NEW d \in Conn, sock[d] = "open", d # c, enodbName[d] \in Ran,
                      sctpMap'[enodbName[d]] # d
               PROVE  \E x \in Conn \ {d} : enodbName[d] \in said[x]
    BY <1>3 DEF ReachableUnlessTakenOver
  <2>1. CASE enodbName[d] = enodbName[c]
    <3>1. enodbName[c] \in said[c]  BY <2>1 DEF Routes
    <3> QED  BY <2>1, <3>1
  <2>2. CASE enodbName[d] # enodbName[c]
    BY <1>1, <2>2 DEF Routes, ReachableUnlessTakenOver
  <2> QED  BY <2>1, <2>2
<1>6. \A n \in Ran : sctpMap'[n] # NoConn /\ ~ChangedName(sctpMap[n])' => enodbName'[sctpMap'[n]] = n
  <2> TAKE n \in Ran
  <2> SUFFICES ASSUME sctpMap'[n] # NoConn, ~ChangedName(sctpMap[n])'  PROVE enodbName[sctpMap[n]] = n
    BY <1>1
  <2>1. sctpMap'[n] = sctpMap[n]  BY <1>1
  <2> QED  BY <2>1, NamesSame DEF Routes, ChangedName
<1>7. \A d \in Conn : enodbName[d] \in Ran => enodbName[d] \in said[d] /\ sock'[d] \in {"open", "closed"}
  BY <1>3 DEF Routes
<1>8. \A p \in Ran : sctpMap'[p] # NoConn => sock'[sctpMap'[p]] \in {"open", "closed"}
  BY <1>1, <1>2, <1>3, ConstantsOK DEF Routes
<1> QED  BY <1>2, <1>4, <1>5, <1>6, <1>7, <1>8 DEF Routes
-----------------------------------------------------------------------------
(* The listener                                                            *)

LEMMA SocketsClosed ==
  ASSUME Sockets, NEW c \in Conn, sock[c] # "waiting",
         sock' = [sock EXCEPT ![c] = "closed"], UNCHANGED <<link, backlog>>
  PROVE  Sockets'
<1>1. backlog \in Seq(Conn)  BY DEF Sockets
<1>2. \A i \in DOMAIN backlog : backlog[i] # c /\ backlog[i] \in Conn  BY <1>1 DEF Sockets
<1> QED  BY <1>1, <1>2 DEF Sockets

LEMMA CloseInv ==
  ASSUME IInv, NEW c \in Conn, sock[c] = "open", Close(c)
  PROVE  Sockets' /\ Input' /\ Routes' /\ Reports' /\ Rest'
<1> USE DEF IInv, Close, ric
<1>1. Sockets'  BY SocketsClosed
<1>2. Input'  BY InputDiscarded
<1>3. Routes'  BY ErasedRoutes
<1>4. enodbName[c] \in Ran \cup {NoRan}  BY DEF Routes
<1>5. Reports' /\ drops' \in 0..MaxDrops  BY <1>4, ErasedReports
<1>6. Rest'  BY <1>5 DEF Rest
<1> QED  BY <1>1, <1>2, <1>3, <1>5, <1>6

LEMMA EpollWaitInv == ASSUME IInv, EpollWait PROVE IInv'
<1> USE DEF IInv, EpollWait, net, records, ric, reports, history
<1>1. Sockets' /\ Input' /\ Routes' /\ Reports' /\ Rest'
  BY SocketsSame, InputSame, RoutesSame, ReportsSame DEF Rest
<1>2. \A e \in batch' :
        \/ \E fd \in ready : e = [fd |-> fd, err |-> fd # Listen /\ link[fd] = "error"]
        \/ e = [fd |-> Rmr, err |-> FALSE] /\ DOMAIN rmrQueue # {}
  BY DEF EventsOfSockets
<1>3. ready \subseteq Conn \cup {Listen} /\ ready' = {}  BY DEF Events
<1>4. ASSUME NEW e \in batch' PROVE e \in Event /\ (e.fd = Rmr => DOMAIN rmrQueue # {})
  <2>1. CASE e = [fd |-> Rmr, err |-> FALSE] /\ DOMAIN rmrQueue # {}  BY <2>1 DEF Event
  <2>2. ASSUME NEW fd \in ready, e = [fd |-> fd, err |-> fd # Listen /\ link[fd] = "error"]
        PROVE  e \in Event /\ e.fd # Rmr
    <3>1. PICK b \in BOOLEAN : b = (fd # Listen /\ link[fd] = "error")  OBVIOUS
    <3>2. e = [fd |-> fd, err |-> b]  BY <2>2, <3>1
    <3> QED  BY ConstantsOK, <1>3, <3>2 DEF Event
  <2> QED  BY <1>2, <2>1, <2>2
<1>5. \A e, f \in batch' : e.fd = f.fd => e = f
  <2> TAKE e, f \in batch'
  <2>1. CASE e = [fd |-> Rmr, err |-> FALSE]  BY ConstantsOK, <1>2, <1>3, <2>1
  <2>2. CASE f = [fd |-> Rmr, err |-> FALSE]  BY ConstantsOK, <1>2, <1>3, <2>2
  <2>3. CASE e # [fd |-> Rmr, err |-> FALSE] /\ f # [fd |-> Rmr, err |-> FALSE]
    BY <1>2, <2>3
  <2> QED  BY <2>1, <2>2, <2>3
<1>6. DOMAIN rmrQueue # {} => rmrQueue' # <<>>  BY DEF Rest
<1> QED  BY <1>1, <1>3, <1>4, <1>5, <1>6 DEF Events, Idle

LEMMA AcceptInv == ASSUME IInv, Accept PROVE IInv'
<1> USE DEF IInv, Accept, records, ric, reports, history
<1>1. Reports' /\ Rest'  BY ReportsSame DEF Rest
<1>2. CASE backlog = <<>> /\ UNCHANGED <<sock, inbox, backlog, ready>>
  <2>1. Sockets' /\ Input' /\ Routes'  BY <1>2, SocketsSame, InputSame, RoutesSame
  <2>2. Events'  BY <1>2 DEF Events, Takes
  <2> QED  BY <1>1, <2>1, <2>2
<1>3. CASE backlog # <<>>
  <2> DEFINE c == Head(backlog)
  <2>1. /\ backlog \in Seq(Conn) /\ c \in Conn /\ c = backlog[1] /\ backlog' = Tail(backlog)
        /\ 1 \in DOMAIN backlog
    BY <1>3 DEF Sockets
  <2>2. sock[c] = "waiting"  BY <2>1 DEF Sockets
  <2>3. PICK to \in {"open", "closed"} : sock' = [sock EXCEPT ![c] = to]  BY <1>3
  <2> HIDE DEF c
  <2>4. Sockets'
    <3>1. backlog' \in Seq(Conn) /\ Len(backlog') = Len(backlog) - 1 /\ Len(backlog) \in Nat
      BY <1>3, <2>1
    <3>9. \A q \in Seq(Conn) : DOMAIN q = 1..Len(q)
      OBVIOUS
    <3>7. DOMAIN backlog' = 1..Len(backlog') /\ DOMAIN backlog = 1..Len(backlog)
      BY <2>1, <3>1, <3>9, Zenon
    <3>8. \A i \in 1..Len(Tail(backlog)) : Tail(backlog)[i] = backlog[i + 1]
      BY <1>3, <2>1, HeadTailProperties
    <3>6. \A i \in 1..Len(backlog') : backlog'[i] = backlog[i + 1]
      BY <2>1, <3>8
    <3>2. \A i \in DOMAIN backlog' : i + 1 \in DOMAIN backlog /\ i + 1 # 1 /\ backlog'[i] = backlog[i + 1]
      BY <3>1, <3>6, <3>7
    <3>3. \A i \in DOMAIN backlog' : backlog'[i] # c /\ sock'[backlog'[i]] = "waiting"
      <4> TAKE i \in DOMAIN backlog'
      <4>1. backlog[i + 1] # backlog[1] /\ sock[backlog[i + 1]] = "waiting"
        BY <2>1, <3>2 DEF Sockets
      <4>2. backlog[i + 1] \in Conn  BY <2>1, <3>2
      <4> QED  BY <2>1, <2>3, <3>2, <4>1, <4>2 DEF Sockets
    <3>4. ASSUME NEW i \in DOMAIN backlog', NEW j \in DOMAIN backlog', backlog'[i] = backlog'[j]
          PROVE  i = j
      <4>1. i + 1 = j + 1  BY <3>2, <3>4 DEF Sockets
      <4> QED  BY <3>1, <4>1
    <3>5. sock' \in [Conn -> {"new", "waiting", "open", "closed"}] /\ link' = link
      BY <2>3 DEF Sockets
    <3> QED  BY <3>1, <3>3, <3>4, <3>5 DEF Sockets
  <2>5. Input'
    <3>1. (UNCHANGED inbox) \/ Discard({c})  BY <1>3 DEF c
    <3> QED  BY <3>1, InputSame, InputDiscarded
  <2>6. Events'
    <3>1. ready' \subseteq ready \cup {c}  BY <1>3 DEF c, Watch
    <3> QED  BY <2>1, <2>2, <2>3, <3>1 DEF Events, Takes
  <2>7. Routes'
    <3>1. enodbName[c] \notin Ran  BY <2>1, <2>2 DEF Routes
    <3>2. \A d \in Conn : d # c => sock'[d] = sock[d]  BY <2>1, <2>3 DEF Sockets
    <3>3. RouteIsOpen'  BY <3>1, <3>2 DEF Routes, RouteIsOpen
    <3>4. ReachableUnlessTakenOver'  BY <3>1, <3>2 DEF Routes, ReachableUnlessTakenOver
    <3>5. \A p \in Ran : sctpMap[p] # NoConn => sctpMap[p] # c /\ sctpMap[p] \in Conn
      BY <2>2 DEF Routes
    <3>6. \A p \in Ran : sctpMap[p] # NoConn => sock'[sctpMap[p]] \in {"open", "closed"}
      BY <3>2, <3>5 DEF Routes
    <3>7. \A d : ChangedName(d)' = ChangedName(d)  BY NamesSame
    <3> QED  BY <3>1, <3>2, <3>3, <3>4, <3>6, <3>7 DEF Routes
  <2> QED  BY <1>1, <2>4, <2>5, <2>6, <2>7
<1> QED  BY <1>2, <1>3

LEMMA PollErrorInv == ASSUME IInv, NEW c \in Conn, PollError(c) PROVE IInv'
<1>1. Sockets' /\ Input' /\ Routes' /\ Reports' /\ Rest'  BY CloseInv DEF PollError
<1>2. Events'
  <2>1. ready' \subseteq ready /\ batch' \subseteq batch /\ UNCHANGED <<reading, rmrQueue>> /\ reading = NoConn
    BY DEF PollError, Close, ric
  <2> QED  BY ConstantsOK, <2>1 DEF IInv, Events
<1> QED  BY <1>1, <1>2 DEF IInv

LEMMA StartReadingInv == ASSUME IInv, NEW c \in Conn, StartReading(c) PROVE IInv'
<1> USE DEF IInv, StartReading, net, records, ric, reports, history
<1>1. Sockets' /\ Input' /\ Routes' /\ Reports' /\ Rest'
  BY SocketsSame, InputSame, RoutesSame, ReportsSame DEF Rest
<1>2. Events'  BY DEF Events, Takes
<1> QED  BY <1>1, <1>2

LEMMA ReadNothingInv == ASSUME IInv, NEW c \in Conn, ReadNothing(c) PROVE IInv'
<1> USE DEF IInv, ReadNothing, net, records, ric, reports, history
<1>1. Sockets' /\ Input' /\ Routes' /\ Reports' /\ Rest'
  BY SocketsSame, InputSame, RoutesSame, ReportsSame DEF Rest
<1>2. Events'  BY ConstantsOK DEF Events
<1> QED  BY <1>1, <1>2

LEMMA ReadEndInv == ASSUME IInv, NEW c \in Conn, ReadEnd(c) PROVE IInv'
<1>1. sock[c] = "open"  BY DEF ReadEnd, IInv, Events
<1>2. Sockets' /\ Input' /\ Routes' /\ Reports' /\ Rest'  BY <1>1, CloseInv DEF ReadEnd
<1>3. Events'
  <2>1. ready' \subseteq ready /\ batch' = batch /\ rmrQueue' = rmrQueue /\ reading' = NoConn
    BY DEF ReadEnd, Close, ric
  <2> QED  BY ConstantsOK, <2>1 DEF IInv, Events
<1> QED  BY <1>2, <1>3 DEF IInv

\* what a read leaves behind, and what it takes
LEMMA ReadInput ==
  ASSUME Input, NEW c \in Conn, inbox[c] # <<>>,
         inbox' = [inbox EXCEPT ![c] = Tail(@)], UNCHANGED said
  PROVE  Input' /\ Head(inbox[c]) \in Message /\ Honest(Head(inbox[c]), said[c])
<1> DEFINE q == inbox[c]
<1>1. q \in Seq(Message) /\ q # <<>>  BY DEF Input
<1>2. Head(q) = q[1] /\ 1 \in DOMAIN q  BY <1>1
<1>3. Head(q) \in Message /\ Tail(q) \in Seq(Message)  BY <1>1, HeadTailProperties
<1>4. Honest(Head(q), said[c])  BY <1>2 DEF Input
<1>5. ASSUME NEW i \in DOMAIN Tail(q) PROVE i + 1 \in DOMAIN q /\ Tail(q)[i] = q[i + 1]
  <2>1. Len(Tail(q)) = Len(q) - 1 /\ Len(q) \in Nat /\ \A j \in 1..Len(Tail(q)) : Tail(q)[j] = q[j + 1]
    BY <1>1, HeadTailProperties
  <2>2. DOMAIN Tail(q) = 1..Len(Tail(q)) /\ DOMAIN q = 1..Len(q)  BY <1>1, <1>3, LenProperties
  <2> QED  BY <2>1, <2>2
<1>6. inbox'[c] = Tail(q) /\ \A d \in Conn : d # c => inbox'[d] = inbox[d]  BY DEF Input
<1>7. ASSUME NEW d \in Conn, NEW i \in DOMAIN inbox'[d]
      PROVE  Honest(inbox'[d][i], said'[d])
  <2>1. CASE d = c  BY <1>5, <1>6, <2>1 DEF Input
  <2>2. CASE d # c  BY <1>6, <2>2 DEF Input
  <2> QED  BY <2>1, <2>2
<1>8. inbox' \in [Conn -> Seq(Message)]  BY <1>3 DEF Input
<1> QED  BY <1>3, <1>4, <1>7, <1>8 DEF Input

\* the record takes a name the RAN has given, and the table the entry
LEMMA NamedRoutes ==
  ASSUME Routes, Input, NEW c \in Conn, sock[c] = "open", NEW n \in Ran, n \in said[c],
         enodbName' = [enodbName EXCEPT ![c] = n], sctpMap' = [sctpMap EXCEPT ![n] = c],
         forwarded' \subseteq Conn, UNCHANGED <<sock, said>>
  PROVE  Routes'
<1>1. /\ enodbName' \in [Conn -> Ran \cup {NoRan}] /\ sctpMap' \in [Ran -> Conn \cup {NoConn}]
      /\ \A d \in Conn : enodbName'[d] = IF d = c THEN n ELSE enodbName[d]
      /\ \A p \in Ran : sctpMap'[p] = IF p = n THEN c ELSE sctpMap[p]
  BY DEF Routes
<1>2. \A d \in Conn : enodbName'[d] \in Ran => enodbName'[d] \in said'[d] /\ sock'[d] \in {"open", "closed"}
  BY <1>1 DEF Routes
<1>3. ASSUME NEW p \in Ran, sctpMap'[p] # NoConn, ~ChangedName(sctpMap[p])'
      PROVE  enodbName'[sctpMap'[p]] = p
  <2>1. CASE p = n  BY <1>1, <2>1
  <2>2. CASE p # n /\ sctpMap[p] = c
    <3>1. p \in said[c]  BY ConstantsOK, <2>2 DEF Routes, RouteIsOpen
    <3> QED  BY <1>1, <1>3, <2>2, <3>1 DEF ChangedName
  <2>3. CASE p # n /\ sctpMap[p] # c
    <3>1. sctpMap'[p] = sctpMap[p] /\ sctpMap[p] \in Conn  BY <1>1, <1>3, <2>3 DEF Routes
    <3> QED  BY <1>1, <1>3, <2>3, <3>1 DEF Routes, ChangedName
  <2> QED  BY <2>1, <2>2, <2>3
<1>4. RouteIsOpen'  BY <1>1 DEF Routes, RouteIsOpen
<1>5. ReachableUnlessTakenOver'
  <2> SUFFICES ASSUME NEW d \in Conn, sock[d] = "open", enodbName'[d] \in Ran,
                      sctpMap'[enodbName'[d]] # d
               PROVE  \E x \in Conn \ {d} : enodbName'[d] \in said[x]
    BY DEF ReachableUnlessTakenOver
  <2>1. d # c  BY <1>1
  <2>2. CASE enodbName[d] = n  BY <1>1, <2>1, <2>2
  <2>3. CASE enodbName[d] # n  BY <1>1, <2>1, <2>3 DEF Routes, ReachableUnlessTakenOver
  <2> QED  BY <2>2, <2>3
<1> QED  BY <1>1, <1>2, <1>3, <1>4, <1>5 DEF Routes

LEMMA SetupReports ==
  ASSUME Reports, Routes, Rest, NEW c \in Conn, NEW n \in Ran, Setup(c, n), UNCHANGED <<main, said>>
  PROVE  Reports' /\ drops' \in 0..MaxDrops
<1>1. drops' \in 0..MaxDrops  BY DroppedType DEF Setup, Report, Rest
<1>2. /\ reported' \in [Ran -> {"none", "up", "down"}] /\ lost' \subseteq Ran /\ late' \subseteq Ran
      /\ \A p \in Ran : p # n => (p \in lost' <=> p \in lost) /\ (p \in late' <=> p \in late)
                                 /\ reported'[p] = reported[p]
      /\ n \in lost' \/ reported'[n] = "up"
  BY DEF Setup, Report, Reports
<1>3. /\ \A p \in Ran : sctpMap'[p] = IF p = n THEN c ELSE sctpMap[p]
      /\ \A d \in Conn : enodbName'[d] = IF d = c THEN n ELSE enodbName[d]
  BY DEF Setup, Routes
<1>4. ReportedHasRoute'  BY ConstantsOK, NamesSame, <1>2, <1>3 DEF Reports, ReportedHasRoute
<1>5. RouteIsReported'
  <2>1. /\ forwarded \subseteq Conn
        /\ \A d \in forwarded' : IF d = c THEN n \notin lost' ELSE d \in forwarded
    BY DEF Setup, Routes
  <2> QED  BY <1>2, <1>3, <2>1 DEF Reports, RouteIsReported
<1> QED  BY <1>1, <1>2, <1>4, <1>5 DEF Reports

LEMMA BadFunctionsReports ==
  ASSUME Reports, Routes, Rest, NEW c \in Conn, NEW n \in Ran, SetupBadFunctions(c, n), UNCHANGED <<main, said>>
  PROVE  Reports' /\ drops' \in 0..MaxDrops
<1> USE DEF SetupBadFunctions, reports
<1>3. /\ \A p \in Ran : sctpMap'[p] = IF p = n THEN c ELSE sctpMap[p]
      /\ \A d \in Conn : enodbName'[d] = IF d = c THEN n ELSE enodbName[d]
  BY DEF Routes
<1>4. ReportedHasRoute'  BY ConstantsOK, NamesSame, <1>3 DEF Reports, ReportedHasRoute
<1>5. RouteIsReported'
  <2>1. \A d \in forwarded' : d # c /\ d \in forwarded /\ d \in Conn  BY DEF Routes
  <2> QED  BY <1>3, <2>1 DEF Reports, RouteIsReported
<1> QED  BY <1>4, <1>5 DEF Reports, Rest

\* a name that cannot be read is a change of name, whether or not the setup
\* goes out under the old one
LEMMA BadNameInv ==
  ASSUME Reports, Routes, Input, Rest, NEW c \in Conn, sock[c] = "open", NoRan \in said[c],
         SetupBadName(c), main' = main, UNCHANGED <<sock, said>>
  PROVE  Routes' /\ Reports' /\ drops' \in 0..MaxDrops
<1> USE DEF SetupBadName
<1>1. \A d \in Conn : enodbName'[d] = IF d = c THEN NoRan ELSE enodbName[d]  BY DEF Routes
<1>2. enodbName' \in [Conn -> Ran \cup {NoRan}] /\ forwarded' \subseteq Conn  BY DEF Routes
<1>3. ASSUME NEW p \in Ran, sctpMap[p] # NoConn, ~ChangedName(sctpMap[p])'
      PROVE  enodbName'[sctpMap[p]] = p
  <2>1. p \in said[sctpMap[p]] /\ sctpMap[p] \in Conn  BY <1>3 DEF Routes, RouteIsOpen
  <2>2. sctpMap[p] # c  BY ConstantsOK, <1>3, <2>1 DEF ChangedName
  <2> QED  BY <1>1, <1>3, <2>1, <2>2, NamesSame DEF Routes
<1>4. RouteIsOpen'
  <2> SUFFICES ASSUME NEW n \in Ran, sctpMap[n] # NoConn
               PROVE  /\ n \in said[sctpMap[n]]
                      /\ sock[sctpMap[n]] = "open" \/ enodbName'[sctpMap[n]] # n
    BY DEF RouteIsOpen
  <2> QED  BY <1>1 DEF Routes, RouteIsOpen
<1>5. ReachableUnlessTakenOver'
  BY ConstantsOK, <1>1 DEF Routes, ReachableUnlessTakenOver
<1>6. Routes'  BY ConstantsOK, <1>1, <1>2, <1>3, <1>4, <1>5 DEF Routes
<1>7. \A d \in forwarded' : d # c /\ d \in forwarded /\ d \in Conn  BY DEF Routes
<1>8. CASE UNCHANGED <<reports, drops>>
  <2>1. RouteIsReported'  BY <1>1, <1>7, <1>8 DEF Reports, RouteIsReported, reports
  <2> QED  BY <1>6, <1>8, <2>1, NamesSame DEF Reports, ReportedHasRoute, Rest, reports
<1>9. CASE Report(enodbName[c], "up")
  <2> DEFINE n == enodbName[c]
  <2>1. drops' \in 0..MaxDrops  BY <1>9, DroppedType DEF Report, Rest
  <2>2. n \in Ran \cup {NoRan}  BY DEF Routes
  <2>3. /\ reported' \in [Ran -> {"none", "up", "down"}] /\ lost' \subseteq Ran /\ late' \subseteq Ran
        /\ \A p \in Ran : p # n => (p \in lost' <=> p \in lost) /\ (p \in late' <=> p \in late)
                                   /\ reported'[p] = reported[p]
        /\ n \in Ran => n \in lost' \/ reported'[n] = "up"
    BY <1>9, <2>2 DEF Report, Reports
  <2>4. n \in Ran => ChangedName(c)'  BY ConstantsOK DEF Routes, ChangedName
  <2>5. ReportedHasRoute'
    BY <2>2, <2>3, <2>4, NamesSame DEF Reports, ReportedHasRoute, Renamed
  <2>6. RouteIsReported'  BY <1>1, <1>7, <2>2, <2>3 DEF Reports, RouteIsReported
  <2> QED  BY <1>6, <2>1, <2>3, <2>5, <2>6 DEF Reports
<1> QED  BY <1>8, <1>9

LEMMA ReadInv == ASSUME IInv, NEW c \in Conn, Read(c) PROVE IInv'
<1> DEFINE m == Head(inbox[c])
<1> USE DEF IInv
<1>1. sock[c] = "open"  BY DEF Read, Events
<1>2. /\ inbox[c] # <<>> /\ inbox' = [inbox EXCEPT ![c] = Tail(@)] /\ Handle(c, m)
      /\ UNCHANGED <<sock, link, backlog, ready, batch, rmrQueue, main, xapp, said, cleared, stale, sends, crashes>>
      /\ left' \subseteq Conn /\ reading' \in {NoConn, c}
  BY DEF Read, ric, Rest
<1>3. Input' /\ m \in Message /\ Honest(m, said[c])  BY <1>2, ReadInput
<1> HIDE DEF m
<1>4. Sockets'  BY <1>2, SocketsSame
<1>5. Events'  BY ConstantsOK, <1>1, <1>2 DEF Events
<1>6. Routes' /\ Reports' /\ drops' \in 0..MaxDrops
  <2>1. CASE m.content = "Setup" /\ Setup(c, m.ran)
    <3>1. m.ran \in Ran /\ m.ran \in said[c]  BY <1>3, <2>1 DEF Honest, NameOf
    <3>2. Reports' /\ drops' \in 0..MaxDrops  BY <1>2, <2>1, <3>1, SetupReports
    <3>3. /\ enodbName' = [enodbName EXCEPT ![c] = m.ran] /\ sctpMap' = [sctpMap EXCEPT ![m.ran] = c]
          /\ forwarded' \subseteq Conn
      BY <2>1 DEF Setup, Routes
    <3>4. Routes'  BY <1>1, <1>2, <3>1, <3>3, NamedRoutes
    <3> QED  BY <3>2, <3>4
  <2>2. CASE m.content = "BadFunctions" /\ SetupBadFunctions(c, m.ran)
    <3>1. m.ran \in Ran /\ m.ran \in said[c]  BY <1>3, <2>2 DEF Honest, NameOf
    <3>2. Reports' /\ drops' \in 0..MaxDrops  BY <1>2, <2>2, <3>1, BadFunctionsReports
    <3>3. /\ enodbName' = [enodbName EXCEPT ![c] = m.ran] /\ sctpMap' = [sctpMap EXCEPT ![m.ran] = c]
          /\ forwarded' \subseteq Conn
      BY <2>2 DEF SetupBadFunctions, Routes
    <3>4. Routes'  BY <1>1, <1>2, <3>1, <3>3, NamedRoutes
    <3> QED  BY <3>2, <3>4
  <2>3. CASE m.content = "BadName" /\ SetupBadName(c)
    <3>1. NoRan \in said[c]  BY <1>3, <2>3 DEF Honest, NameOf, Message
    <3> QED  BY <1>1, <1>2, <2>3, <3>1, BadNameInv
  <2>4. CASE Relay
    BY <1>2, <2>4, RoutesSame, ReportsSame DEF Relay, records, reports, Rest, Input
  <2> QED  BY <1>2, <2>1, <2>2, <2>3, <2>4 DEF Handle
<1>7. Rest'  BY <1>2, <1>6 DEF Rest
<1> QED  BY <1>3, <1>4, <1>5, <1>6, <1>7
-----------------------------------------------------------------------------
(* Requests from RMR                                                       *)

\* the event of RMR and one request are taken
LEMMA RequestTaken ==
  ASSUME IInv, NEW k, TakesRequest(k), UNCHANGED <<reading, sock>>, ready' \subseteq ready
  PROVE  rmrQueue' \in Seq(Request) /\ Events' /\ Head(rmrQueue) \in Request
<1> USE DEF IInv, TakesRequest, Takes
<1>1. PICK e \in batch : e.fd = Rmr /\ ~e.err /\ batch' = batch \ {e}  OBVIOUS
<1>2. rmrQueue # <<>> /\ rmrQueue \in Seq(Request)  BY <1>1 DEF Events, Rest
<1>3. rmrQueue' \in Seq(Request) /\ Head(rmrQueue) \in Request  BY <1>2, HeadTailProperties
<1>4. \A f \in batch' : f.fd # Rmr  BY <1>1 DEF Events
<1>5. Events'  BY <1>1, <1>4, ConstantsOK DEF Events
<1> QED  BY <1>3, <1>5

LEMMA RequestSame ==
  ASSUME IInv, NEW k, TakesRequest(k), stale' \in BOOLEAN,
         UNCHANGED <<net, ready, reading, records, main, reports, said, left, cleared, sends, drops, crashes>>
  PROVE  IInv'
<1> USE DEF net, records, reports
<1>1. rmrQueue' \in Seq(Request) /\ Events'  BY RequestTaken
<1>2. xapp' = TRUE  BY DEF TakesRequest
<1>3. Sockets' /\ Input' /\ Routes' /\ Reports'
  BY SocketsSame, InputSame, RoutesSame, ReportsSame DEF IInv
<1>4. Rest'  BY <1>1, <1>2 DEF Rest, IInv
<1> QED  BY <1>1, <1>3, <1>4 DEF IInv

LEMMA DirectionalRequestInv == ASSUME IInv, DirectionalRequest PROVE IInv'
<1>1. stale' \in BOOLEAN  BY DEF DirectionalRequest, SendDirectional, IInv, Rest, history
<1> QED  BY <1>1, RequestSame DEF DirectionalRequest, SendDirectional, history

LEMMA KeepAliveInv == ASSUME IInv, KeepAlive PROVE IInv'
<1>1. stale' \in BOOLEAN  BY DEF KeepAlive, IInv, Rest, history
<1> QED  BY <1>1, RequestSame DEF KeepAlive, history

LEMMA ClearAllInv == ASSUME IInv, ClearAll PROVE IInv'
<1> USE DEF IInv
<1> DEFINE found == {sctpMap[n] : n \in Ran} \ {NoConn}
           named == {enodbName[c] : c \in found} \cap Ran
<1>1. PICK dropped \in SUBSET named :
        /\ IF dropped = {} THEN UNCHANGED drops ELSE Dropped
        /\ reported' = [n \in Ran |-> IF n \in named \ dropped THEN "down" ELSE reported[n]]
        /\ lost' = (lost \ named) \cup dropped
        /\ late' = late \ (named \ dropped)
  BY DEF ClearAll
<1>12. Cleared(sctpMap) = NoRoutes  BY DEF Cleared, NoRoutes, Routes
<1>2. /\ sock' = [c \in Conn |-> IF c \in found THEN "closed" ELSE sock[c]]
      /\ Discard(found) /\ sctpMap' = NoRoutes /\ ready' = ready \ found
      /\ stale' \in BOOLEAN /\ cleared' \subseteq cleared \cup found /\ TakesRequest("ClearAll")
      /\ UNCHANGED <<link, backlog, reading, enodbName, forwarded, main, said, left, sends, crashes>>
  BY <1>12 DEF ClearAll, Rest
<1>3. ASSUME NEW c \in found PROVE c \in Conn /\ sock[c] # "waiting"
  <2>1. PICK n \in Ran : c = sctpMap[n] /\ c # NoConn  OBVIOUS
  <2> QED  BY <2>1 DEF Routes
<1>4. \A c \in Conn : sock'[c] = IF c \in found THEN "closed" ELSE sock[c]
  BY <1>2
<1>5. Sockets'
  <2>1. \A i \in DOMAIN backlog : backlog[i] \in Conn /\ backlog[i] \notin found
    BY <1>3 DEF Sockets
  <2>2. sock' \in [Conn -> {"new", "waiting", "open", "closed"}]  BY <1>2 DEF Sockets
  <2> QED  BY <1>2, <1>4, <2>1, <2>2 DEF Sockets
<1>6. Input'  BY <1>2, InputDiscarded
<1>7. Events' /\ rmrQueue' \in Seq(Request)
  <2>1. reading = NoConn  BY <1>2 DEF TakesRequest
  <2>2. rmrQueue # <<>> /\ rmrQueue \in Seq(Request)  BY <1>2 DEF TakesRequest, Takes, Events, Rest
  <2>3. rmrQueue' \in Seq(Request)  BY <1>2, <2>2, HeadTailProperties DEF TakesRequest
  <2>4. PICK e \in batch : e.fd = Rmr /\ batch' = batch \ {e}  BY <1>2 DEF TakesRequest, Takes
  <2>5. \A f \in batch' : f.fd # Rmr  BY <2>4 DEF Events
  <2>6. batch' \subseteq batch /\ ready' \subseteq ready /\ reading' = NoConn
    BY <1>2, <2>1, <2>4
  <2>7. \A c \in Conn : reading' # c  BY <2>6, ConstantsOK
  <2> QED  BY <2>3, <2>5, <2>6, <2>7 DEF Events
<1>8. \A n \in Ran : sctpMap'[n] = NoConn  BY <1>2 DEF NoRoutes
<1>9. Routes'
  <2>1. ReachableUnlessTakenOver'
    <3> SUFFICES ASSUME NEW c \in Conn, sock'[c] = "open", enodbName[c] \in Ran
                 PROVE  \E d \in Conn \ {c} : enodbName[c] \in said[d]
      BY <1>2 DEF ReachableUnlessTakenOver
    <3>1. c \notin found /\ sock[c] = "open"  BY <1>4
    <3>2. sctpMap[enodbName[c]] # c  BY <3>1, ConstantsOK
    <3> QED  BY <3>1, <3>2 DEF Routes, ReachableUnlessTakenOver
  <2>2. \A c \in Conn : enodbName[c] \in Ran => sock'[c] \in {"open", "closed"}
    BY <1>4 DEF Routes
  <2>3. sctpMap' \in [Ran -> Conn \cup {NoConn}]  BY <1>2 DEF NoRoutes
  <2> QED  BY <1>2, <1>8, <2>1, <2>2, <2>3 DEF Routes, RouteIsOpen
<1>10. Reports'
  <2>1. reported' \in [Ran -> {"none", "up", "down"}] /\ lost' \subseteq Ran /\ late' \subseteq Ran
    BY <1>1 DEF Reports
  <2>2. ReportedHasRoute'
    <3> SUFFICES ASSUME ~Renamed', main # "announce", NEW n \in Ran, reported'[n] = "up", n \notin lost'
                 PROVE  FALSE
      BY <1>2 DEF ReportedHasRoute
    <3>1. n \notin named  BY <1>1
    <3>2. reported[n] = "up" /\ n \notin lost  BY <1>1, <3>1
    <3>5. ~Renamed  BY <1>2, NamesSame
    <3>3. sctpMap[n] \in found  BY <1>2, <3>2, <3>5 DEF Reports, ReportedHasRoute
    <3>4. enodbName[sctpMap[n]] = n  BY <1>3, <3>3, <3>5 DEF Routes, Renamed
    <3> QED  BY <3>1, <3>3, <3>4
  <2>3. RouteIsReported'
    <3>1. \A c \in Conn : c # NoConn  BY ConstantsOK
    <3> QED  BY <1>2, <1>8, <3>1 DEF RouteIsReported, Routes
  <2> QED  BY <2>1, <2>2, <2>3 DEF Reports
<1>11. Rest'
  <2>1. drops' \in 0..MaxDrops  BY <1>1, DroppedType DEF Rest
  <2>2. xapp' = TRUE  BY <1>2 DEF TakesRequest
  <2>3. cleared' \subseteq Conn  BY <1>2, <1>3 DEF Rest
  <2> QED  BY <1>2, <1>7, <2>1, <2>2, <2>3 DEF Rest
<1> QED  BY <1>5, <1>6, <1>7, <1>9, <1>10, <1>11

LEMMA UseReleasedInv == ASSUME IInv, NEW c \in Conn, UseReleased(c) PROVE IInv'
<1> USE DEF IInv, UseReleased, net, ric
<1>1. Sockets' /\ Input'  BY SocketsSame, InputSame
<1>2. Events'  BY DEF Events
<1>3. Routes'
  <2>1. sock' = [sock EXCEPT ![c] = "closed"]  BY DEF Sockets
  <2> QED  BY <2>1, ErasedRoutes
<1>4. enodbName[c] \in Ran \cup {NoRan}  BY DEF Routes
<1>5. Reports' /\ drops' \in 0..MaxDrops  BY <1>4, ErasedReports
<1>6. Rest'  BY <1>5 DEF Rest
<1> QED  BY <1>1, <1>2, <1>3, <1>5, <1>6
-----------------------------------------------------------------------------
(* The main thread and the end of the process                              *)

LEMMA SendTermInitInv == ASSUME IInv, SendTermInit PROVE IInv'
<1> USE DEF IInv, SendTermInit, net, events, records, history
<1>1. Sockets' /\ Input' /\ Events' /\ Routes' /\ Rest'
  BY SocketsSame, InputSame, EventsSame, RoutesSame DEF Rest
<1>2. Reports'
  <2>1. \A n \in Ran : reported'[n] # "up"  BY DEF Reports
  <2>2. ReportedHasRoute'  BY <2>1 DEF ReportedHasRoute
  <2>3. RouteIsReported'  BY ConstantsOK DEF RouteIsReported, Routes
  <2>4. reported' \in [Ran -> {"none", "up", "down"}]  BY DEF Reports
  <2> QED  BY <2>2, <2>3, <2>4 DEF Reports
<1> QED  BY <1>1, <1>2

LEMMA WaitInv == ASSUME IInv, RepeatTermInit \/ StopTermInit PROVE IInv'
<1> USE DEF IInv, RepeatTermInit, StopTermInit, net, events, records, reports, history
<1>1. Sockets' /\ Input' /\ Events' /\ Routes' /\ Reports' /\ Rest'
  BY SocketsSame, InputSame, EventsSame, RoutesSame, ReportsSame DEF Rest
<1> QED  BY <1>1

LEMMA RestartsInv ==
  ASSUME IInv, Restarts, UNCHANGED <<said, left, cleared, stale, sends, drops>>, crashes' \in 0..MaxCrashes
  PROVE  IInv'
<1> USE DEF IInv, Restarts, reports
<1>1. \A c \in Conn : sock'[c] \in {"new", "closed"}  BY DEF Sockets
<1>2. Sockets'
  <2>1. sock' \in [Conn -> {"new", "waiting", "open", "closed"}]  BY DEF Sockets
  <2>2. backlog' \in Seq(Conn) /\ DOMAIN backlog' = {}  BY EmptySeq
  <2> QED  BY <2>1, <2>2 DEF Sockets
<1>3. Input'  BY InputDiscarded
<1>4. Events'  BY ConstantsOK DEF Events
<1>5. \A n \in Ran : sctpMap'[n] = NoConn  BY DEF NoRoutes
<1>6. Routes'
  <2>1. sctpMap' \in [Ran -> Conn \cup {NoConn}]  BY DEF NoRoutes
  <2>2. \A c \in Conn : sock[c] = "closed" => sock'[c] = "closed"  BY DEF Sockets
  <2>3. \A c \in Conn : sock[c] = "open" => sock'[c] = "closed"  BY DEF Sockets
  <2> QED  BY <1>1, <1>5, <2>1, <2>2, <2>3 DEF Routes, RouteIsOpen, ReachableUnlessTakenOver
<1>7. Reports'
  <2>1. RouteIsReported'  BY ConstantsOK, <1>5 DEF RouteIsReported, Routes
  <2> QED  BY <2>1 DEF Reports, ReportedHasRoute, Announced
<1>8. Rest'
  <2>1. rmrQueue' \in Seq(Request)  BY EmptySeq
  <2> QED  BY <2>1 DEF Rest, Announced
<1> QED  BY <1>2, <1>3, <1>4, <1>6, <1>7, <1>8

LEMMA CrashInv == ASSUME IInv, Crash \/ Dies PROVE IInv'
<1>1. CASE Crash
  <2>1. crashes' \in 0..MaxCrashes  BY <1>1, ConstantsOK DEF Crash, IInv, Rest
  <2> QED  BY <1>1, <2>1, RestartsInv DEF Crash
<1>2. CASE Dies  BY <1>2, RestartsInv DEF Dies, history, IInv, Rest
<1> QED  BY <1>1, <1>2
-----------------------------------------------------------------------------
(* The invariant and what follows from it                                  *)

LEMMA NextInv == IInv /\ [Next]_vars => IInv'
<1> SUFFICES ASSUME IInv, [Next]_vars PROVE IInv'
  OBVIOUS
<1>1. CASE Environment
  BY <1>1, DialInv, SendInv, HangUpInv, RicSendsInv, CrashInv DEF Environment
<1>2. CASE Listener
  <2>1. ASSUME NEW c \in Conn,
               \/ PollError(c) \/ StartReading(c) \/ Read(c)
               \/ ReadNothing(c) \/ ReadEnd(c) \/ UseReleased(c)
        PROVE  IInv'
    BY <2>1, PollErrorInv, StartReadingInv, ReadInv, ReadNothingInv, ReadEndInv, UseReleasedInv
  <2> QED
    BY <1>2, <2>1, EpollWaitInv, AcceptInv, DirectionalRequestInv, KeepAliveInv,
       ClearAllInv DEF Listener
<1>3. CASE MainThread  BY <1>3, SendTermInitInv, WaitInv DEF MainThread
<1>4. CASE UNCHANGED vars
  <2> USE <1>4 DEF vars, net, events, records, ric, reports, history, IInv
  <2>1. Sockets' /\ Input' /\ Events' /\ Routes' /\ Reports' /\ Rest'
    BY SocketsSame, InputSame, EventsSame, RoutesSame, ReportsSame DEF Rest
  <2> QED  BY <2>1
<1> QED  BY <1>1, <1>2, <1>3, <1>4 DEF Next

LEMMA Invariant == Spec => []IInv
BY InitInv, NextInv, PTL DEF Spec

\* every variable of the process keeps the shape the code gives it: the
\* table leads to connections, names and reports are of known RANs
THEOREM TypeInv == Spec => []TypeOK
<1>1. IInv => TypeOK  BY DEF IInv, TypeOK, Sockets, Input, Events, Routes, Reports, Rest
<1> QED  BY <1>1, Invariant, PTL

\* cleanHashEntry and the E2_SETUP handler keep the table of names and the
\* records together, whoever takes a name over and whatever is renamed
THEOREM RouteIsOpenInv == Spec => []RouteIsOpen
<1>1. IInv => RouteIsOpen  BY DEF IInv, Routes
<1> QED  BY <1>1, Invariant, PTL

\* every erased entry goes with a report to the E2 Manager: it never takes a
\* RAN for connected that no message can be sent to
THEOREM ReportedHasRouteInv == Spec => []ReportedHasRoute
<1>1. IInv => ReportedHasRoute  BY DEF IInv, Reports
<1> QED  BY <1>1, Invariant, PTL

\* a RAN whose setup was handed over and whose entry stands is taken for
\* connected, but for a dropped report and an E2_TERM_INIT sent after it
THEOREM RouteIsReportedInv == Spec => []RouteIsReported
<1>1. IInv => RouteIsReported  BY DEF IInv, Reports
<1> QED  BY <1>1, Invariant, PTL

\* an open connection loses its entry only to another one of the same RAN
THEOREM ReachableInv == Spec => []ReachableUnlessTakenOver
<1>1. IInv => ReachableUnlessTakenOver  BY DEF IInv, Routes
<1> QED  BY <1>1, Invariant, PTL
-----------------------------------------------------------------------------
(* Released records                                                        *)

\* a socket that is due is open; an event in hand is one of an open connection
\* whose loop is not running, or of one that ClearAll has released under it
Watched ==
  /\ \A c \in Conn : c \in ready => sock[c] = "open"
  /\ \A e \in batch : e.fd \in Conn =>
       e.fd # reading /\ (sock[e.fd] = "open" \/ e.fd \in cleared)

LEMMA WatchedEnvironment ==
  ASSUME IInv, Watched, Environment  PROVE Watched'
<1> USE DEF IInv, events, records, ric, reports, history, net, Watched
<1>1. ASSUME NEW c \in Conn, Dial(c) PROVE Watched'
  BY <1>1, ConstantsOK DEF Dial, Sockets
<1>2. ASSUME NEW c \in Conn, NEW m \in Message, Send(c, m) PROVE Watched'
  BY <1>2 DEF Send, Pending
<1>3. ASSUME NEW c \in Conn, NEW how \in {"eof", "error"}, HangUp(c, how) PROVE Watched'
  BY <1>3 DEF HangUp, Pending
<1>4. ASSUME NEW r \in Request, RicSends(r) PROVE Watched'
  BY <1>4 DEF RicSends
<1>5. ASSUME Crash \/ Dies PROVE Watched'
  BY <1>5 DEF Crash, Dies, Restarts
<1> QED  BY <1>1, <1>2, <1>3, <1>4, <1>5 DEF Environment

\* a connection that is closed has its event taken, and no other
LEMMA WatchedClosed ==
  ASSUME IInv, Watched, NEW c \in Conn, Close(c),
         batch' \subseteq batch, \A e \in batch' : e.fd # c, reading' \in {reading, NoConn}
  PROVE  Watched'
<1> USE DEF IInv, Close, Watched
<1>1. \A d \in Conn : sock'[d] = IF d = c THEN "closed" ELSE sock[d]  BY DEF Sockets
<1>2. \A d \in Conn : d \in ready' => sock'[d] = "open"  BY <1>1
<1>3. \A e \in batch' : e.fd \in Conn =>
        e.fd # reading' /\ (sock'[e.fd] = "open" \/ e.fd \in cleared')
  BY <1>1, ConstantsOK
<1> QED  BY <1>2, <1>3

LEMMA WatchedListener ==
  ASSUME IInv, Watched, Listener  PROVE Watched'
<1> USE DEF IInv, events, records, ric, reports, history, net
<1>1. CASE EpollWait
  <2>1. \A e \in batch' : e.fd \in ready \/ e.fd = Rmr  BY <1>1 DEF EpollWait, EventsOfSockets
  <2>2. reading' = NoConn /\ ready' = {} /\ UNCHANGED sock
    BY <1>1 DEF EpollWait, Idle
  <2> QED  BY <2>1, <2>2, ConstantsOK DEF Watched
<1>2. CASE Accept
  <2>1. UNCHANGED <<reading, cleared>> /\ batch' \subseteq batch
    BY <1>2 DEF Accept, Takes
  <2>2. CASE backlog = <<>> /\ UNCHANGED <<sock, ready>>  BY <2>1, <2>2 DEF Watched
  <2>3. CASE backlog # <<>>
    <3> DEFINE c == Head(backlog)
    <3>1. c \in Conn /\ sock[c] = "waiting"
      <4>1. backlog \in Seq(Conn) /\ c = backlog[1] /\ 1 \in DOMAIN backlog  BY <2>3 DEF Sockets
      <4> QED  BY <4>1 DEF Sockets
    <3>2. \/ sock' = [sock EXCEPT ![c] = "open"] /\ Watch(c)
          \/ sock' = [sock EXCEPT ![c] = "closed"] /\ UNCHANGED ready
      BY <1>2, <2>3 DEF Accept
    <3>3. ready' \subseteq ready \cup {c} /\ (c \in ready' => c \in ready \/ sock'[c] = "open")
      BY <3>1, <3>2 DEF Watch, Sockets
    <3>4. \A d \in Conn : sock[d] = "open" => d # c /\ sock'[d] = "open"
      BY <3>1, <3>2 DEF Sockets
    <3> HIDE DEF c
    <3> QED  BY <2>1, <3>1, <3>3, <3>4 DEF Watched
  <2> QED  BY <1>2, <2>2, <2>3 DEF Accept
<1>3. ASSUME NEW c \in Conn, PollError(c) PROVE Watched'
  <2>1. batch' \subseteq batch /\ \A e \in batch' : e.fd # c  BY <1>3 DEF PollError, Events
  <2> QED  BY <1>3, <2>1, WatchedClosed DEF PollError
<1>4. ASSUME NEW c \in Conn, StartReading(c) PROVE Watched'
  <2>1. batch' \subseteq batch /\ \A e \in batch' : e.fd # c
    BY <1>4 DEF StartReading, Takes, Events
  <2> QED  BY <1>4, <2>1 DEF StartReading, Watched
<1>5. ASSUME NEW c \in Conn, Read(c) \/ ReadNothing(c) PROVE Watched'
  <2>1. reading' \in {reading, NoConn} /\ UNCHANGED <<ready, batch, sock, cleared>>
    BY <1>5 DEF Read, ReadNothing
  <2> QED  BY <2>1, ConstantsOK DEF Watched
<1>6. ASSUME NEW c \in Conn, ReadEnd(c) PROVE Watched'
  <2>1. reading = c /\ reading' = NoConn /\ batch' = batch  BY <1>6 DEF ReadEnd
  <2>2. \A e \in batch' : e.fd # c  BY <2>1 DEF Watched
  <2> QED  BY <1>6, <2>1, <2>2, WatchedClosed DEF ReadEnd
<1>7. ASSUME NEW c \in Conn, UseReleased(c) PROVE Watched'
  BY <1>7 DEF UseReleased, Watched
<1>8. CASE DirectionalRequest \/ KeepAlive
  <2>1. batch' \subseteq batch /\ UNCHANGED <<ready, reading, sock, cleared>>
    BY <1>8 DEF DirectionalRequest, KeepAlive, SendDirectional, TakesRequest, Takes
  <2> QED  BY <2>1 DEF Watched
\* what ClearAll closes is out of ready, and in cleared if it is in the batch
<1>9. CASE ClearAll
  <2> DEFINE found == {sctpMap[n] : n \in Ran} \ {NoConn}
  <2>1. /\ sock' = [c \in Conn |-> IF c \in found THEN "closed" ELSE sock[c]]
        /\ ready' = ready \ found /\ UNCHANGED reading /\ batch' \subseteq batch
        /\ cleared' = cleared \cup (found \cap {e.fd : e \in batch'})
    BY <1>9 DEF ClearAll, TakesRequest, Takes
  <2> HIDE DEF found
  <2>2. \A c \in Conn : sock'[c] = IF c \in found THEN "closed" ELSE sock[c]  BY <2>1
  <2> QED  BY <2>1, <2>2 DEF Watched
<1> QED
  BY <1>1, <1>2, <1>3, <1>4, <1>5, <1>6, <1>7, <1>8, <1>9 DEF Listener

LEMMA WatchedNext == IInv /\ Watched /\ [Next]_vars => Watched'
<1> SUFFICES ASSUME IInv, Watched, [Next]_vars PROVE Watched'
  OBVIOUS
<1>1. CASE MainThread \/ UNCHANGED vars
  BY <1>1 DEF MainThread, SendTermInit, RepeatTermInit, StopTermInit, Watched,
              net, events, history, vars
<1> QED  BY <1>1, WatchedEnvironment, WatchedListener DEF Next

\* an entry of a closed connection, or the second one of a connection, has
\* another name than the record: both were announced there
LEMMA EntriesOfReleased ==
  ASSUME Routes, NEW c \in Conn, ~ChangedName(c),
         NEW n \in Ran, NEW p \in Ran, sctpMap[n] = c, sctpMap[p] = c
  PROVE  n = p /\ sock[c] # "closed"
<1>1. c # NoConn  BY ConstantsOK
<1>2. n \in said[c] /\ p \in said[c]  BY <1>1 DEF Routes, RouteIsOpen
<1>3. n = p  BY <1>2 DEF ChangedName
<1>4. enodbName[c] = n  BY <1>1 DEF Routes
<1>5. sock[c] = "open"  BY <1>1, <1>4 DEF Routes, RouteIsOpen
<1> QED  BY <1>3, <1>5

\* cleanHashEntry and RIC_SCTP_CLEAR_ALL leave neither an entry of the table nor
\* an event that leads to a record they released, but for a RAN that changed its
\* name on that connection and the events of the batch ClearAll came in
THEOREM NoReleasedRecordUsedInv == Spec => []NoReleasedRecordUsed
<1>1. Init => Watched  BY DEF Init, Watched
<1>2. IInv /\ Watched => NoReleasedRecordUsed
  BY EntriesOfReleased DEF IInv, Watched, NoReleasedRecordUsed
<1> QED  BY <1>1, <1>2, WatchedNext, Invariant, PTL DEF Spec
-----------------------------------------------------------------------------
(* Nothing edge-triggered is forgotten                                     *)

Owed(c) == sock[c] = "open" /\ (inbox[c] # <<>> \/ link[c] # "up")
Due(c) == c \in ready \/ c \in left \/ c = reading \/ \E e \in batch : e.fd = c

LEMMA NothingForgottenMeans == NothingForgotten <=> \A c \in Conn : Owed(c) => Due(c)
BY DEF NothingForgotten, Owed, Due

LEMMA DueEnvironment ==
  ASSUME IInv, \A c \in Conn : Owed(c) => Due(c), Environment, NEW d \in Conn, Owed(d)'
  PROVE  Due(d)'
<1> USE DEF Owed, Due, IInv, events, records, ric, reports, history, net
<1>1. ASSUME NEW c \in Conn, Dial(c)  PROVE Due(d)'
  BY <1>1 DEF Dial, Sockets
<1>2. ASSUME NEW c \in Conn, NEW m \in Message, Send(c, m)  PROVE Due(d)'
  BY <1>2 DEF Send, Pending, Input
<1>3. ASSUME NEW c \in Conn, NEW how \in {"eof", "error"}, HangUp(c, how)  PROVE Due(d)'
  BY <1>3 DEF HangUp, Pending, Sockets
<1>4. ASSUME NEW r \in Request, RicSends(r)  PROVE Due(d)'
  BY <1>4 DEF RicSends
<1>5. CASE Crash \/ Dies
  BY <1>5 DEF Crash, Dies, Restarts
<1> QED  BY <1>1, <1>2, <1>3, <1>4, <1>5 DEF Environment

LEMMA DueListener ==
  ASSUME IInv, \A c \in Conn : Owed(c) => Due(c), Listener, NEW d \in Conn, Owed(d)'
  PROVE  Due(d)'
<1> USE DEF Owed, Due, IInv, events, records, ric, reports, history, net
<1>1. CASE EpollWait
  <2>1. Owed(d) /\ reading = NoConn /\ batch = {} /\ left' = left  BY <1>1 DEF EpollWait, Idle
  <2>2. d \in ready \/ d \in left  BY <2>1, ConstantsOK
  <2>3. d \in ready => \E e \in EventsOfSockets : e.fd = d
    <3> DEFINE e == [fd |-> d, err |-> d # Listen /\ link[d] = "error"]
    <3>1. d \in ready => e \in EventsOfSockets  BY DEF EventsOfSockets
    <3>2. e.fd = d  OBVIOUS
    <3> QED  BY <3>1, <3>2
  <2> QED  BY <1>1, <2>1, <2>2, <2>3 DEF EpollWait
<1>2. CASE Accept
  <2>1. UNCHANGED <<reading, link, left>>  BY <1>2 DEF Accept
  <2>2. \A e \in batch : e.fd = d => e \in batch'  BY <1>2, ConstantsOK DEF Accept, Takes
  <2>3. CASE backlog = <<>> /\ UNCHANGED <<sock, inbox, ready>>  BY <2>1, <2>2, <2>3
  <2>4. CASE backlog # <<>>
    <3> DEFINE c == Head(backlog)
    <3>1. \/ sock' = [sock EXCEPT ![c] = "open"] /\ Watch(c) /\ UNCHANGED inbox
          \/ sock' = [sock EXCEPT ![c] = "closed"] /\ Discard({c}) /\ UNCHANGED ready
      BY <1>2, <2>4 DEF Accept
    <3> HIDE DEF c
    <3>2. CASE d = c
      <4>1. sock' = [sock EXCEPT ![c] = "open"] /\ Watch(c) /\ UNCHANGED inbox
        BY <3>1, <3>2 DEF Sockets
      <4> QED  BY <2>1, <3>2, <4>1 DEF Watch
    <3>3. CASE d # c
      <4>1. Owed(d)  BY <2>1, <3>1, <3>3 DEF Sockets, Discard
      <4>2. ready \subseteq ready'  BY <3>1 DEF Watch
      <4> QED  BY <2>1, <2>2, <4>1, <4>2
    <3> QED  BY <3>2, <3>3
  <2> QED  BY <1>2, <2>3, <2>4 DEF Accept
\* a connection that is closed owes nothing, and the others keep their events
<1>3. ASSUME NEW c \in Conn, Close(c), \A e \in batch : e.fd # c => e \in batch',
             reading' = reading \/ (reading = c /\ reading' = NoConn)
      PROVE  Due(d)'
  <2>1. d # c /\ Owed(d)  BY <1>3 DEF Close, Discard, Sockets
  <2>2. ready' = ready \ {c} /\ left' = left  BY <1>3 DEF Close
  <2> QED  BY <1>3, <2>1, <2>2
<1>4. ASSUME NEW c \in Conn, PollError(c)  PROVE Due(d)'
  <2>1. \A e \in batch : e.fd # c => e \in batch'  BY <1>4 DEF PollError
  <2> QED  BY <1>3, <1>4, <2>1 DEF PollError
<1>5. ASSUME NEW c \in Conn, ReadEnd(c)  PROVE Due(d)'
  BY <1>3, <1>5 DEF ReadEnd
<1>6. ASSUME NEW c \in Conn, StartReading(c)  PROVE Due(d)'
  <2>1. Owed(d) /\ reading' = c /\ ready' = ready /\ left' = left \ {c} /\ reading = NoConn
    BY <1>6 DEF StartReading
  <2>2. \A e \in batch : e.fd # c => e \in batch'  BY <1>6 DEF StartReading, Takes
  <2> QED  BY <2>1, <2>2, ConstantsOK
<1>7. ASSUME NEW c \in Conn, ReadNothing(c)  PROVE Due(d)'
  BY <1>7 DEF ReadNothing
<1>8. ASSUME NEW c \in Conn, Read(c)  PROVE Due(d)'
  <2>1. UNCHANGED <<sock, link, ready, batch>> /\ reading = c
        /\ inbox' = [inbox EXCEPT ![c] = Tail(@)]
    BY <1>8 DEF Read
  <2>2. /\ left \subseteq left'
        /\ reading' = c \/ c \in left'
    BY <1>8 DEF Read, EndsLoop
  <2>3. CASE d = c  BY <2>1, <2>2, <2>3
  <2>4. CASE d # c  BY <2>1, <2>2, <2>4 DEF Input
  <2> QED  BY <2>3, <2>4
<1>9. ASSUME NEW c \in Conn, UseReleased(c)  PROVE Due(d)'
  <2>1. Owed(d) /\ d # c /\ UNCHANGED <<ready, reading, left>>
        /\ \A e \in batch : e.fd # c => e \in batch'
    BY <1>9 DEF UseReleased
  <2> QED  BY <2>1
<1>10. ASSUME NEW k, TakesRequest(k), UNCHANGED <<reading, link, left>>,
              Owed(d), d \in ready => d \in ready'
       PROVE  Due(d)'
  <2>1. \A e \in batch : e.fd = d => e \in batch'
    BY <1>10, ConstantsOK DEF TakesRequest, Takes
  <2> QED  BY <1>10, <2>1
<1>11. CASE DirectionalRequest \/ KeepAlive
  BY <1>10, <1>11 DEF DirectionalRequest, KeepAlive, SendDirectional
<1>12. CASE ClearAll
  <2> DEFINE found == {sctpMap[n] : n \in Ran} \ {NoConn}
  <2>1. /\ sock' = [c \in Conn |-> IF c \in found THEN "closed" ELSE sock[c]]
        /\ Discard(found) /\ ready' = ready \ found /\ TakesRequest("ClearAll")
        /\ UNCHANGED <<reading, link, left>>
    BY <1>12 DEF ClearAll
  <2>2. d \notin found /\ Owed(d)  BY <2>1 DEF Discard
  <2> QED  BY <1>10, <2>1, <2>2
<1> QED
  BY <1>1, <1>2, <1>4, <1>5, <1>6, <1>7, <1>8, <1>9, <1>11, <1>12 DEF Listener

\* a connection with something to read, or that has ended, has an event due
\* or its loop running, or its last loop ended at an undecodable message
THEOREM NothingForgottenInv == Spec => []NothingForgotten
<1> DEFINE Inv == \A c \in Conn : Owed(c) => Due(c)
<1>1. Init => Inv  BY DEF Init, Owed
<1>2. IInv /\ Inv /\ [Next]_vars => Inv'
  <2>1. CASE MainThread \/ UNCHANGED vars
    BY <2>1 DEF MainThread, SendTermInit, RepeatTermInit, StopTermInit, Owed, Due,
                net, events, history, vars
  <2> QED  BY <2>1, DueEnvironment, DueListener DEF Next
<1>3. Inv => NothingForgotten  BY NothingForgottenMeans
<1> HIDE DEF Inv
<1> QED  BY <1>1, <1>2, <1>3, Invariant, PTL DEF Spec
=============================================================================
