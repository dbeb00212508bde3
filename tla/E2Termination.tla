---------------------------- MODULE E2Termination ----------------------------
(***************************************************************************)
(* The E2 Termination process: one listener thread between the SCTP        *)
(* connections of the RANs and RMR, and the main thread that announces the *)
(* process to the E2 Manager (RIC-E2-TERMINATION/sctpThread.cpp).          *)
(*                                                                         *)
(* A connection is a member of Conn and is dialled at most once; while its *)
(* socket is "open" the process keeps a record for it (ConnectedCU_t).     *)
(* The listener takes all pending events with one epoll_wait and handles   *)
(* them in some order; sockets are edge-triggered, RMR is level-triggered. *)
(* A data event starts a read loop, one step per read, next to which RANs  *)
(* go on sending.                                                          *)
(*                                                                         *)
(* reported is the E2 Manager as this process sees it: the last thing it   *)
(* was told of each RAN.  A RAN whose last report RMR dropped is in lost.  *)
(***************************************************************************)
EXTENDS Naturals, Sequences

CONSTANTS
  Conn, Ran,
  NoConn, NoRan,
  Listen, Rmr,             \* the listening socket, the RMR descriptor
  Contents,                \* what a RAN may send
  Requests,                \* what the RIC may send
  MaxBacklog, MaxSends, MaxInbox, MaxRmr, MaxDrops, MaxCrashes  \* bounds

AllContents == {"Setup", "BadFunctions", "BadName", "Relay", "Garbage"}
AllRequests == {"Forward", "Encode", "ClearAll", "KeepAlive"}

Message == [content: Contents, ran: Ran \cup {NoRan}]
Request == [kind: Requests, ran: Ran \cup {NoRan}]
Event == [fd: Conn \cup {Listen, Rmr}, err: BOOLEAN]

ASSUME ConstantsOK ==
  /\ NoConn \notin Conn /\ NoRan \notin Ran
  /\ Listen \notin Conn /\ Rmr \notin Conn /\ Listen # Rmr
  /\ Contents \subseteq AllContents /\ Requests \subseteq AllRequests
  /\ {MaxBacklog, MaxSends, MaxInbox, MaxRmr, MaxDrops, MaxCrashes} \subseteq Nat

VARIABLES
  sock,      \* per connection: "new", "waiting" for accept, "open", "closed"
  link,      \* per connection: "up", closed by the RAN ("eof"), or "error"
  inbox,     \* per connection: what has arrived and was not read
  backlog,   \* connections the listening socket holds for accept
  ready,     \* sockets with an event epoll_wait has not returned yet
  batch,     \* the events of the last epoll_wait still to be handled
  reading,   \* the connection whose read loop is running
  enodbName, \* per connection: the name in its record
  sctpMap,   \* per name: the connection it leads to
  rmrQueue,  \* requests that have arrived on RMR
  main, xapp, \* the main thread; has the listener seen an RMR event
  reported, lost, \* what the E2 Manager was told last of each RAN
  forwarded, \* connections whose last E2_SETUP was handed over
  late,      \* RANs with a route when E2_TERM_INIT went out, not reported since
  said,      \* names a RAN has sent on a connection
  left,      \* connections whose read loop ended at garbage and has not run since
  cleared,   \* connections RIC_SCTP_CLEAR_ALL released with an event in the batch in hand
  stale,     \* a released record has been used
  sends, drops, crashes

net == <<sock, link, inbox, backlog>>
events == <<ready, batch, reading>>
records == <<enodbName, sctpMap, forwarded>>
ric == <<rmrQueue, main, xapp>>
reports == <<reported, lost, late>>
history == <<said, left, cleared, stale, sends, drops, crashes>>
vars == <<net, events, records, ric, reports, history>>

TypeOK ==
  /\ sock \in [Conn -> {"new", "waiting", "open", "closed"}]
  /\ link \in [Conn -> {"up", "eof", "error"}]
  /\ inbox \in [Conn -> Seq(Message)] /\ backlog \in Seq(Conn)
  /\ ready \subseteq Conn \cup {Listen} /\ batch \subseteq Event
  /\ reading \in Conn \cup {NoConn}
  /\ enodbName \in [Conn -> Ran \cup {NoRan}]
  /\ sctpMap \in [Ran -> Conn \cup {NoConn}] /\ forwarded \subseteq Conn
  /\ rmrQueue \in Seq(Request)
  /\ main \in {"announce", "wait", "repeat", "done"} /\ xapp \in BOOLEAN
  /\ reported \in [Ran -> {"none", "up", "down"}]
  /\ lost \subseteq Ran /\ late \subseteq Ran
  /\ said \in [Conn -> SUBSET (Ran \cup {NoRan})] /\ left \subseteq Conn
  /\ cleared \subseteq Conn /\ stale \in BOOLEAN
  /\ sends \in 0..MaxSends /\ drops \in 0..MaxDrops /\ crashes \in 0..MaxCrashes

NoRoutes == [n \in Ran |-> NoConn]

Init ==
  /\ sock = [c \in Conn |-> "new"] /\ link = [c \in Conn |-> "up"]
  /\ inbox = [c \in Conn |-> <<>>] /\ backlog = <<>>
  /\ ready = {} /\ batch = {} /\ reading = NoConn
  /\ enodbName = [c \in Conn |-> NoRan] /\ sctpMap = NoRoutes /\ forwarded = {}
  /\ rmrQueue = <<>> /\ main = "announce" /\ xapp = FALSE
  /\ reported = [n \in Ran |-> "none"] /\ lost = {} /\ late = {}
  /\ said = [c \in Conn |-> {}] /\ left = {} /\ cleared = {} /\ stale = FALSE
  /\ sends = 0 /\ drops = 0 /\ crashes = 0
-----------------------------------------------------------------------------
(* The RANs, the network and the rest of the RIC                           *)

Dial(c) ==
  /\ sock[c] = "new" /\ Len(backlog) < MaxBacklog
  /\ sock' = [sock EXCEPT ![c] = "waiting"]
  /\ backlog' = Append(backlog, c) /\ ready' = ready \cup {Listen}
  /\ UNCHANGED <<link, inbox, batch, reading, records, ric, reports, history>>

\* the kernel queues an event for a socket that epoll watches
Pending(c) == ready' = IF sock[c] = "open" THEN ready \cup {c} ELSE ready

NameOf(m) == IF m.content \in {"Setup", "BadFunctions", "BadName"} THEN {m.ran} ELSE {}

Send(c, m) ==
  /\ sock[c] \in {"waiting", "open"} /\ link[c] = "up"
  /\ Len(inbox[c]) < MaxInbox /\ sends < MaxSends
  /\ m.ran \in Ran <=> m.content \in {"Setup", "BadFunctions"}
  /\ inbox' = [inbox EXCEPT ![c] = Append(@, m)]
  /\ said' = [said EXCEPT ![c] = @ \cup NameOf(m)]
  /\ sends' = sends + 1 /\ Pending(c)
  /\ UNCHANGED <<sock, link, backlog, batch, reading, records, ric, reports,
                 left, cleared, stale, drops, crashes>>

HangUp(c, how) ==
  /\ sock[c] \in {"waiting", "open"} /\ link[c] = "up"
  /\ link' = [link EXCEPT ![c] = how] /\ Pending(c)
  /\ UNCHANGED <<sock, inbox, backlog, batch, reading, records, ric, reports, history>>

RicSends(r) ==
  /\ Len(rmrQueue) < MaxRmr
  /\ r.ran \in Ran <=> r.kind \in {"Forward", "Encode"}
  /\ rmrQueue' = Append(rmrQueue, r)
  /\ UNCHANGED <<net, events, records, main, xapp, reports, history>>
-----------------------------------------------------------------------------
(* Reports to the E2 Manager                                               *)

\* rmr_send_msg, tried once more, then given up
Dropped == drops < MaxDrops /\ drops' = drops + 1

\* what n is reported as; the report of a RAN without a name is nobody's
ReportUnnamed(n, what) == \* mutant: a nameless RAN is reported
  \/ UNCHANGED drops /\ reported' = [r \in Ran \cup {n} |-> IF r = n THEN what ELSE reported[r]]
     /\ lost' = lost \ {n} /\ late' = late \ {n}
  \/ Dropped /\ UNCHANGED <<reported, late>> /\ lost' = lost \cup {n}
Report(n, what) ==
  \/ /\ UNCHANGED drops
     /\ reported' = [r \in Ran |-> IF r = n THEN what ELSE reported[r]]
     /\ lost' = lost \ {n} /\ late' = late \ {n}
  \/ Dropped /\ UNCHANGED <<reported, late>> /\ lost' = lost \cup ({n} \cap Ran)

EraseNothing(m, n) == m \* mutant: the entry stays
Erase(m, n) == [r \in Ran |-> IF r = n THEN NoConn ELSE m[r]]
-----------------------------------------------------------------------------
(* The listener: epoll_wait, accept                                        *)

\* the kernel drops what a closed socket still holds
Discard(cs) == inbox' = [c \in Conn |-> IF c \in cs THEN <<>> ELSE inbox[c]]

Idle == batch = {} /\ reading = NoConn

EventsOfData == {[fd |-> c, err |-> FALSE] : c \in {d \in ready \ {Listen} : inbox[d] # <<>>}} \* mutant
EventsOfSockets == {[fd |-> c, err |-> c # Listen /\ link[c] = "error"] : c \in ready}

EpollWait ==
  /\ Idle /\ (ready # {} \/ rmrQueue # <<>>)
  /\ batch' = EventsOfSockets \cup {[fd |-> Rmr, err |-> FALSE] : i \in DOMAIN rmrQueue}
  /\ ready' = {} /\ cleared' = {}
  /\ UNCHANGED <<net, reading, records, ric, reports, said, left, stale, sends, drops, crashes>>

Takes(fd) == \E e \in batch : e.fd = fd /\ ~e.err /\ batch' = batch \ {e}
\* the socket is watched from now on; what it holds already is an event
WatchLater(c) == UNCHANGED ready \* mutant
Watch(c) == ready' = IF inbox[c] # <<>> \/ link[c] # "up" THEN ready \cup {c} ELSE ready

\* the accept loop ends after one connection
Accept ==
  /\ reading = NoConn /\ Takes(Listen)
  /\ \/ backlog = <<>> /\ UNCHANGED <<sock, inbox, backlog, ready>>
     \/ /\ backlog # <<>>
        /\ backlog' = Tail(backlog)
        /\ LET c == Head(backlog)
           IN \/ sock' = [sock EXCEPT ![c] = "open"] /\ Watch(c) /\ UNCHANGED inbox
              \/ sock' = [sock EXCEPT ![c] = "closed"] /\ Discard({c}) /\ UNCHANGED ready
  /\ UNCHANGED <<link, reading, records, ric, reports, history>>
-----------------------------------------------------------------------------
(* The listener: data and errors on a connection                           *)

\* the failure is reported, the socket closed, the name erased from the
\* table whoever it leads to, the record released
Close(c) ==
  /\ Report(enodbName[c], "down")
  /\ sock' = [sock EXCEPT ![c] = "closed"] /\ Discard({c})
  /\ sctpMap' = Erase(sctpMap, enodbName[c])
  /\ ready' = ready \ {c}
  /\ UNCHANGED <<link, backlog, enodbName, forwarded, ric, said, left, cleared, stale,
                 sends, crashes>>

PollError(c) ==
  /\ reading = NoConn /\ sock[c] = "open"
  /\ \E e \in batch : e.fd = c /\ e.err /\ batch' = batch \ {e}
  /\ Close(c) /\ UNCHANGED reading

StartReading(c) ==
  /\ reading = NoConn /\ sock[c] = "open" /\ Takes(c) /\ reading' = c
  /\ left' = left \ {c}
  /\ UNCHANGED <<net, ready, records, ric, reports, said, cleared, stale, sends, drops, crashes>>

Setup(c, n) ==
  /\ enodbName' = [enodbName EXCEPT ![c] = n]
  /\ sctpMap' = [sctpMap EXCEPT ![n] = c]
  /\ Report(n, "up")
  /\ forwarded' = IF n \in lost' THEN forwarded \ {c} ELSE forwarded \cup {c}

SetupBadFunctionsReported(c, n) == \* mutant: taken for handed over
  /\ enodbName' = [enodbName EXCEPT ![c] = n]
  /\ sctpMap' = [sctpMap EXCEPT ![n] = c]
  /\ forwarded' = forwarded \cup {c} /\ UNCHANGED <<reports, drops>>
SetupBadFunctionsUnkeyed(c, n) == \* mutant: no entry in the table
  /\ enodbName' = [enodbName EXCEPT ![c] = n]
  /\ forwarded' = forwarded \ {c} /\ UNCHANGED <<sctpMap, reports, drops>>
\* a RAN function that does not decode: the name stays in the table
SetupBadFunctions(c, n) ==
  /\ enodbName' = [enodbName EXCEPT ![c] = n]
  /\ sctpMap' = [sctpMap EXCEPT ![n] = c]
  /\ forwarded' = forwarded \ {c} /\ UNCHANGED <<reports, drops>>

\* the name in the record is wiped before the new one is read: one that cannot
\* be read ends the handling, a setup without one goes out under the old name
SetupBadName(c) ==
  /\ enodbName' = [enodbName EXCEPT ![c] = NoRan]
  /\ forwarded' = forwarded \ {c} /\ UNCHANGED sctpMap
  /\ UNCHANGED <<reports, drops>> \/ Report(enodbName[c], "up")

\* everything else is sent to RMR, or ignored, under the name in the record
Relay == UNCHANGED <<records, reports, drops>>

Handle(c, m) ==
  \/ m.content = "Setup" /\ Setup(c, m.ran)
  \/ m.content = "BadFunctions" /\ SetupBadFunctions(c, m.ran)
  \/ m.content = "BadName" /\ SetupBadName(c)
  \/ m.content \in {"Relay", "Garbage"} /\ Relay

\* the loop ends at a message that does not decode
EndsLoopAlways(m) == m \in Message \* mutant: one read per event
EndsLoop(m) == m.content = "Garbage"

Read(c) ==
  /\ reading = c /\ link[c] # "error" /\ inbox[c] # <<>>
  /\ inbox' = [inbox EXCEPT ![c] = Tail(@)]
  /\ Handle(c, Head(inbox[c]))
  /\ reading' = IF EndsLoop(Head(inbox[c])) THEN NoConn ELSE c
  /\ left' = IF Head(inbox[c]).content = "Garbage" THEN left \cup {c} ELSE left
  /\ UNCHANGED <<sock, link, backlog, ready, batch, ric, said, cleared, stale, sends, crashes>>

\* EAGAIN: everything is read
ReadNothing(c) ==
  /\ reading = c /\ link[c] = "up" /\ inbox[c] = <<>> /\ reading' = NoConn
  /\ UNCHANGED <<net, ready, batch, records, ric, reports, history>>

ReadEnd(c) ==
  /\ reading = c
  /\ \/ link[c] = "error"
     \/ link[c] = "eof" /\ inbox[c] = <<>>
  /\ Close(c) /\ reading' = NoConn /\ UNCHANGED batch
-----------------------------------------------------------------------------
(* The listener: requests from RMR                                         *)

TakesRequest(k) ==
  /\ reading = NoConn /\ Takes(Rmr) /\ Head(rmrQueue).kind = k
  /\ rmrQueue' = Tail(rmrQueue) /\ xapp' = TRUE

\* to the connection the name leads to: no entry and a failed send change
\* nothing; an entry may lead to a record that was released
SendDirectional(n) ==
  /\ stale' = (stale \/ (sctpMap[n] # NoConn /\ sock[sctpMap[n]] = "closed"))
  /\ UNCHANGED <<net, ready, reading, records, main, reports, said, left, cleared, sends,
                 drops, crashes>>

\* a message for a RAN, and one whose XML has to be encoded first: if that
\* fails nothing is sent
DirectionalRequest ==
  \E kind \in {"Forward", "Encode"} :
    /\ TakesRequest(kind)
    /\ \/ SendDirectional(Head(rmrQueue).ran)
       \/ /\ kind = "Encode"
          /\ UNCHANGED <<net, ready, reading, records, main, reports, history>>
KeepAlive ==
  /\ TakesRequest("KeepAlive")
  /\ UNCHANGED <<net, ready, reading, records, main, reports, history>>

ClearedNothing(m) == m \* mutant: the entries stay
Cleared(m) == [n \in DOMAIN m |-> NoConn]

\* every record found under a key is closed, reported and released: a record
\* under two keys twice, a connection without a key not at all
ClearAll ==
  /\ TakesRequest("ClearAll")
  /\ LET found == {sctpMap[n] : n \in Ran} \ {NoConn}
         named == {enodbName[c] : c \in found} \cap Ran
         again == \E c \in found : \/ sock[c] = "closed"
                                   \/ \E n, p \in Ran : n # p /\ sctpMap[n] = c /\ sctpMap[p] = c
     IN /\ sock' = [c \in Conn |-> IF c \in found THEN "closed" ELSE sock[c]]
        /\ Discard(found) /\ sctpMap' = Cleared(sctpMap) /\ ready' = ready \ found
        /\ stale' = (stale \/ again)
        /\ cleared' = cleared \cup (found \cap {e.fd : e \in batch'})
        /\ \E dropped \in SUBSET named :
             /\ IF dropped = {} THEN UNCHANGED drops ELSE Dropped
             /\ reported' = [n \in Ran |-> IF n \in named \ dropped THEN "down" ELSE reported[n]]
             /\ lost' = (lost \ named) \cup dropped
             /\ late' = late \ (named \ dropped)
  /\ UNCHANGED <<link, backlog, reading, enodbName, forwarded, main, said, left, sends, crashes>>

\* the batch still holds an event of a record that ClearAll has released: the
\* read fails on the closed descriptor, and the record is reported and
\* released again
UseReleased(c) ==
  /\ reading = NoConn /\ sock[c] = "closed" /\ stale' = TRUE
  /\ \E e \in batch : e.fd = c /\ batch' = batch \ {e}
  /\ Report(enodbName[c], "down")
  /\ sctpMap' = Erase(sctpMap, enodbName[c])
  /\ UNCHANGED <<net, ready, reading, enodbName, forwarded, ric, said, left, cleared, sends,
                 crashes>>
-----------------------------------------------------------------------------
(* The main thread                                                         *)

\* E2_TERM_INIT is tried until RMR takes it; the E2 Manager then takes the
\* RANs of this process for disconnected
SendTermInit ==
  /\ main \in {"announce", "repeat"} /\ main' = "wait"
  /\ reported' = [n \in Ran |-> IF reported[n] = "up" THEN "down" ELSE reported[n]]
  /\ lost' = {} /\ late' = {n \in Ran : sctpMap[n] # NoConn}
  /\ UNCHANGED <<net, events, records, rmrQueue, xapp, history>>

\* after a thousand waits without an RMR event
RepeatTermInit ==
  /\ main = "wait" /\ ~xapp /\ main' = "repeat"
  /\ UNCHANGED <<net, events, records, rmrQueue, xapp, reports, history>>

StopTermInit ==
  /\ main = "wait" /\ xapp /\ main' = "done"
  /\ UNCHANGED <<net, events, records, rmrQueue, xapp, reports, history>>

NotAnnounced == main' = "done" /\ xapp' = FALSE \* mutant
Announced == main' = "announce" /\ xapp' = FALSE

\* the process ends: every connection is lost, and it starts again
Restarts ==
  /\ sock' = [c \in Conn |-> IF sock[c] \in {"waiting", "open"} THEN "closed" ELSE sock[c]]
  /\ Discard(Conn)
  /\ backlog' = <<>> /\ ready' = {} /\ batch' = {} /\ reading' = NoConn
  /\ sctpMap' = NoRoutes /\ rmrQueue' = <<>> /\ Announced
  /\ UNCHANGED <<link, enodbName, forwarded, reports>>

Crash ==
  /\ crashes < MaxCrashes /\ crashes' = crashes + 1
  /\ Restarts /\ UNCHANGED <<said, left, cleared, stale, sends, drops>>

\* using a released record may end the process, then or later
Dies == stale /\ Restarts /\ UNCHANGED history
-----------------------------------------------------------------------------
Environment ==
  \/ \E c \in Conn : Dial(c)
  \/ \E c \in Conn, m \in Message : Send(c, m)
  \/ \E c \in Conn, how \in {"eof", "error"} : HangUp(c, how)
  \/ \E r \in Request : RicSends(r)
  \/ Crash \/ Dies
Listener ==
  \/ EpollWait \/ Accept
  \/ \E c \in Conn : \/ PollError(c) \/ StartReading(c) \/ Read(c)
                     \/ ReadNothing(c) \/ ReadEnd(c) \/ UseReleased(c)
  \/ DirectionalRequest \/ KeepAlive \/ ClearAll
MainThread == SendTermInit \/ RepeatTermInit \/ StopTermInit

Next == Environment \/ Listener \/ MainThread
Spec == Init /\ [][Next]_vars
\* the threads run; nothing is assumed of the RANs, the network and the RIC
FairSpec == Spec /\ WF_vars(Listener) /\ WF_vars(SendTermInit \/ StopTermInit)
-----------------------------------------------------------------------------
(* Properties                                                              *)

\* sctpMap leads to a connection on which that RAN has announced itself, and
\* whose record exists, unless the RAN has given another name there since:
\* cleanHashEntry erases the last name only
RouteIsOpen ==
  \A n \in Ran : LET c == sctpMap[n] IN
    c # NoConn => n \in said[c] /\ (sock[c] = "open" \/ enodbName[c] # n)

\* a RAN has given two names, or an unreadable one, on the same connection
ChangedName(c) == \E n, p \in said[c] : n # p
Renamed == \E c \in Conn : ChangedName(c)

\* while RANs keep their names, the E2 Manager takes a RAN for connected only if
\* a message to it finds a connection, but for a dropped report and a restart
\* not yet announced: each RIC_SCTP_CONNECTION_FAILURE goes with the erased entry
ReportedHasRoute ==
  ~Renamed /\ main # "announce" =>
    \A n \in Ran : reported[n] = "up" /\ n \notin lost => sctpMap[n] # NoConn

\* a RAN whose last E2_SETUP on a connection was handed over, and whose name
\* leads there, is taken for connected, but for a dropped report and an
\* E2_TERM_INIT sent after it (a first one, as the listener starts before it
\* is sent, or a repeated one)
RouteIsReported ==
  \A c \in forwarded : LET n == enodbName[c] IN
    n \in Ran \ (lost \cup late) /\ sctpMap[n] = c => reported[n] = "up"

\* an open connection can be reached under the name in its record, unless
\* another connection has announced the same RAN: then the entry is the other
\* one's, and goes with whichever of the two closes first
ReachableUnlessTakenOver ==
  \A c \in Conn :
    sock[c] = "open" /\ enodbName[c] \in Ran /\ sctpMap[enodbName[c]] # c =>
      \E d \in Conn \ {c} : enodbName[c] \in said[d]

\* no record is used after cleanHashEntry or RIC_SCTP_CLEAR_ALL has released
\* it, nor released twice by RIC_SCTP_CLEAR_ALL: the entries of the table that
\* lead to a connection are none once it is closed and one at most before, unless
\* its RAN has changed its name on it; and no event of the batch is one of a
\* closed connection, unless RIC_SCTP_CLEAR_ALL came in this very batch, while
\* the event was in it
NoReleasedRecordUsed ==
  \A c \in Conn :
    /\ ~ChangedName(c) =>
         \A n, p \in {q \in Ran : sctpMap[q] = c} : n = p /\ sock[c] # "closed"
    /\ sock[c] = "closed" /\ c \notin cleared => \A e \in batch : e.fd # c

\* edge-triggered, epoll says once that a socket has something to read or has
\* ended: while it has, its event is due or in the batch, its loop is running,
\* or the loop last ended at a message that does not decode
NothingForgotten ==
  \A c \in Conn :
    sock[c] = "open" /\ (inbox[c] # <<>> \/ link[c] # "up") =>
      c \in ready \cup left \cup {reading} \cup {e.fd : e \in batch}

\* what has arrived on a connection is read ("We must read whatever data is
\* available completely"), or the connection is closed, unless the read loop
\* ends at a message that does not decode
InputIsRead ==
  \A c \in Conn :
    (sock[c] = "open" /\ inbox[c] # <<>>)
      ~> (sock[c] = "closed" \/ inbox[c] = <<>> \/ c \in left)

\* a connection that the RAN closed, or that broke, is noticed and its record
\* released (receiveDataFromSctp, handlepoll_error), with the same exception
HangUpIsNoticed ==
  \A c \in Conn :
    (sock[c] = "open" /\ link[c] # "up") ~> (sock[c] = "closed" \/ c \in left)

\* of the connections an event announces the first is accepted, however many
\* come behind it; the others wait for the next event, that is for another
\* connection, as the accept loop takes one for each event
ConnectionAccepted ==
  \A c \in Conn :
    (backlog # <<>> /\ Head(backlog) = c /\ Listen \in ready) ~> sock[c] # "waiting"
=============================================================================
