-------------------------------- MODULE XApp --------------------------------
(***************************************************************************)
(* The xApp connector (xapp-sm-connector/src): the main thread connects to *)
(* the agents and subscribes to the gNBs of its list one after the other   *)
(* (SubscriptionHandler), the receiver thread handles the answers and the  *)
(* reports of the gNBs, one thread per connected agent turns what the      *)
(* agent sends into control requests, and the external control thread      *)
(* ends the xApp.                                                          *)
(*                                                                         *)
(* status_table is keyed by POINTER and searched by NAME.  The main thread *)
(* always uses the same buffer (Buf), which holds the name of the gNB      *)
(* whose turn it is; the receiver uses what rmr_get_meid gives it for an   *)
(* uninitialized argument: a fresh buffer, or one of an earlier message,   *)
(* whose name is overwritten.  Only the main thread takes the lock, so an  *)
(* update of the table may be lost, and the process may die.  The buffer   *)
(* of xapp_rmr_send is shared by all threads without a lock as well.       *)
(***************************************************************************)
EXTENDS Naturals, Sequences, FiniteSets

CONSTANTS
  Gnb, NoGnb,
  Agents,    \* the number of agents: 1..Agents, in the order of their addresses
  Ptr, Buf,  \* buffers of received names, the main thread's buffer
  MaxList,   \* bound: the length of the gNB list
  MaxAgents, \* bounds, by the length of the list: the agents configured,
  MaxAnswers \* and the gNBs that answer a subscription

Agent == 1..Agents
Key == Ptr \cup {Buf}
MainT == 0 \* the threads: main, one per agent, external control
ControlT == Agents + 1
Threads == 0..ControlT

ASSUME ConstantsOK ==
  /\ NoGnb \notin Gnb /\ Buf \notin Ptr
  /\ Agents \in Nat /\ MaxList \in Nat
  /\ {MaxAgents, MaxAnswers} \subseteq [0..MaxList -> Nat]

VARIABLES
  rnib_gnblist, \* the gNBs to subscribe to; may hold a name twice
  main,         \* where the main thread is
  i,            \* whose turn it is in rnib_gnblist
  elapsed,      \* the time-out of this request has passed
  res,          \* per position in the list: what the request returned
  status_table, name, \* per buffer: the status filed under it, the name in it
  receiver, key,      \* where the receiver is in a response, its buffer
  undialled, agentIp_socket, \* agents still to be dialled, those connected
  agentIp_gnbId,         \* per agent: its gNB
  sending, header,       \* per thread: the gNB it is sending to; the shared buffer
  visit,        \* the agent terminate_du_reporting has come to, 0 before it runs
  running,      \* FALSE after the xApp was killed
  \* history
  answered,     \* gNBs that have answered
  timedOut,     \* positions whose request ended at the time-out
  raced, reused,   \* an update or a search was spoilt; a buffer with an entry was reused
  crossed,      \* the threads that are sending have met in the send buffer
  fed, full,    \* who received whose reports; gNBs that found every agent taken
  due           \* gNBs still to be told of the end

requests == <<rnib_gnblist, main, i, elapsed, res>>
table == <<status_table, name, raced, reused>>
reception == <<receiver, key, answered>>
agents == <<agentIp_gnbId, fed, full>>
sender == <<sending, header, crossed>>
ending == <<visit, due>>
vars == <<requests, timedOut, table, reception, undialled, agentIp_socket, agents, sender,
          ending, running>>

Results == {"none", "success", "duplicate", "tx", "unknown"}

TypeOK ==
  /\ rnib_gnblist \in Seq(Gnb) /\ i \in 1..(Len(rnib_gnblist) + 1)
  /\ main \in {"open", "add", "fill", "send", "waiting", "check", "delete", "done"}
  /\ elapsed \in BOOLEAN /\ res \in [DOMAIN rnib_gnblist -> Results]
  /\ status_table \in [Key -> {"none", "pending", "success"}]
  /\ name \in [Ptr -> Gnb \cup {NoGnb}]
  /\ receiver \in {"idle", "named", "found", "present"} /\ key \in Key
  /\ undialled \subseteq Agent /\ agentIp_socket \subseteq Agent \ undialled
  /\ agentIp_gnbId \in [Agent -> Gnb \cup {NoGnb}]
  /\ sending \in [Threads -> Gnb \cup {NoGnb}] /\ header \in Gnb \cup {NoGnb}
  /\ visit \in 0..(Agents + 1) /\ running \in BOOLEAN
  /\ answered \subseteq Gnb /\ timedOut \subseteq DOMAIN rnib_gnblist
  /\ {raced, reused, crossed} \subseteq BOOLEAN
  /\ fed \subseteq Gnb \X Agent /\ full \subseteq Gnb
  /\ due \subseteq Gnb

Init ==
  /\ rnib_gnblist \in UNION {[1..n -> Gnb] : n \in 0..MaxList}
  /\ undialled \in {as \in SUBSET Agent : Cardinality(as) <= MaxAgents[Len(rnib_gnblist)]}
  /\ main = "open" /\ i = 1 /\ elapsed = FALSE /\ res = [j \in DOMAIN rnib_gnblist |-> "none"]
  /\ status_table = [k \in Key |-> "none"] /\ name = [p \in Ptr |-> NoGnb]
  /\ receiver = "idle" /\ key = Buf
  /\ agentIp_socket = {} /\ agentIp_gnbId = [a \in Agent |-> NoGnb]
  /\ sending = [t \in Threads |-> NoGnb] /\ header = NoGnb
  /\ visit = 0 /\ running = TRUE
  /\ answered = {} /\ timedOut = {} /\ raced = FALSE /\ reused = FALSE
  /\ crossed = FALSE /\ fed = {} /\ full = {} /\ due = {}
-----------------------------------------------------------------------------
(* xapp_rmr_send                                                           *)

\* the header is filled in, whoever's buffer it is
FillUnlessFilled(t, g) == \* mutant: the header of a buffer that is left stays
  /\ sending[t] = NoGnb
  /\ sending' = [sending EXCEPT ![t] = g]
  /\ header' = IF header = NoGnb THEN g ELSE header
  /\ crossed' = \E u \in Threads : sending[u] # NoGnb
Fill(t, g) ==
  /\ sending[t] = NoGnb
  /\ sending' = [sending EXCEPT ![t] = g] /\ header' = g
  /\ crossed' = \E u \in Threads : sending[u] # NoGnb

\* what is in the buffer goes out, or may stay there after the last attempt; a
\* buffer that another thread has sent and reset cannot be sent
Emit(t, ok) ==
  /\ sending[t] # NoGnb /\ (ok => header # NoGnb)
  /\ sending' = [sending EXCEPT ![t] = NoGnb]
  /\ header' \in IF ok THEN {NoGnb} ELSE {header, NoGnb}
  /\ UNCHANGED crossed
-----------------------------------------------------------------------------
(* The main thread: Xapp::startup                                          *)

OpenAgentAgain(a) == \* mutant: an agent is dialled until it answers
  /\ main = "open" /\ a \in undialled
  /\ \/ agentIp_socket' = agentIp_socket \cup {a} /\ UNCHANGED undialled
     \/ UNCHANGED <<agentIp_socket, undialled>>
  /\ UNCHANGED <<requests, timedOut, table, reception, agents, sender, ending, running>>
OpenAgent(a) ==
  /\ main = "open" /\ a \in undialled /\ undialled' = undialled \ {a}
  /\ \/ agentIp_socket' = agentIp_socket \cup {a}
     \/ UNCHANGED agentIp_socket
  /\ UNCHANGED <<requests, timedOut, table, reception, agents, sender, ending, running>>

AllOpened ==
  /\ main = "open" /\ undialled = {} /\ main' = "add"
  /\ UNCHANGED <<rnib_gnblist, i, elapsed, res, timedOut, table, reception, undialled,
                 agentIp_socket, agents, sender, ending, running>>

\* the name in the main thread's buffer stays there after the last request
Current == rnib_gnblist[IF i > Len(rnib_gnblist) THEN i - 1 ELSE i]
NameOf(k) == IF k = Buf THEN Current ELSE name[k]
EntriesOfAny(g) == {k \in Key : status_table[k] # "none" /\ g \in Gnb} \* mutant
Entries(g) == {k \in Key : status_table[k] # "none" /\ NameOf(k) = g}

\* an update of the table; it may be lost when the other thread is at one too
Put(k, status, other) ==
  \/ status_table' = [status_table EXCEPT ![k] = status] /\ UNCHANGED raced
  \/ other /\ raced' = TRUE /\ UNCHANGED status_table

Returns(r) ==
  /\ res' = [res EXCEPT ![i] = r] /\ i' = i + 1 /\ main' = "add" /\ elapsed' = FALSE

\* add_request_entry, under the lock
Add ==
  /\ main = "add" /\ i <= Len(rnib_gnblist)
  /\ \/ /\ Entries(Current) # {}
        /\ Returns("duplicate") /\ UNCHANGED <<status_table, raced>>
     \/ /\ Entries(Current) = {}
        /\ Put(Buf, "pending", receiver = "present")
        /\ main' = "fill" /\ UNCHANGED <<i, elapsed, res>>
  /\ UNCHANGED <<rnib_gnblist, timedOut, name, reused, reception, undialled, agentIp_socket,
                 agents, sender, ending, running>>

AllSubscribed ==
  /\ main = "add" /\ i > Len(rnib_gnblist) /\ main' = "done"
  /\ UNCHANGED <<rnib_gnblist, i, elapsed, res, timedOut, table, reception, undialled,
                 agentIp_socket, agents, sender, ending, running>>

FillRequest ==
  /\ main = "fill" /\ main' = "send" /\ Fill(MainT, Current)
  /\ UNCHANGED <<rnib_gnblist, i, elapsed, res, timedOut, table, reception, undialled,
                 agentIp_socket, agents, ending, running>>

TransmitKeepsEntry == \* mutant: the entry of a request that was not sent stays
  /\ main = "send"
  /\ \/ Emit(MainT, TRUE) /\ main' = "waiting" /\ UNCHANGED <<i, elapsed, res>>
     \/ Emit(MainT, FALSE) /\ Returns("tx")
  /\ UNCHANGED <<rnib_gnblist, timedOut, table, reception, undialled, agentIp_socket,
                 agents, ending, running>>
Transmit ==
  /\ main = "send"
  /\ \/ Emit(MainT, TRUE) /\ main' = "waiting"
        /\ UNCHANGED <<i, elapsed, res, status_table, raced>>
     \/ Emit(MainT, FALSE) /\ Returns("tx") /\ Put(Buf, "none", receiver = "present")
  /\ UNCHANGED <<rnib_gnblist, timedOut, name, reused, reception, undialled, agentIp_socket,
                 agents, ending, running>>

Elapse ==
  /\ main \in {"waiting", "check"} /\ ~elapsed /\ elapsed' = TRUE
  /\ UNCHANGED <<rnib_gnblist, main, i, res, timedOut, table, reception, undialled,
                 agentIp_socket, agents, sender, ending, running>>

\* notified, timed out or woken for no reason: a notification sent before the
\* thread waits is not kept
Wake ==
  /\ main = "waiting" /\ main' = "check"
  /\ UNCHANGED <<rnib_gnblist, i, elapsed, res, timedOut, table, reception, undialled,
                 agentIp_socket, agents, sender, ending, running>>

Conclude(r) == main' = "delete" /\ res' = [res EXCEPT ![i] = r]

CheckStatusOnly == \* mutant: the time that has passed is not looked at
  /\ main = "check"
  /\ \/ \E k \in Entries(Current) :
          IF status_table[k] = "success" THEN Conclude("success")
          ELSE main' = "waiting" /\ UNCHANGED res
     \/ Entries(Current) = {} /\ Conclude("unknown")
  /\ UNCHANGED <<rnib_gnblist, i, elapsed, timedOut, table, reception, undialled,
                 agentIp_socket, agents, sender, ending, running>>
\* The status of whichever entry with this name comes first; a search next to
\* an update of the receiver may miss it.  find_transaction is handed a copy of
\* the map and returns an iterator into it: a name that is not found compares
\* equal to end() all the same, one that is found is read from the freed copy,
\* taken here to still hold the status that was copied.
Check ==
  /\ main = "check"
  /\ \/ \E k \in Entries(Current) :
          \/ /\ status_table[k] = "success"
             /\ Conclude("success") /\ UNCHANGED <<timedOut, raced>>
          \/ /\ status_table[k] = "pending" /\ elapsed
             /\ Conclude("success") /\ timedOut' = timedOut \cup {i} /\ UNCHANGED raced
          \/ /\ status_table[k] = "pending" /\ ~elapsed
             /\ main' = "waiting" /\ UNCHANGED <<res, timedOut, raced>>
     \/ Entries(Current) = {} /\ Conclude("unknown") /\ UNCHANGED <<timedOut, raced>>
     \/ receiver = "present" /\ Conclude("unknown") /\ UNCHANGED timedOut /\ raced' = TRUE
  /\ UNCHANGED <<rnib_gnblist, i, elapsed, status_table, name, reused, reception, undialled,
                 agentIp_socket, agents, sender, ending, running>>

Delete ==
  /\ main = "delete" /\ Returns(res[i]) /\ Put(Buf, "none", receiver = "present")
  /\ UNCHANGED <<rnib_gnblist, timedOut, name, reused, reception, undialled, agentIp_socket,
                 agents, sender, ending, running>>
-----------------------------------------------------------------------------
(* The receiver thread                                                     *)

\* rmr_get_meid: g is written into p
Named(g, p) ==
  /\ name' = [name EXCEPT ![p] = g]
  /\ reused' = (reused \/ status_table[p] # "none")

\* RIC_SUB_RESP: the answer to a request of this run, late or twice, or of an
\* earlier one
Response(g, p) ==
  /\ receiver = "idle" /\ Named(g, p)
  /\ answered' = answered \cup {g}
  /\ Cardinality(answered') <= MaxAnswers[Len(rnib_gnblist)]
  /\ key' = p /\ receiver' = "named"
  /\ UNCHANGED <<requests, timedOut, status_table, raced, undialled, agentIp_socket, agents,
                 sender, ending, running>>

\* is_request_entry, and set_request_status looks again; a search next to an
\* update of the main thread may miss the entry
Updating == main \in {"add", "send", "delete"}
Present ==
  /\ receiver \in {"named", "found"}
  /\ \/ Entries(name[key]) # {} /\ UNCHANGED raced
        /\ receiver' = IF receiver = "named" THEN "found" ELSE "present"
     \/ Entries(name[key]) = {} /\ receiver' = "idle" /\ UNCHANGED raced
     \/ Updating /\ receiver' = "idle" /\ raced' = TRUE
  /\ UNCHANGED <<requests, timedOut, status_table, name, reused, key, answered, undialled,
                 agentIp_socket, agents, sender, ending, running>>

\* and files the status under its own key
SetStatus ==
  /\ receiver = "present" /\ receiver' = "idle"
  /\ Put(key, "success", Updating)
  /\ UNCHANGED <<requests, timedOut, name, reused, key, answered, undialled, agentIp_socket,
                 agents, sender, ending, running>>

\* RIC_INDICATION, find_agent_ip_from_gnb: the agent of the gNB, else the first
\* one without a gNB, else the last one
AgentsOfNone(g) == {a \in Agent : g = NoGnb} \* mutant: the map is not searched
AgentsOf(g) == {a \in Agent : agentIp_gnbId[a] = g}
UntakenOrNot == agentIp_socket \* mutant
Untaken == {a \in agentIp_socket : agentIp_gnbId[a] = NoGnb}
First(as) == {a \in as : \A b \in as : a <= b}
Last(as) == {a \in as : \A b \in as : b <= a}

Indication(g, p) ==
  /\ receiver = "idle" /\ Named(g, p)
  /\ \/ \E a \in First(AgentsOf(g)) :
           fed' = fed \cup {<<g, a>>} /\ UNCHANGED <<agentIp_gnbId, full>>
     \/ /\ AgentsOf(g) = {}
        /\ \E a \in First(Untaken) :
             /\ agentIp_gnbId' = [agentIp_gnbId EXCEPT ![a] = g]
             /\ fed' = fed \cup {<<g, a>>} /\ UNCHANGED full
     \/ /\ AgentsOf(g) = {} /\ Untaken = {}
        /\ \E a \in Last(agentIp_socket) :
             fed' = fed \cup {<<g, a>>} /\ full' = full \cup {g}
        /\ UNCHANGED agentIp_gnbId
     \/ agentIp_socket = {} /\ UNCHANGED agents
  /\ UNCHANGED <<requests, timedOut, status_table, raced, reception, undialled, agentIp_socket,
                 sender, ending, running>>
-----------------------------------------------------------------------------
(* The agents' threads and the external control thread                     *)

\* send_ric_control_request sends nothing while the list is empty
AgentFills(a) ==
  /\ a \in agentIp_socket /\ agentIp_gnbId[a] # NoGnb /\ rnib_gnblist # <<>>
  /\ Fill(a, agentIp_gnbId[a])
  /\ UNCHANGED <<requests, timedOut, table, reception, undialled, agentIp_socket, agents,
                 ending, running>>
AgentSends(a, ok) ==
  /\ Emit(a, ok)
  /\ UNCHANGED <<requests, timedOut, table, reception, undialled, agentIp_socket, agents,
                 ending, running>>

Terminate ==
  /\ visit = 0 /\ visit' = 1 /\ due' = {agentIp_gnbId[a] : a \in agentIp_socket} \ {NoGnb}
  /\ UNCHANGED <<requests, timedOut, table, reception, undialled, agentIp_socket, agents,
                 sender, running>>

\* an agent that is not connected is not in the map; with no gNB, what follows
\* the end of the other map is read: garbage, if the process survives
SkipRest == \* mutant: the loop ends at an agent without a gNB
  /\ visit \in Agent /\ sending[ControlT] = NoGnb
  /\ \/ visit \notin agentIp_socket
     \/ agentIp_gnbId[visit] = NoGnb
     \/ rnib_gnblist = <<>>
  /\ visit' = IF visit \in agentIp_socket THEN Agents + 1 ELSE visit + 1
  /\ UNCHANGED <<requests, timedOut, table, reception, undialled, agentIp_socket, agents,
                 sender, due, running>>
SkipAgent ==
  /\ visit \in Agent /\ sending[ControlT] = NoGnb
  /\ \/ visit \notin agentIp_socket
     \/ agentIp_gnbId[visit] = NoGnb
     \/ rnib_gnblist = <<>>
  /\ visit' = visit + 1
  /\ UNCHANGED <<requests, timedOut, table, reception, undialled, agentIp_socket, agents,
                 sender, due, running>>
FillTermination ==
  /\ visit \in agentIp_socket /\ agentIp_gnbId[visit] # NoGnb /\ rnib_gnblist # <<>>
  /\ Fill(ControlT, agentIp_gnbId[visit])
  /\ UNCHANGED <<requests, timedOut, table, reception, undialled, agentIp_socket, agents,
                 ending, running>>
\* whether RMR takes it or not
SendTermination(ok) ==
  /\ Emit(ControlT, ok)
  /\ due' = due \ {sending[ControlT]} /\ visit' = visit + 1
  /\ UNCHANGED <<requests, timedOut, table, reception, undialled, agentIp_socket, agents,
                 running>>
Kill ==
  /\ visit = Agents + 1 /\ running' = FALSE
  /\ UNCHANGED <<requests, timedOut, table, reception, undialled, agentIp_socket, agents,
                 sender, ending>>
-----------------------------------------------------------------------------
MainThread ==
  \/ \E a \in Agent : OpenAgent(a)
  \/ AllOpened \/ Add \/ FillRequest \/ Transmit \/ Wake \/ Check \/ Delete \/ AllSubscribed
Receiver ==
  \/ \E g \in Gnb, p \in Ptr : Response(g, p) \/ Indication(g, p)
  \/ Present \/ SetStatus
AgentThread == \E a \in Agent : AgentFills(a) \/ \E ok \in BOOLEAN : AgentSends(a, ok)
ControlThread ==
  \/ Terminate \/ SkipAgent \/ FillTermination
  \/ \E ok \in BOOLEAN : SendTermination(ok)
  \/ Kill

Next ==
  /\ running
  /\ MainThread \/ Elapse \/ Receiver \/ AgentThread \/ ControlThread
Spec == Init /\ [][Next]_vars
\* the main thread runs, and time passes
FairSpec ==
  Spec /\ WF_vars(running /\ MainThread) /\ WF_vars(running /\ Elapse)
-----------------------------------------------------------------------------
(* Properties                                                              *)

\* a gNB is refused as a duplicate only if the list holds it twice and it has
\* answered (its status stays under the receiver's key, which nobody deletes),
\* and its entry is lost only to a race of the two threads in the table
RefusalHasCause ==
  ~raced => \A j \in DOMAIN rnib_gnblist :
    /\ res[j] = "duplicate" /\ ~reused =>
         rnib_gnblist[j] \in answered /\ \E k \in 1..(j - 1) : rnib_gnblist[k] = rnib_gnblist[j]
    /\ res[j] # "unknown"

\* a subscription succeeds only if its gNB has answered, or at the time-out
\* ("sunny side scenario"), even when the threads meet in the table: the status
\* under the receiver's key counts for the gNB whose name is in that buffer,
\* unless the next message has put another there
SuccessIsAnsweredOrTimedOut ==
  ~reused => \A j \in DOMAIN rnib_gnblist :
    res[j] = "success" => rnib_gnblist[j] \in answered \/ j \in timedOut

\* while threads do not meet in the send buffer, every request goes out with
\* its own header, also when the buffer is left from one that was not sent
OwnHeader == ~crossed => \A t \in Threads : sending[t] \in {NoGnb, header}

\* no two agents have the same gNB
OneAgentPerGnb ==
  \A a, b \in Agent : agentIp_gnbId[a] # NoGnb /\ agentIp_gnbId[a] = agentIp_gnbId[b] => a = b

\* an agent controls the gNB whose reports it receives, unless that gNB has
\* found every connected agent taken
ReporterIsControlled ==
  \A g \in Gnb, a \in Agent : <<g, a>> \in fed => agentIp_gnbId[a] = g \/ g \in full

\* before the process is stopped, every gNB that a connected agent had when
\* that began has been sent the end of the reporting, unless the list is empty
TerminationReachesAll == ~running /\ rnib_gnblist # <<>> => due = {}

\* the main thread comes to the end of its list: a notification that comes
\* before the wait, or a lost answer, costs it a time-out and no more
StartupEnds == <>(main = "done" \/ ~running)
=============================================================================
