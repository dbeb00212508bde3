# TLA+ development for the near-RT RIC of ns-O-RAN

This directory holds TLA+ models, TLC configurations and TLAPS proofs about the
programs under `src/setup`: the O-RAN near-real-time RIC (E2 Manager, E2
Termination, Redis extension) and the xApps that run on it. Every module is
translated from the source; `PROJECT.json` maps each definition to its lines.

## 1. The system

```
 gNB / simulator --SCTP/E2AP--> E2 Termination --RMR--> E2 Manager --SDL--> Redis (+ exstrings)
                                      |                    |  \--HTTP--> Routing Manager
                                      \------RMR----> xApp (subscriptions, control) --TCP--> local agent
```

| component | state it keeps | operations | who calls it |
|---|---|---|---|
| E2T instances manager (`managers/e2t_instances_manager.go`) | R-NIB: one `E2TInstance` record per E2T (RAN list, state, keep-alive and deletion timestamps), the `E2TAddresses` list; one mutex | add, remove, add/remove RAN, clear all RANs, reset keep-alive, set state, boot reset | RMR and HTTP handlers, the worker |
| E2T shutdown manager, keep-alive worker | none of its own; writes records **without** the mutex | send keep-alive, detect expiry, mark, disassociate RANs, remove | one goroutine, on a ticker |
| E2T association manager | R-NIB nodeb (`connectionStatus`, `associatedE2TInstanceAddress`) and the record's RAN list, Routing Manager | associate, dissociate, remove E2T | setup, lost connection, shutdown |
| RAN disconnection manager | nodeb | disconnect | lost-connection and TERM_INIT handlers |
| E2 setup handler | nodeb | setup of a new or known RAN, answer or refuse | one goroutine per message |
| E2 TERM_INIT handler | E2T record | register a new E2T, disconnect the RANs of a restarted one | one goroutine per message |
| red button (`delete_all_request_handler.go`) | every nodeb, every record | SHUTTING_DOWN, wait, SHUT_DOWN | HTTP |
| gNB update handler | nodeb | replace the served cells | HTTP |
| R-NIB data service and writer | none | retried database calls | everybody |
| E2 Termination (`sctpThread.cpp`) | one record per SCTP connection, a table from names to records, epoll | accept, read and forward in both directions, close, RIC_SCTP_CLEAR_ALL, E2_TERM_INIT | one listener thread, the main thread |
| Redis extension (`exstrings.c`) | Redis keys | conditional set and delete, set or delete with publication, non-atomic scans | SDL clients |
| xApp subscription handler (`subs_mgmt.*`) | `status_table`, condition variable | request, response, timeout | main thread, receiver thread |
| xApp agent connector, `xapp.cc`, `xapp_rmr.cc` | agent sockets, agent to gNB map, one RMR send buffer | connect, route reports to agents, send control, terminate | main, receiver, agent and control threads |

What makes it hard:

- The E2 Manager starts one goroutine per RMR message and per HTTP request, and
  its state lives in a database that survives crashes. There is one mutex, it
  covers the E2T records only, and the shutdown manager does not take it. Nothing
  covers the nodebs: each handler reads one, calls out, and writes its copy back.
  Most logical changes take two or more database calls, any of which can fail or
  be cut by a crash.
- The E2 Termination reads edge-triggered sockets, where a missed read is never
  announced again. It keys its connections by a name that the RAN sends, and may
  send again. The E2 Manager knows only what reports get through.
- The xApp's status table is filled under a lock by one thread and without it by
  another, keyed by pointer and searched by name.
- NGET.NOATOMIC gives up the Redis lock between its rounds.

The hazards, each at its line, are in `PROJECT.json`.

## 2. Modules

| module | what it is | source |
|---|---|---|
| `E2TInstances` | every writer of the E2T records, one action per database call | `e2t_instances_manager.go`, `e2t_shutdown_manager.go`, `e2t_keep_alive_worker.go`, `main.go` |
| `E2TRegistry` | what the manager promises: each operation acts at one instant on the current record | |
| `E2TInstances_proofs`, `E2TInstancesTime_proofs`, `E2TInstancesRegistry_proofs` | proofs: the mutex, the timestamps, torn entries and the refinement of `E2TRegistry` | |
| `E2Manager`, `E2Manager_proofs`, `E2ManagerCounts_proofs` | the handlers, the red button and the worker over nodebs and E2Ts, one action per database call | `handlers/`, `e2t_association_manager.go`, `ran_disconnection_manager.go`, `e2t_shutdown_manager.go` |
| `E2Termination`, `E2Termination_proofs` | the listener and the main thread, RANs and RMR around them | `sctpThread.cpp` |
| `XApp`, `XApp_proofs` | the five kinds of threads of the xApp connector over what they share | `xapp.cc`, `subs_mgmt.*`, `msgs_proc.cc`, `agent_connector.cc`, `xapp_rmr.cc` |
| `Exstrings`, `Exstrings_proofs` | the Redis commands, a lock's clients, a subscriber, NGET.NOATOMIC | `exstrings.c` |
| `MC...` | a small instance of each for TLC | |

`E2Manager` uses the actions of `E2TRegistry` for the operations of the E2T
instances manager, and `E2TInstances` shows (run `registry_refines`) that the
manager implements that registry. So the records are modelled call by call once,
and the composition stays small enough for TLC.

### 2.1 `E2TInstances`

| TLA+ | code |
|---|---|
| `records`, `addresses` | the `E2TInstance` keys and `E2TAddresses` in Redis |
| `mux` | `E2TInstancesManager.mux` |
| `pc`, `op`, `snap`, `asnap`, `res` | a goroutine: its next database call, the operation, the values it has read, what it will return |
| `round` | the worker's slice `e2tInstances`: per address the record it read, how often the address was listed, how many of these are still to handle |
| `clock` | `time.Now()`; equal ticks are allowed |
| `Load`, `SaveUpdate` | `AddRansToInstance`, `RemoveRanFromInstance`, `ResetKeepAliveTimestamp`, `SetE2tInstanceState` |
| `LoadAll`, `SaveCleared` | `ClearRansOfAllE2TInstances` |
| `SaveNew`, `GetAddrs`, `SaveAddrs` | `AddE2TInstance` |
| `RemoveRecord`, `GetAddrs`, `SaveAddrs` | `RemoveE2TInstance` |
| `ReadForShutdown`, `NextInstance` | `E2TKeepAliveExpired`: the read of all listed records, one turn of the loop over them |
| `Mark`, `NodebsCleared` | `Shutdown`; `Mark` saves the worker's copy without `mux` |
| `Boot`, `Crash` | `main.go` |

`AssociatedRanList` and `E2TAddresses` are bags: their order decides nothing,
but `AddRansToInstance` appends without looking for duplicates while both
removal functions drop every copy. `AddE2TInstance` appends without looking too,
so an address can be listed twice; the worker then gets two copies of its record
(the reader returns one per key it is given) and handles both in one round: the
second mark brings back the record that the first shutdown removed, and the
second shutdown removes it again (`Reviving`). `ClearRansOfAllE2TInstances` and
the boot reset write such a record twice with the same contents, which is one
write here. In `E2Manager` the worker has one copy of each address: the second
repeats the same steps in the same round.

A write that is repeated after its reply was lost (`rnib_data_service.go:284`) is
one write here: the contents are computed before, and while a goroutine
repeats its write under the mutex only the worker's mark can come between, which
`FreshOrMarked` excepts and `keepalive_undoes_mark` is about. That the mark itself may be
repeated, after a heartbeat that came between, is left out. `E2Manager`, whose
nodebs no lock protects, has the repeated writes.

### 2.2 `E2Manager`

| TLA+ | code |
|---|---|
| `nodebs`, `ids` | the nodeb record by name, and the set of RAN identities the list queries read |
| `reg`, `dir` | E2T records and addresses |
| `pc`, `job`, `nb`, `todo` | a goroutine: next call, request, the nodeb it read, RANs still to handle |
| `copies` | the records the worker found expired in its current round |
| `Setup` … `AddRan` | `Handle`, `handleNewRan`, `handleExistingRan`, `AssociateRan` |
| `Lost`, `TermInit`, `Fetch` … `RemoveRan` | `DisconnectRan`, `DissociateRan`, for one RAN or for a list |
| `NewE2T`, `Register`, `List` | `HandleNewE2TInstance`, `AddE2TInstance` |
| `RedButton`, `ListRans` … `ClearRans` | `DeleteAllRequestHandler.Handle` |
| `UpdateGnb`, `WriteBack` | `UpdateGnbRequestHandler` |
| `Expire`, `Mark` … `Unlist` | a round of the keep-alive worker |

A nodeb is reduced to its status and its E2T; cells and versions are carried
but decide nothing. `Fault` is a call that fails after the retries of
`rNibDataService.retry`: a failed write may have been applied, and one that met
a connection error may be tried again later, so a step may also stay where it is
after having written; `SaveNodeb` repeats its record and its identity together. A Routing Manager refusal during E2_SETUP is the third
alternative of `Associate`. Expiry is left to the environment here (any set of
listed E2Ts); the test itself is in `E2TInstances`.

`overlap` records how far requests have overlapped so far: not at all, about
different RANs, about one RAN but without the handlers that save a nodeb as they
read it (`"fresh"`), or any way. A property that does not survive every overlap
names the level up to which it holds.

### 2.3 `E2Termination`

| TLA+ | code |
|---|---|
| `sock`, `enodbName` | a `ConnectedCU_t`, and the name in it; a connection is dialled once |
| `sctpMap` | the entries of `mapWrapper`: the only `setkey` is by RAN name (keys by host and by message type are erased, never set) |
| `ready`, `batch`, `reading` | what `epoll_wait` will return, what it returned and is still to be handled, the read loop of `receiveDataFromSctp` |
| `Accept` | the accept loop, which ends after one connection |
| `Read`, `Setup`, `SetupBadFunctions`, `SetupBadName` | one turn of the read loop; an E2_SETUP, one whose RAN functions do not decode, one whose name is unreadable |
| `Close`, `ReadEnd`, `PollError` | `sendRequestToXapp(RIC_SCTP_CONNECTION_FAILURE)`, `close`, `cleanHashEntry`; EOF or an error in the loop, `handlepoll_error` |
| `DirectionalRequest`, `KeepAlive`, `ClearAll` | `receiveXappMessages` |
| `SendTermInit`, `RepeatTermInit`, `StopTermInit` | `sendTermInit` and the loop after it in the main thread |
| `Crash`, `Dies`, `UseReleased` | the process ends; a record is used after `cleanHashEntry` freed it, whose outcomes are a further report or the end of the process |

`reported` is what the E2 Manager was told last of each RAN; that its goroutines
may handle two reports in either order is not part of this module. `said`,
`left`, `lost`, `late`, `cleared` and `stale` are history, read by the
properties only (`stale` also by `Dies`). `cleared` is the set of connections that
`ClearAll` released while the batch held an event of theirs; the next
`epoll_wait` empties it.

Simplifications: the names have one length, because the copy at
`sctpThread.cpp:1480` would leave the tail of a longer old name behind a shorter
new one; the kernel does not reuse the descriptor of a
released record; `accept` does not run out of descriptors; an E2_SETUP whose
conversion to XML fails counts as `BadFunctions` or changes nothing.
`handleEinprogressMessages` serves connections this process dials, and nothing
in it dials any more.

### 2.4 `XApp`

| TLA+ | code |
|---|---|
| `OpenAgent`, `AllOpened`, `Add` ... `AllSubscribed` | `Xapp::startup`: `open_control_socket_agent` per agent, `startup_subscribe_requests`, `manage_subscription_request` |
| `Response`, `Present`, `SetStatus` | RIC_SUB_RESP in `msgs_proc.cc`: `rmr_get_meid`, `manage_subscription_response` |
| `Indication` | RIC_INDICATION as far as `find_agent_ip_from_gnb` |
| `Fill`, `Emit` | `xapp_rmr_send` over its one buffer |
| `AgentFills`, `AgentSends` | `handle_rx_msg_agent`, `send_ric_control_request` |
| `Terminate` ... `Kill` | `handle_external_control_message`, `terminate_du_reporting` |

`transaction_identifier` is an `unsigned char *`: the table is keyed by pointer
and `find_transaction` compares what the pointers point to. The main thread
always passes the same buffer, which holds the name whose turn it is; the
receiver passes a pointer it never initialised to `rmr_get_meid`, and the
outcomes modelled are a buffer of its own and one of an earlier message. An
update that meets another in the unlocked table may be lost (`Put`), a search
may miss an entry (`raced`). That undefined behaviour may also end the process:
for the safety properties such a run is a prefix of one that is checked, and
`StartupEnds` assumes it does not happen. `find_transaction` takes the map by value, so
the iterator that `get_request_status` (`subs_mgmt.cc:97-106`) dereferences points into a
copy that is gone. A name that is not found still compares equal to `end()`; one that is
found is read from a freed node, which `Check` takes to hold the status that was
copied. The models search the live table, in one step. At the end, an agent
without a gNB makes `terminate_du_reporting` (`xapp.cc:333`) read past the end of a
map: a request with a garbage name, or the end of the process; `SkipAgent` goes on
to the next agent and sends nothing. Steps on the two agent maps are atomic;
`DEBUG` is 0; `kill` ends in `exit()`, so destructors that close sockets never run.

### 2.5 `Exstrings`

A command is one action: Redis runs one at a time. `Store` is its change,
`MultiPub` its publications as one message, `Quietly` a change without one.
NGET.NOATOMIC is a thread that takes the lock for one SCAN and MGET at a time
(`NGetRound`); NGET.ATOMIC and NDEL.ATOMIC do all rounds at once. SCAN promises
that a key that stays is returned at least once: `unscanned` is what has not
been gone through, `again` what a round repeats. Values are compared with
`strncmp`, so `Text` is what counts of a value. The clients of a lock, expiry,
and the subscriber are the module's environment.

## 3. What is checked

The passing runs hold within these bounds; every property has a mutant of a
mapped definition that breaks it.

| run | what it shows | instance |
|---|---|---|
| `registry_safety` | `FreshOrMarked`: what an operation under the mutex is about to overwrite is what it read, except for the worker's mark. `HeartbeatNotLost`: no save of an older copy moves an active E2T's timestamp back (`TimeInv` is the reason). `NoResurrection`: only `AddE2TInstance` brings a removed record back, and the worker's mark of an E2T that was listed more than once. `TornEntriesBounded`: record and address disagree for one E2T per error and two per crash at most (the entry being written, and the record being revived), beside the one being revived now. `EveryCallReturns`: no error path keeps the mutex | 1 E2T, 1 RAN, 2 handlers and the worker, 3 calls, 1 error, 1 crash, 3 ticks |
| `registry_refines` | without the worker's unlocked save, every operation acts at one instant on the current record (`E2TRegistry`) | 2 E2Ts, 2 RANs, 4 calls, 1 error, 1 crash |
| `manager_safety` | with any overlap: a RAN that is SHUTTING_DOWN or SHUT_DOWN has no E2T, a listed RAN has a record, a RAN misses in the list of identities only after an error or a crash. While requests for one RAN do not overlap: a CONNECTED RAN at rest is in the list of an E2T that exists, up to one RAN per error or interruption. One at a time: a red button that reports success has shut every listed RAN | 2 E2Ts, 2 RANs, 2 handlers and the worker, 1 error, 2 interrupted requests; 6 requests, 5 once two overlap on a RAN |
| `manager_requests_end` | every request ends; a RAN does not stay SHUTTING_DOWN when red buttons, setups and removals race, up to the exceptions in `ShuttingDownEnds` | 1 E2T, 1 RAN, 4 requests, 1 error, 1 interruption |
| `termination_safety` | how the table of names, the open connections and the reports to the E2 Manager stay related through reconnects, takeovers, changed names, the red button, a dropped report or a restart; when a released record may be used | 2 connections, 2 readable names and the unreadable one, 2 messages from RANs, 1 queued request, 1 dropped report or 1 crash |
| `termination_live` | no event of an edge-triggered socket is lost, what arrives is read, an ended connection is noticed, the first of the connections an event announces is accepted | 2 connections, 1 RAN, 2 messages, requests without bound (one queued at a time) |
| `xapp_threads` | which refusals and successes a subscription may get, whose header goes out, which agent gets which gNB, who is told of the end; start-up ends | lists of up to 2 gNBs (also twice the same), 2 agents with lists of up to 1, 1 gNB that answers (any number of times) with lists of 2, 2 received buffers |
| `exstrings_commands` | whose lock a conditional command changes, what a subscriber knows, what NGET.NOATOMIC returns | 2 keys and a lock, 3 clients, 3 values of which two differ behind a zero byte only, 4 changes |

Why the bounds are enough. *E2 Manager*: each hazard needs at most two goroutines
on one record plus the worker, which is what the instances have; five requests
let a RAN set up, move, and be shut down while a third request is in progress; the
second E2T is there for a RAN that moves, the second RAN for lists with a RAN
behind the one that fails. One error or crash more repeats what the first did,
except where the property counts them, and there the counting is tested with
three. *E2 Termination*: two connections are what it takes to reconnect, to take
over a name and to arrive together; two messages and two names let a RAN change its name, to a readable one or not;
one queued request is enough for a batch with events of both kinds. *xApp*: the
table is disturbed by the entry of the previous request, so two requests
suffice; the agents matter to reports and termination, which do not depend on
the table, so the larger lists and the agents are not combined. *Exstrings*: a
lock that changes hands takes a client that sets it, its expiry, a second client,
and a command of the first: four changes.

### Fairness

*E2 Manager.* A goroutine is only ever disabled by the mutex, which is held for a
bounded number of database calls, and `sync.Mutex` hands itself to a starving
waiter. So the steps that take the mutex are strongly fair (`Acquire` in
`E2TInstances`, `Continue(p)` and `ContinueWorker` in `E2Manager`, where one
action both takes and uses it); the other steps only need the Go scheduler to run
every goroutine that can run. That calls return or fail is an assumption. `retry`
bounds the attempts of a database call, but the Routing Manager's HTTP client has no
time-out (`clients/http_client.go:36`): a call that never returned would keep its
goroutine for ever, though not the mutex, under which no such call is made.
Nothing is assumed about requests, time, errors or crashes.

*E2 Termination.* Weak fairness of the listener thread as a whole, which is
enabled whenever it has an event to handle, and of the main thread's sends.
Nothing is assumed of RANs, the network or the RIC. The RANs' messages are
bounded, and that bound matters: one that never stops sending keeps the only
listener in its read loop (a hazard without a property, `sctpThread.cpp:1172`).

*xApp.* Weak fairness of the main thread, and the time-out elapses. Nothing is
assumed of the other threads or of answers.

### Disagreements between the code and what is said of it

| run | what happens | what it contradicts |
|---|---|---|
| `keepalive_undoes_mark` | a keep-alive response that read the record before the worker's unlocked mark saves `Active` over it | `e2t_instances_manager.go:375`, `TestResetKeepAliveTimestampToBeDeleted` |
| `setup_overtakes_red_button` | an E2_SETUP that read the nodeb before the first pass writes CONNECTED over SHUTTING_DOWN | `TestE2SetupRequestNotificationHandler_HandleExistingGnbInvalidStatusError` |
| `setup_on_removed_e2t` | an E2_SETUP that found the E2T before the worker removed it leaves the RAN CONNECTED to nothing | `keep_alive_test.robot:66` |
| `restart_with_duplicate_entry` | a RAN twice in the list makes E2_TERM_INIT stop at the second entry; the RANs behind stay CONNECTED | `TestE2TermInitHandlerSuccessTwoRans` |

The models show more of them, without a run of their own. Each is an exception
that a checked property names, and dropping that exception from the property makes
TLC print the behaviour:

| what happens | what it contradicts | property and exception |
|---|---|---|
| a message that does not decode ends the read loop, and what is queued behind it waits for the next event | `sctpThread.cpp:1152`, "We must read whatever data is available completely" | `InputIsRead`, `c \in left` |
| the accept loop takes one connection per event; of two that arrive together the second waits for a third | `sctpThread.cpp:636`, "We have processed all incoming connections" | `ConnectionAccepted`, `Head(backlog)`: with any member of `backlog` it fails |
| a response to a name that has an entry is filed under the receiver's pointer, which has none | `subs_mgmt.cc:84`, "change status of a request only if it exists" | `RefusalHasCause`, the duplicate |
| gNBs that report but found every agent taken, or no agent, are not told of the end | `xapp.cc:321`, "terminate all DU reportings" | `TerminationReachesAll`, where `Terminate` sets `due` to the gNBs with an agent: with those in `full` as well it fails |
| two values of one length that differ only behind a zero byte are taken for equal | `redismodule/README.md:37`, "Checks a String 'key' for 'oldvalue' equality" | `LockIsOwn`, `Text[...] = Text[...]` |
| a gNB update or `DissociateRan` that read a nodeb before the second pass puts SHUTTING_DOWN back, for good | the second pass of the red button | `ShuttingDownEnds`, `overlap = "any"` |

A subscription that times out returns success on purpose ("sunny side
scenario", `subs_mgmt.hpp:226`); `SuccessIsAnsweredOrTimedOut` says so.

### Known limits of what holds

- The removal or restart of an E2T disconnects each RAN in its list, also one
  that has since been associated to another E2T.
- A record whose address was not saved serves E2_SETUPs and is never monitored.
- `NoReleasedRecordUsed` excuses two things, each for the connection concerned
  only: entries of a connection on which the RAN changed its name, and events of a
  connection that RIC_SCTP_CLEAR_ALL released while they were in the batch, until that
  batch is through. In both a released record is used. An entry that RIC_SCTP_CLEAR_ALL
  left behind, or an event of a later batch, is not excused.
- `ReachableUnlessTakenOver`: when a RAN reconnects and its old connection closes
  later, the entry of the new one is erased, and the RAN is reported lost while
  its new connection is open. The excuse looks at the names sent on the other
  connection (`said`), which are a little more than those read from it.
- Once requests for one RAN overlap, stale and repeated write-backs
  (`DissociateRan`, the gNB update, `retry`) put older nodebs back. The nodeb they write is
  consistent in itself, so `ShutDownIsDissociated` and `ListedRanHasNodeb` hold all
  the same; `ConnectedIsAnchored` and `RedButtonShutsAll` are claimed only without such
  an overlap, `ShuttingDownEnds` without those handlers.
- A crash or an error between the two passes of the red button leaves RANs
  SHUTTING_DOWN until the next press; `RedButtonShutsAll` is about a press that
  reports success, `ShuttingDownEnds` about runs in which nothing fails.
- `TerminationReachesAll`: a request whose sending failed counts as told.
- `forwardIfError` (`exstrings.c:173`) ends with NO_ERRORS also after it has sent an
  error and freed the reply, so its callers would go on with the freed reply. The
  models let SCAN, MGET and UNLINK succeed, which they do on the arguments they get.
- `RefusalHasCause`, `SuccessIsAnsweredOrTimedOut` and `OwnHeader` are stated
  without a race (`raced`, `reused`, `crossed`); with one they fail.

## 4. What is proved

The theorems hold for every value of the constants that satisfies `ConstantsOK`
of the module: any sets of E2Ts, RANs, connections, threads, keys and values, any
bounds. (The sets of E2Ts and goroutines of `E2Manager` are finite, because its
counters count them; the set of RANs need not be.)

| theorem | states |
|---|---|
| `E2TInstances_proofs!TypeCorrect`, `LockProtects`, `RemovedStaysRemoved` | `[]TypeOK`, `[]FreshOrMarked`, `NoResurrection` |
| `E2TInstancesTime_proofs!TimeInvariance`, `NoHeartbeatIsLost` | `[](IInv /\ TimeInv)`, `HeartbeatNotLost` |
| `E2TInstancesRegistry_proofs!TornEntriesAreCounted`, `RegistryIsImplemented` | `[]TornEntriesBounded`; `ImplementsRegistry`, for `Kinds` without `Shutdown` |
| `E2Manager_proofs!TypeCorrect`, `ShutDownHasNoAssociation`, `ListedHasNodeb` | `[]TypeOK`, `[]ShutDownIsDissociated`, `[]ListedRanHasNodeb` |
| `E2ManagerCounts_proofs!UnlistedAreCounted`, `ConnectedAreAnchored`, `RedButtonReachesAll` | `[]UnlistedRansBounded`, `[]ConnectedIsAnchored`, `RedButtonShutsAll` |
| `E2Termination_proofs!TypeInv`, `RouteIsOpenInv`, `ReportedHasRouteInv`, `RouteIsReportedInv`, `ReachableInv`, `NoReleasedRecordUsedInv`, `NothingForgottenInv` | every invariant of `termination_safety` and `termination_live` |
| `XApp_proofs!TypeInv`, `RefusalHasCauseInv`, `SuccessIsAnsweredOrTimedOutInv`, `OwnHeaderInv`, `OneAgentPerGnbInv`, `ReporterIsControlledInv`, `TerminationReachesAllInv` | every invariant of `xapp_threads` |
| `Exstrings_proofs!TypeInv`, `LockIsOwnInv`, `SubscriberIsUpToDateInv`, `NGetIsCompleteInv` | every invariant of `exstrings_commands` |

**`E2TInstances`.** `IInv` adds to the types what a goroutine holds at each `pc`
(`OpInv`), that the goroutine between Lock and Unlock is the mutex holder
(`LockInv`), that nothing runs before boot (`BootInv`), what the worker's slice
holds and counts (`RoundInv`), and that a record it read once and has not handled
yet exists (`MarkTarget`). `LockInv` gives `HolderIsAlone`:
when one goroutine writes under the mutex no other holds a copy that matters, so
`FreshOrMarked` survives its write. Only the worker removes records, so a copy
it saves can bring one back only if it had read the record twice. `TimeInv` needs more: it orders the stored
timestamp, each copy held under the mutex, and the worker's copy; it is proved
on top of `IInv`, and `HeartbeatNotLost` follows from it.

*Torn entries* (`TornInv`). The entry of the goroutine between its two writes is
allowed to be torn, all others (`Uneven`) are counted. `ListingInv` says why the
goroutine's own write mends it: the list it holds is the current one, and an `Add`
has the record already saved, a removal already removed. An error at one of the
two writes leaves at most that one entry behind, and adds one to the count. The
second kind of torn entry that is not counted is the one the worker revives
(`Reviving`): its shutdown ends with the removal, or with an error that pays for it. A
crash leaves one of each, so it pays for two. The set of E2Ts is not assumed finite: `Counted` carries the
finiteness along.

*The refinement* (`AtomicInv`). With no `Shutdown` operation nothing is written
without the mutex, so what an operation has read is what the database holds when
it saves; the test between Get and Save is then a test of the current record, and
the save is the abstract operation. Reads, failures that wrote nothing and
crashes map to stutters; a failed write that took effect maps to the operation
itself, whose reply is lost. The hypothesis is needed: the worker's mark is the one
save that is not an update of the current value, which is what the run
`keepalive_undoes_mark` and the exception in `FreshOrMarked` are about.

**`E2Manager`.** Neither `ShutDownIsDissociated` nor `ListedRanHasNodeb` is
inductive: a write-back of an old nodeb could break the first, a write of an old RAN list the second. `IInv` says of
every copy a goroutine may still write what the properties say of the database:
`nb` is a `CleanNodeb` (a shut-down nodeb has no E2T), and the records in
`copies`, like those in `reg`, list only RANs with a record. The second needs
that a nodeb is never deleted, and that `AddRan` is reached only by a goroutine
whose RAN has one (`Holds`). There is one lemma per action.

*Counting* (`CInv`). Each goroutine's next step changes the nodebs, identities and
list entries of the RANs of its own request only (the lemmas on `Local`). While requests about one RAN
do not overlap (`Apart`), what a goroutine has read or written of its RANs therefore
stays true until its own next step (`Tied`): the E2T it found exists, the
nodeb it will write back is the stored one, a pass of the red button has shut the
RANs it has left behind. `Tied` is what makes the last write of a handler restore
the property. `Charged` collects the RANs that must be paid for by an error or
an interruption: those missing in the list of identities (`Unlisted`, with any
overlap), those connected to an E2T that does not list them (`Adrift`), and
those the worker has passed over in an E2T it is about to remove (`Doomed`); a
RAN that a goroutine is about to repair is in none of them. They are one set
because a step turns one kind into another (the removal of the E2T makes a doomed
RAN one adrift), and a RAN must not be counted twice.
A step that does not fail adds no RAN to `Charged`, one that fails adds at
most the one RAN it is at, and a crash at most one for each goroutine it
interrupts. For the red button alone, `TiedAlone` says that without other requests
the E2Ts stay as they were found, and `Stray` collects the E2Ts it cannot clear: those
not in `E2TAddresses`, and those whose record it failed to save. The action
property then follows from the last step of the last pass: `Tied`
with nothing ahead says that every listed RAN is shut, `Stray` bounds the rest.
TLC checks `CInv` on the instance of `manager_safety` too (not a run of its own).

**`E2Termination`.** The properties relate names, entries and reports that
change together in one step of the listener, so most of `IInv` is the properties
themselves. What has to be added: an entry leads to a connection that was
accepted; a name in a record was sent on that connection, and as long as nobody
has changed a name (`~Renamed`) an entry carries the name it is keyed by; events in a
batch are one per descriptor and an RMR event means a queued request; the read
loop runs on an open connection. That the last two hold of a batch taken earlier,
while `ClearAll` closes connections, is what the lemmas `EventsSame` and those of
the handlers establish.

**`XApp`.** One part of `IInv` for each thing the threads share. `Table`: an
entry under a received buffer is about a gNB that has answered, and the main
thread's entry is never the receiver's status; it needs that a buffer's name
changes only while the receiver is between messages. `Causes`, without a race: the
main thread's entry is there exactly while its request is under way, and every
other entry is about a gNB whose request has begun, which makes the duplicate the
second request of a name. `Buffer`: when no two threads are sending, the header is
that of the one that is. `Ending`: who is still due is the gNB of an agent the
loop has not come to, because a gNB once given to an agent stays.

**`Exstrings`.** Every command is a `Store` with one of three endings
(`Command`), so three lemmas carry the proof: what a change keeps, that a lock's
value is its owner's token (`LockHoldsToken`), and that what NGET has gone through
and has not changed is in its reply (`ScannedIsFound`).

**Model-checked only.** Every invariant, every action property and the refinement
of the passing runs is a theorem; what is left to TLC is liveness, which needs
ENABLED and fairness: `EveryCallReturns`, `EveryRequestEnds`, `ShuttingDownEnds`,
`InputIsRead`, `HangUpIsNoticed`, `ConnectionAccepted`, `StartupEnds`. The
violation runs refute what they check and have nothing to prove.

## 5. Not modelled

- HTTP queries, X2/ENDC handlers (withdrawn in the release notes), converters,
  models, configuration: no protocol state.
- The routes inside the Routing Manager; the cells, load and second key of a
  nodeb; the retry loop's timing.
- E2 Termination: the trace file and its rotation, the configuration watch, the
  statistics, the content of messages.
- xApp: A1 policies, health check, the decoding of reports into metric strings,
  `trans_table` (written, never read), functions without a caller.
- Redis extension: replies, argument checks, running out of memory.
- Simulators, charts, the Python scripts, and the E2AP and E2SM codecs. The
  repository holds several copies of asn1c's generated code and its support
  library (`asn1c_defs`, `asn1codec`, `oranE2`, `oranE2SM`), a second copy of the
  xApp connector (`xapp-sm-connector_origin`), and tests: nearly all of its C and
  C++ lines. The codecs encode and decode without state, the models see a message
  as its kind and its name, and no property here depends on its layout. That is
  why the definitions map some 3200 lines, in the Go, C++ and C programs written for
  this system, and only a small share of the repository.

## 6. Plan

1. Done: `E2TRegistry`, `E2TInstances`, `E2Manager`, `E2Termination`, `XApp`,
   `Exstrings`, their runs, and the proofs of section 4.
2. The safety half of the liveness properties, as theorems: from every state in
   progress a measure (calls left in the operation, RANs left in `todo`) falls with
   each step that is not an error, so that TLC's liveness runs rest on a bound that
   holds for lists of any length.
3. That `E2Manager`'s updates of `reg` and `dir` are `E2TRegistry`'s, as a second
   refinement, so that `RegistryIsImplemented` and the composition meet in one
   statement.
4. The composition of `E2Termination` with the association of `E2Manager`, where
   two reports of one RAN are handled by goroutines in either order.
