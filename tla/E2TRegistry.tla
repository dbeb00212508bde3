----------------------------- MODULE E2TRegistry -----------------------------
(***************************************************************************)
(* What E2TInstancesManager promises its callers: a registry in which      *)
(* every operation takes effect at one instant, on the value the record    *)
(* has at that instant.  Registering and unregistering an E2T are two      *)
(* effects each (the record, then the address list), because the R-NIB     *)
(* keeps them under two keys and the manager writes them one by one.       *)
(***************************************************************************)
EXTENDS Naturals

CONSTANTS E2T, Ran, NoInst, NoAddrs

VARIABLES reg, dir, now

rvars == <<reg, dir, now>>

Exists(a) == reg[a] # NoInst
NoneListed == [a \in E2T |-> 0]
Directory == IF dir = NoAddrs THEN NoneListed ELSE dir

RegInit == reg = [a \in E2T |-> NoInst] /\ dir = NoAddrs /\ now = 0

Register(a) ==
  /\ reg' = [reg EXCEPT ![a] = [rans |-> [r \in Ran |-> 0], state |-> "Active",
                                ts |-> now, dts |-> 0]]
  /\ UNCHANGED <<dir, now>>

Unregister(a) == reg' = [reg EXCEPT ![a] = NoInst] /\ UNCHANGED <<dir, now>>

List(a) ==
  /\ dir' = [Directory EXCEPT ![a] = @ + 1]
  /\ UNCHANGED <<reg, now>>

Unlist(a) ==
  /\ dir' = [Directory EXCEPT ![a] = 0]
  /\ UNCHANGED <<reg, now>>

AddRan(a, r) ==
  /\ Exists(a)
  /\ reg' = [reg EXCEPT ![a].rans[r] = @ + 1]
  /\ UNCHANGED <<dir, now>>

RemoveRan(a, r) ==
  /\ Exists(a)
  /\ reg' = [reg EXCEPT ![a].rans[r] = 0]
  /\ UNCHANGED <<dir, now>>

\* the RANs of one record are dropped, or of all of them one record at a time
ClearRans(a) ==
  /\ Exists(a)
  /\ reg' = [reg EXCEPT ![a].rans = [r \in Ran |-> 0]]
  /\ UNCHANGED <<dir, now>>

\* a keep-alive response moves the timestamp of a record to the present, and
\* never one that is marked for deletion
KeepAlive(a) ==
  /\ Exists(a) /\ reg[a].state # "ToBeDeleted"
  /\ reg' = [reg EXCEPT ![a].ts = now]
  /\ UNCHANGED <<dir, now>>

SetState(a, from, to) ==
  /\ Exists(a) /\ reg[a].state = from
  /\ reg' = [reg EXCEPT ![a].state = to,
                        ![a].ts = IF to = "Active" THEN now ELSE @]
  /\ UNCHANGED <<dir, now>>

\* the reset at boot reaches some or all of the active records
BootReset ==
  \E S \in SUBSET {a \in E2T : Exists(a) /\ reg[a].state = "Active"} :
    /\ reg' = [a \in E2T |-> IF a \in S THEN [reg[a] EXCEPT !.ts = now] ELSE reg[a]]
    /\ UNCHANGED <<dir, now>>

Advance == now' = now + 1 /\ UNCHANGED <<reg, dir>>

RegNext ==
  \/ \E a \in E2T :
       \/ Register(a) \/ Unregister(a) \/ List(a) \/ Unlist(a)
       \/ ClearRans(a) \/ KeepAlive(a)
       \/ \E r \in Ran : AddRan(a, r) \/ RemoveRan(a, r)
       \/ \E from, to \in {"Active", "ToBeDeleted"} : SetState(a, from, to)
  \/ BootReset \/ Advance

RegSpec == RegInit /\ [][RegNext]_rvars
=============================================================================
