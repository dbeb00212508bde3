------------------------------ MODULE Exstrings ------------------------------
(***************************************************************************)
(* The commands the Redis module adds (dbaas/redismodule/src/exstrings.c): *)
(* conditional SET and DEL, SET and DEL with a publication, NGET and NDEL. *)
(* Redis runs a command at a time; NGET.NOATOMIC runs in a thread that     *)
(* takes the lock for one SCAN and MGET after the other.                   *)
(*                                                                         *)
(* Values are compared with strncmp: of two values of the same length only *)
(* what is in front of the first zero byte counts, and Text is what counts *)
(* of a value.                                                             *)
(*                                                                         *)
(* The rest is the module's users: clients that hold a lock under their    *)
(* own Token until they delete it or it expires, anybody who writes the    *)
(* other keys, and a subscriber that reads the keys again at each message. *)
(***************************************************************************)
EXTENDS Naturals

CONSTANTS
  Key, Locks, Value, Client,
  NoValue, Hash, NoClient, \* no key, a key of another type, nobody's lock
  Text,   \* per value: what strncmp sees of it
  Token,  \* per client: its value
  Written, MaxChanges \* bounds: the values of the other keys, the changes

ASSUME ConstantsOK ==
  /\ Locks \subseteq Key /\ NoValue \notin Value /\ Hash \notin Value /\ NoValue # Hash
  /\ NoClient \notin Client /\ DOMAIN Text = Value
  /\ Token \in [Client -> Value] /\ Written \subseteq Value /\ MaxChanges \in Nat
  /\ \A c, d \in Client : Token[c] = Token[d] => c = d

VARIABLES
  db,       \* what is stored under each key
  news,     \* a message is on its way to the subscriber
  view,     \* what the subscriber read at the last one
  unscanned, \* NGET.NOATOMIC: what SCAN has not gone through yet
  reply,    \* and what it has collected; "none" when it does not run
  \* history
  silent,   \* keys changed without a message since the subscriber read
  owner, wronged, \* whose lock a key is; who deleted or changed whose lock
  steady,   \* keys that have not changed since NGET began
  changes

nget == <<unscanned, reply>>
locks == <<owner, wronged>>
vars == <<db, news, view, nget, silent, locks, steady, changes>>

Stored == Value \cup {NoValue, Hash}

TypeOK ==
  /\ db \in [Key -> Stored] /\ view \in [Key -> Stored] /\ news \in BOOLEAN
  /\ unscanned \subseteq Key /\ reply \subseteq Key \X Value
  /\ silent \subseteq Key /\ owner \in [Locks -> Client \cup {NoClient}]
  /\ wronged \subseteq Client \X Client
  /\ steady \subseteq Key /\ changes \in 0..MaxChanges

Init ==
  /\ db = [k \in Key |-> NoValue] /\ view = db /\ news = FALSE
  /\ unscanned = {} /\ reply = {} /\ steady = {} /\ changes = 0
  /\ silent = {} /\ owner = [k \in Locks |-> NoClient] /\ wronged = {}
-----------------------------------------------------------------------------
(* What the commands do to the database                                    *)

\* the database changes under ks
Store(ks, d) ==
  /\ db' = [k \in Key |-> IF k \in ks THEN d[k] ELSE db[k]]
  /\ steady' = steady \ {k \in ks : db'[k] # db[k]}
  /\ changes < MaxChanges /\ changes' = changes + 1
  /\ UNCHANGED <<view, nget>>

All(v) == [k \in Key |-> v]

Quietly(ks) == silent' = silent \cup ks /\ UNCHANGED news
MultiPub == news' = TRUE /\ UNCHANGED silent

EqualAlways(k, old) == db[k] \in Value /\ old \in Value \* mutant
Equal(k, old) == db[k] \in Value /\ Text[db[k]] = Text[old]

\* SETNE and SETNEPUB also set a key that is not there, DELNE only deletes
SetIE(k, v, old) == Equal(k, old) /\ Store({k}, All(v))
SetNE(k, v, old) == db[k] # Hash /\ ~Equal(k, old) /\ Store({k}, All(v))
DelIE(k, old) == Equal(k, old) /\ Store({k}, All(NoValue))
DelNE(k, old) == db[k] \in Value /\ ~Equal(k, old) /\ Store({k}, All(NoValue))

\* MSET, then PUBLISH
SetPub(ks, d) == Store(ks, d) /\ MultiPub
SetIEPub(k, v, old) == Equal(k, old) /\ SetPub({k}, All(v))
SetNEPub(k, v, old) == db[k] # Hash /\ ~Equal(k, old) /\ SetPub({k}, All(v))
SetXXPub(k, v) == db[k] \in Value /\ SetPub({k}, All(v))
SetNXPubAnyway(k, v) == db[k] # Hash /\ SetPub({k}, All(v)) \* mutant
SetNXPub(k, v) == db[k] = NoValue /\ SetPub({k}, All(v))

\* UNLINK, then PUBLISH if it has removed something
DelPubIfAll(ks) == \* mutant: if it has removed everything
  /\ Store(ks, All(NoValue))
  /\ IF \A k \in ks : db[k] # NoValue THEN MultiPub ELSE UNCHANGED <<news, silent>>
DelPub(ks) ==
  /\ Store(ks, All(NoValue))
  /\ IF \E k \in ks : db[k] # NoValue THEN MultiPub ELSE UNCHANGED <<news, silent>>
DelIEPub(k, old) == Equal(k, old) /\ DelPub({k})
DelNEPub(k, old) == db[k] \in Value /\ ~Equal(k, old) /\ DelPub({k})

\* every key that matches, without a message
NDelAtomic(ks) == Store(ks, All(NoValue)) /\ Quietly(ks)
-----------------------------------------------------------------------------
(* NGET.NOATOMIC                                                           *)

NGetBegins ==
  /\ unscanned = {} /\ unscanned' = Key /\ reply' = {} /\ steady' = Key
  /\ UNCHANGED <<db, news, view, silent, locks, changes>>

\* what MGET finds of the keys of a round; it has nothing of another type
FoundOfAnyType(ks) == {<<k, db[k]>> : k \in ks} \* mutant
Found(ks) == {p \in ks \X Value : db[p[1]] = p[2]}

\* SCAN goes through a part of the table and may return some keys again
RoundEndsAtNothing(part, again) == \* mutant: the loop ends at a round without keys
  /\ part # {} /\ reply' = reply \cup Found(part \cup again)
  /\ unscanned' = IF \A k \in part \cup again : db[k] = NoValue THEN {} ELSE unscanned \ part
  /\ UNCHANGED <<db, news, view, silent, locks, steady, changes>>
NGetRound(part, again) ==
  /\ part # {} /\ reply' = reply \cup Found(part \cup again)
  /\ unscanned' = unscanned \ part
  /\ UNCHANGED <<db, news, view, silent, locks, steady, changes>>

\* NGET.ATOMIC: all rounds at once; it answers with the pairs of this moment
-----------------------------------------------------------------------------
(* Clients and the subscriber                                              *)

Touches(c, k, o) ==
  /\ owner' = [owner EXCEPT ![k] = o]
  /\ wronged' = wronged \cup {<<c, d>> : d \in {owner[k]} \ {c, NoClient}}

Lock(c, k) == SetNXPub(k, Token[c]) /\ Touches(c, k, c)
Extend(c, k) ==
  /\ \/ SetIE(k, Token[c], Token[c]) /\ Quietly({k})
     \/ SetIEPub(k, Token[c], Token[c])
  /\ Touches(c, k, c)
Unlock(c, k) ==
  /\ \/ DelIE(k, Token[c]) /\ Quietly({k})
     \/ DelIEPub(k, Token[c])
  /\ Touches(c, k, NoClient)
Expire(k) ==
  /\ db[k] # NoValue /\ Store({k}, All(NoValue)) /\ Quietly({k})
  /\ owner' = [l \in Locks |-> IF l = k THEN NoClient ELSE owner[l]] /\ UNCHANGED wronged

Data == Key \ Locks
Writes ==
  /\ \/ \E k \in Data, v, old \in Written :
          \/ (SetIE(k, v, old) \/ SetNE(k, v, old)) /\ Quietly({k})
          \/ (DelIE(k, old) \/ DelNE(k, old)) /\ Quietly({k})
          \/ SetIEPub(k, v, old) \/ SetNEPub(k, v, old)
          \/ DelIEPub(k, old) \/ DelNEPub(k, old)
          \/ SetXXPub(k, v) \/ SetNXPub(k, v)
     \/ \E ks \in SUBSET Data \ {{}} : \/ \E v \in Written : SetPub(ks, All(v))
                                       \/ DelPub(ks) \/ NDelAtomic(ks)
     \/ \E k \in Data : Store({k}, All(Hash)) /\ Quietly({k}) \* HSET
  /\ UNCHANGED locks

Reads ==
  /\ news /\ news' = FALSE /\ view' = db /\ silent' = {}
  /\ UNCHANGED <<db, nget, locks, steady, changes>>

Next ==
  \/ \E c \in Client, k \in Locks : Lock(c, k) \/ Extend(c, k) \/ Unlock(c, k)
  \/ \E k \in Key : Expire(k)
  \/ Writes \/ Reads \/ NGetBegins
  \/ \E part \in SUBSET unscanned, again \in SUBSET Key : NGetRound(part, again)
Spec == Init /\ [][Next]_vars
-----------------------------------------------------------------------------
(* Properties                                                              *)

\* a client takes, extends or deletes the lock of another client, who took it
\* after the own one had expired, only if the two tokens are the same up to the
\* first zero byte: that is all SETIE, SETIEPUB, DELIE and DELIEPUB compare
LockIsOwn ==
  \A c, d \in Client : <<c, d>> \in wronged => Text[Token[c]] = Text[Token[d]]

\* a subscriber that reads at each message knows every key that was not changed
\* by a command without a message: PUBLISH follows whenever MSET or UNLINK has
\* changed something, also when only some of the keys were there
SubscriberIsUpToDate == ~news => \A k \in Key \ silent : view[k] = db[k]

\* when NGET.NOATOMIC has ended, it has returned every pair that was there all
\* along, whatever the commands between its rounds did to the other keys
NGetIsComplete ==
  unscanned = {} => \A k \in steady : db[k] \in Value => <<k, db[k]>> \in reply
=============================================================================
