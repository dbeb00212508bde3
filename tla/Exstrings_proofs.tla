-------------------------- MODULE Exstrings_proofs --------------------------
(***************************************************************************)
(* Proofs about Exstrings, for any keys, values and clients: every command *)
(* is a Store, with or without a publication, and each invariant looks at  *)
(* what a Store may change.                                                *)
(***************************************************************************)
EXTENDS Exstrings, TLAPS

\* a lock that somebody has holds that client's token
LockHoldsToken == \A k \in Locks : owner[k] # NoClient => db[k] = Token[owner[k]]

\* what NGET has gone through, and has not changed, is in its reply
ScannedIsFound ==
  \A k \in steady \ unscanned : db[k] \in Value => <<k, db[k]>> \in reply

IInv == TypeOK /\ LockHoldsToken /\ LockIsOwn /\ SubscriberIsUpToDate /\ ScannedIsFound

LEMMA InitInv == Init => IInv
<1> SUFFICES ASSUME Init PROVE IInv
  OBVIOUS
<1>1. 0 \in 0..MaxChanges  BY ConstantsOK
<1>2. TypeOK  BY <1>1, ConstantsOK DEF Init, TypeOK, Stored
<1>3. LockHoldsToken /\ LockIsOwn  BY DEF Init, LockHoldsToken, LockIsOwn
<1>4. SubscriberIsUpToDate /\ ScannedIsFound
  BY DEF Init, SubscriberIsUpToDate, ScannedIsFound
<1> QED  BY <1>2, <1>3, <1>4 DEF IInv

\* the part of the invariant that a change of the database concerns
Kept ==
  /\ db \in [Key -> Stored] /\ view \in [Key -> Stored]
  /\ unscanned \subseteq Key /\ reply \subseteq Key \X Value
  /\ steady \subseteq Key /\ changes \in 0..MaxChanges
  /\ ScannedIsFound

LEMMA StoreKeeps ==
  ASSUME IInv, NEW ks \in SUBSET Key, NEW d \in [Key -> Stored], Store(ks, d)
  PROVE  Kept' /\ \A k \in Key : db'[k] = IF k \in ks THEN d[k] ELSE db[k]
<1> USE DEF Store
<1>1. db' \in [Key -> Stored] /\ \A k \in Key : db'[k] = IF k \in ks THEN d[k] ELSE db[k]
  BY DEF IInv, TypeOK
<1>2. changes' \in 0..MaxChanges  BY ConstantsOK DEF IInv, TypeOK
<1>3. steady' \subseteq steady /\ \A k \in steady' : db'[k] = db[k]
  BY <1>1 DEF IInv, TypeOK
<1>4. ScannedIsFound'
  BY <1>3 DEF IInv, TypeOK, ScannedIsFound, nget
<1> QED  BY <1>1, <1>2, <1>3, <1>4 DEF Kept, IInv, TypeOK, nget

\* a command that changes keys either publishes or leaves them on record as
\* changed in silence, or changes nothing
LEMMA CommandKeeps ==
  ASSUME IInv, NEW ks \in SUBSET Key, NEW d \in [Key -> Stored], Store(ks, d),
         \/ MultiPub \/ Quietly(ks)
         \/ UNCHANGED <<news, silent>> /\ \A k \in ks : db[k] = d[k]
  PROVE  /\ Kept' /\ SubscriberIsUpToDate' /\ news' \in BOOLEAN /\ silent' \subseteq Key
         /\ \A k \in Key : db'[k] = IF k \in ks THEN d[k] ELSE db[k]
<1>1. Kept' /\ \A k \in Key : db'[k] = IF k \in ks THEN d[k] ELSE db[k]
  BY StoreKeeps
<1>2. view' = view  BY DEF Store
<1>3. CASE MultiPub
  BY <1>1, <1>3 DEF MultiPub, IInv, TypeOK, SubscriberIsUpToDate
<1>4. CASE Quietly(ks)
  BY <1>1, <1>2, <1>4 DEF Quietly, IInv, TypeOK, SubscriberIsUpToDate
<1>5. CASE UNCHANGED <<news, silent>> /\ \A k \in ks : db[k] = d[k]
  BY <1>1, <1>2, <1>5 DEF IInv, TypeOK, SubscriberIsUpToDate
<1> QED  BY <1>1, <1>3, <1>4, <1>5

LEMMA AllStored == \A v \in Stored : All(v) \in [Key -> Stored]
BY DEF All

\* each command in turn is one Store with one of the three endings
Command(ks, d) ==
  /\ Store(ks, d)
  /\ \/ MultiPub \/ Quietly(ks)
     \/ UNCHANGED <<news, silent>> /\ \A k \in ks : db[k] = d[k]

LEMMA DelPubIsCommand ==
  ASSUME NEW ks \in SUBSET Key, DelPub(ks)  PROVE Command(ks, All(NoValue))
BY DEF DelPub, Command, All

\* a change of keys that are no locks
LEMMA DataKeeps ==
  ASSUME IInv, NEW ks \in SUBSET Data, NEW d \in [Key -> Stored], Command(ks, d), UNCHANGED locks
  PROVE  IInv'
<1>1. /\ Kept' /\ SubscriberIsUpToDate' /\ news' \in BOOLEAN /\ silent' \subseteq Key
      /\ \A k \in Key : db'[k] = IF k \in ks THEN d[k] ELSE db[k]
  BY CommandKeeps DEF Command, Data
<1>2. owner' = owner /\ wronged' = wronged  BY DEF locks
<1>3. \A k \in Locks : k \notin ks /\ k \in Key  BY ConstantsOK DEF Data
<1>4. LockHoldsToken' /\ LockIsOwn'
  BY <1>1, <1>2, <1>3 DEF IInv, LockHoldsToken, LockIsOwn
<1> QED  BY <1>1, <1>2, <1>4 DEF IInv, Kept, TypeOK

LEMMA WritesInv == ASSUME IInv, Writes PROVE IInv'
<1> USE DEF Writes
<1>1. UNCHANGED locks  OBVIOUS
<1>2. NoValue \in Stored /\ Hash \in Stored /\ Written \subseteq Stored
  BY ConstantsOK DEF Stored
<1>3. \E ks \in SUBSET Data, v \in Stored : Command(ks, All(v))
  <2>1. ASSUME NEW k \in Data, NEW v \in Written, NEW old \in Written,
               \/ (SetIE(k, v, old) \/ SetNE(k, v, old)) /\ Quietly({k})
               \/ SetIEPub(k, v, old) \/ SetNEPub(k, v, old) \/ SetXXPub(k, v) \/ SetNXPub(k, v)
        PROVE  Command({k}, All(v))
    BY <2>1 DEF SetIE, SetNE, SetIEPub, SetNEPub, SetXXPub, SetNXPub, SetPub, Command
  <2>2. ASSUME NEW k \in Data, NEW old \in Written,
               \/ (DelIE(k, old) \/ DelNE(k, old)) /\ Quietly({k})
               \/ DelIEPub(k, old) \/ DelNEPub(k, old)
        PROVE  Command({k}, All(NoValue))
    <3>1. CASE (DelIE(k, old) \/ DelNE(k, old)) /\ Quietly({k})
      BY <3>1 DEF DelIE, DelNE, Command
    <3>2. CASE DelIEPub(k, old) \/ DelNEPub(k, old)
      BY <3>2, DelPubIsCommand DEF DelIEPub, DelNEPub, Data
    <3> QED  BY <2>2, <3>1, <3>2
  <2>3. ASSUME NEW ks \in SUBSET Data, NEW v \in Written, SetPub(ks, All(v))
        PROVE  Command(ks, All(v))
    BY <2>3 DEF SetPub, Command
  <2>4. ASSUME NEW ks \in SUBSET Data, DelPub(ks) \/ NDelAtomic(ks)
        PROVE  Command(ks, All(NoValue))
    <3>1. CASE DelPub(ks)  BY <3>1, DelPubIsCommand DEF Data
    <3>2. CASE NDelAtomic(ks)  BY <3>2 DEF NDelAtomic, Command
    <3> QED  BY <2>4, <3>1, <3>2
  <2>5. ASSUME NEW k \in Data, Store({k}, All(Hash)) /\ Quietly({k})
        PROVE  Command({k}, All(Hash))
    BY <2>5 DEF Command
  <2>6. CASE \E k \in Data, v \in Written, old \in Written :
               \/ (SetIE(k, v, old) \/ SetNE(k, v, old)) /\ Quietly({k})
               \/ SetIEPub(k, v, old) \/ SetNEPub(k, v, old) \/ SetXXPub(k, v) \/ SetNXPub(k, v)
    BY <1>2, <2>1, <2>6
  <2>7. CASE \E k \in Data, old \in Written :
               \/ (DelIE(k, old) \/ DelNE(k, old)) /\ Quietly({k})
               \/ DelIEPub(k, old) \/ DelNEPub(k, old)
    BY <1>2, <2>2, <2>7
  <2>8. CASE \E ks \in SUBSET Data \ {{}} : \/ \E v \in Written : SetPub(ks, All(v))
                                            \/ DelPub(ks) \/ NDelAtomic(ks)
    BY <1>2, <2>3, <2>4, <2>8
  <2>9. CASE \E k \in Data : Store({k}, All(Hash)) /\ Quietly({k})
    BY <1>2, <2>5, <2>9
  <2> QED  BY <2>6, <2>7, <2>8, <2>9
<1> QED  BY <1>1, <1>3, DataKeeps, AllStored
-----------------------------------------------------------------------------
(* The locks                                                               *)

\* a client changes a lock: it is nobody's, or its value passes for the own token
LEMMA LockKeeps ==
  ASSUME IInv, NEW c \in Client, NEW k \in Locks, NEW o \in {c, NoClient}, NEW v \in Stored,
         Command({k}, All(v)), Touches(c, k, o),
         o = c => v = Token[c], db[k] = NoValue \/ Equal(k, Token[c])
  PROVE  IInv'
<1> USE DEF Touches
<1>0. k \in Key /\ {k} \in SUBSET Key /\ All(v) \in [Key -> Stored]
  BY ConstantsOK, AllStored
<1>1. /\ Kept' /\ SubscriberIsUpToDate' /\ news' \in BOOLEAN /\ silent' \subseteq Key
      /\ \A l \in Key : db'[l] = IF l \in {k} THEN All(v)[l] ELSE db[l]
  BY <1>0, CommandKeeps DEF Command
<1>2. db'[k] = v /\ \A l \in Locks \ {k} : db'[l] = db[l]
  BY <1>0, <1>1, ConstantsOK DEF All
<1>3. owner \in [Locks -> Client \cup {NoClient}] /\ wronged \subseteq Client \X Client
  BY DEF IInv, TypeOK
<1>4. owner' \in [Locks -> Client \cup {NoClient}] /\ wronged' \subseteq Client \X Client
  BY <1>3
<1>5. LockHoldsToken'
  BY <1>2, <1>3 DEF IInv, LockHoldsToken
<1>6. ASSUME NEW d \in Client, d = owner[k]  PROVE Text[Token[c]] = Text[Token[d]]
  <2>1. db[k] = Token[d] /\ Token[d] \in Value
    BY <1>6, ConstantsOK DEF IInv, LockHoldsToken
  <2> QED  BY <2>1, ConstantsOK DEF Equal
<1>7. LockIsOwn'  BY <1>6 DEF IInv, LockIsOwn
<1> QED  BY <1>1, <1>4, <1>5, <1>7 DEF IInv, Kept, TypeOK

LEMMA TokenIsStored == \A c \in Client : Token[c] \in Stored
BY ConstantsOK DEF Stored

LEMMA LockInv == ASSUME IInv, NEW c \in Client, NEW k \in Locks, Lock(c, k) PROVE IInv'
<1>1. Command({k}, All(Token[c])) /\ Touches(c, k, c) /\ db[k] = NoValue
  BY DEF Lock, SetNXPub, SetPub, Command
<1> QED  BY <1>1, LockKeeps, TokenIsStored

LEMMA ExtendInv == ASSUME IInv, NEW c \in Client, NEW k \in Locks, Extend(c, k) PROVE IInv'
<1>1. Command({k}, All(Token[c])) /\ Touches(c, k, c) /\ Equal(k, Token[c])
  BY DEF Extend, SetIE, SetIEPub, SetPub, Command
<1> QED  BY <1>1, LockKeeps, TokenIsStored

LEMMA UnlockInv == ASSUME IInv, NEW c \in Client, NEW k \in Locks, Unlock(c, k) PROVE IInv'
<1>0. {k} \in SUBSET Key /\ NoValue \in Stored /\ c # NoClient  BY ConstantsOK DEF Stored
<1>1. Touches(c, k, NoClient) /\ Equal(k, Token[c])
  BY DEF Unlock, DelIE, DelIEPub
<1>2. Command({k}, All(NoValue))
  BY <1>0, DelPubIsCommand DEF Unlock, DelIE, DelIEPub, Command
<1> QED  BY <1>0, <1>1, <1>2, LockKeeps

LEMMA ExpireInv == ASSUME IInv, NEW k \in Key, Expire(k) PROVE IInv'
<1> USE DEF Expire
<1>0. All(NoValue) \in [Key -> Stored]  BY AllStored DEF Stored
<1>1. /\ Kept' /\ SubscriberIsUpToDate' /\ news' \in BOOLEAN /\ silent' \subseteq Key
      /\ \A l \in Key : db'[l] = IF l \in {k} THEN All(NoValue)[l] ELSE db[l]
  BY <1>0, CommandKeeps
<1>2. owner' \in [Locks -> Client \cup {NoClient}]  BY DEF IInv, TypeOK
<1>3. LockHoldsToken' /\ LockIsOwn'
  BY <1>1, ConstantsOK DEF IInv, LockHoldsToken, LockIsOwn
<1> QED  BY <1>1, <1>2, <1>3 DEF IInv, Kept, TypeOK
-----------------------------------------------------------------------------
(* The subscriber and NGET.NOATOMIC                                        *)

LEMMA ReadsInv == ASSUME IInv, Reads PROVE IInv'
BY DEF IInv, Reads, TypeOK, LockHoldsToken, LockIsOwn, SubscriberIsUpToDate, ScannedIsFound,
       nget, locks

LEMMA NGetBeginsInv == ASSUME IInv, NGetBegins PROVE IInv'
BY DEF IInv, NGetBegins, TypeOK, LockHoldsToken, LockIsOwn, SubscriberIsUpToDate, ScannedIsFound,
       locks

LEMMA NGetRoundInv ==
  ASSUME IInv, NEW part \in SUBSET unscanned, NEW again \in SUBSET Key, NGetRound(part, again)
  PROVE  IInv'
<1> USE DEF NGetRound
<1>1. Found(part \cup again) \subseteq Key \X Value  BY DEF IInv, TypeOK, Found
<1>2. TypeOK'  BY <1>1 DEF IInv, TypeOK, locks
<1>3. ScannedIsFound'
  <2> SUFFICES ASSUME NEW k \in steady \ (unscanned \ part), db[k] \in Value
               PROVE  <<k, db[k]>> \in reply'
    BY DEF ScannedIsFound
  <2>1. CASE k \in part
    <3>1. <<k, db[k]>> \in Found(part \cup again)  BY <2>1 DEF Found
    <3> QED  BY <3>1
  <2>2. CASE k \notin part  BY <2>2 DEF IInv, ScannedIsFound
  <2> QED  BY <2>1, <2>2
<1>4. LockHoldsToken' /\ LockIsOwn' /\ SubscriberIsUpToDate'
  BY DEF IInv, LockHoldsToken, LockIsOwn, SubscriberIsUpToDate, locks
<1> QED  BY <1>2, <1>3, <1>4 DEF IInv

LEMMA StepInv == IInv /\ [Next]_vars => IInv'
<1> SUFFICES ASSUME IInv, [Next]_vars PROVE IInv'
  OBVIOUS
<1>1. CASE UNCHANGED vars
  BY <1>1 DEF IInv, vars, TypeOK, LockHoldsToken, LockIsOwn, SubscriberIsUpToDate,
              ScannedIsFound, nget, locks
<1>2. CASE Next
  BY <1>2, LockInv, ExtendInv, UnlockInv, ExpireInv, WritesInv, ReadsInv, NGetBeginsInv,
     NGetRoundInv DEF Next
<1> QED  BY <1>1, <1>2

LEMMA Inductive == Spec => []IInv
BY InitInv, StepInv, PTL DEF Spec

\* every variable keeps its type: NGET.NOATOMIC returns strings only
THEOREM TypeInv == Spec => []TypeOK
<1>1. IInv => TypeOK  BY DEF IInv
<1> QED  BY <1>1, Inductive, PTL

\* a conditional command changes the lock of another client only if the two
\* tokens are the same up to their first zero byte
THEOREM LockIsOwnInv == Spec => []LockIsOwn
<1>1. IInv => LockIsOwn  BY DEF IInv
<1> QED  BY <1>1, Inductive, PTL

\* who reads at each message knows every key no silent command has changed
THEOREM SubscriberIsUpToDateInv == Spec => []SubscriberIsUpToDate
<1>1. IInv => SubscriberIsUpToDate  BY DEF IInv
<1> QED  BY <1>1, Inductive, PTL

\* NGET.NOATOMIC has returned every pair that was there all along
THEOREM NGetIsCompleteInv == Spec => []NGetIsComplete
<1>1. IInv => NGetIsComplete
  <2> SUFFICES ASSUME IInv, unscanned = {}, NEW k \in steady, db[k] \in Value
               PROVE  <<k, db[k]>> \in reply
    BY DEF NGetIsComplete
  <2>1. k \in steady \ unscanned  OBVIOUS
  <2> QED  BY <2>1 DEF IInv, ScannedIsFound
<1> QED  BY <1>1, Inductive, PTL
=============================================================================
