------------------------- MODULE ChatSessionProofs -------------------------
(***************************************************************************)
(* Theorems about ChatSession, for every set of connections, upload        *)
(* handlers and devices and for every value of the bounds.                 *)
(***************************************************************************)
EXTENDS ChatSession, SequenceTheorems, FiniteSetTheorems, WellFoundedInduction, TLAPS

USE DEF Thread

-----------------------------------------------------------------------------
(* Type correctness *)

(* Every sequence number in the state is one of the log's: a handler sends  *)
(* and fans out stored events only, and events are about messages that are  *)
(* already stored.  The type invariant needs it because the events a Send   *)
(* is given are looked up in the store.                                     *)
WellPlaced ==
    /\ \A k \in Conn : hist[k].todo \subseteq 1..Len(store)
    /\ \A k \in Conn : pushed[k] \subseteq 1..Len(store)
    /\ \A t \in Thread : cur[t] <= Len(store)
    /\ \A t \in Thread : pc[t] \in {"lock", "fan"} => cur[t] > 0
    /\ \A t \in Thread : draft[t].msg <= Len(store)
    /\ \A n \in 1..Len(store) : store[n].msg <= Len(store)

Typed == TypeOK /\ WellPlaced

(* The constructors of events and pages build events and pages. *)
LEMMA EventTypes ==
    /\ \A kind \in Kind, m \in Nat, t \in Thread :
          /\ MessageEvent(kind, m, PeerOf[t]) \in Event
          /\ MessageEvent(kind, m, PeerOf[t]).msg = m
    /\ \A C \in SUBSET Conn : PresenceEvent(C) \in Event /\ PresenceEvent(C).msg = 0
    /\ NoDraft \in Event /\ NoDraft.msg = 0
    /\ NoPage \in Page /\ NoPage.todo = {}
BY PeerAssumption DEF MessageEvent, PresenceEvent, NoDraft, NoPage, Event, Page, Kind

LEMMA InitTyped == Init => Typed
<1> SUFFICES ASSUME Init PROVE Typed
  OBVIOUS
<1>1. TypeOK
  BY EventTypes, BoundAssumption, EmptySeq DEF Init, TypeOK, PC
<1>2. WellPlaced
  BY EventTypes, EmptySeq DEF Init, WellPlaced
<1> QED BY <1>1, <1>2 DEF Typed

LEMMA StoredEvents ==
    ASSUME TypeOK
    PROVE  \A n \in 1..Len(store) : store[n] \in Event /\ store[n].msg \in Nat
<1> SUFFICES ASSUME NEW n \in 1..Len(store)
             PROVE  store[n] \in Event /\ store[n].msg \in Nat
  OBVIOUS
<1>1. store[n] \in Event
  BY ElementOfSeq DEF TypeOK
<1> QED BY <1>1 DEF Event

LEMMA SendTyped ==
    ASSUME Typed, NEW c \in Conn, NEW ns \in SUBSET (1..Len(store)), Send(c, ns)
    PROVE  /\ link' \in [Conn -> {"none", "up", "full", "lost", "closed", "replaced"}]
           /\ pushed' \in [Conn -> SUBSET Nat] /\ seen' \in [Conn -> SUBSET Nat]
           /\ \A k \in Conn : pushed'[k] \subseteq 1..Len(store)
<1> DEFINE msgs == {store[n].msg : n \in {i \in ns : IsMessage(i)}}
<1>1. msgs \subseteq Nat
  BY StoredEvents DEF Typed
<1>2. link' \in [Conn -> {"none", "up", "full", "lost", "closed", "replaced"}]
  <2>1. CASE link' = link
    BY <2>1 DEF Typed, TypeOK
  <2>2. CASE link' = Shut({c}, "closed")
    BY <2>2 DEF Typed, TypeOK, Shut
  <2> QED BY <2>1, <2>2 DEF Send, sendVars
<1>3. pushed' \in [Conn -> SUBSET Nat] /\ \A k \in Conn : pushed'[k] \subseteq 1..Len(store)
  <2>1. CASE pushed' = [pushed EXCEPT ![c] = @ \cup ns]
    <3>1. 1..Len(store) \subseteq Nat
      BY LenProperties DEF Typed, TypeOK
    <3>2. \A k \in Conn : pushed'[k] \subseteq 1..Len(store)
      BY <2>1 DEF Typed, TypeOK, WellPlaced
    <3>3. pushed' \in [Conn -> SUBSET (1..Len(store))]
      BY <2>1, <3>2 DEF Typed, TypeOK
    <3> QED BY <3>1, <3>2, <3>3
  <2>2. CASE pushed' = pushed
    BY <2>2 DEF Typed, TypeOK, WellPlaced
  <2> QED BY <2>1, <2>2 DEF Send, sendVars, givenVars
<1>4. seen' \in [Conn -> SUBSET Nat]
  <2>1. CASE seen' = [seen EXCEPT ![c] = @ \cup (msgs \ recalled)]
    BY <1>1, <2>1 DEF Typed, TypeOK
  <2>2. CASE seen' = seen
    BY <2>2 DEF Typed, TypeOK
  <2> QED BY <2>1, <2>2 DEF Send, sendVars, givenVars
<1> QED BY <1>2, <1>3, <1>4

(* What a handler does to start a broadcast keeps the types. *)
LEMMA BroadcastTyped ==
    ASSUME Typed, NEW t \in Thread, NEW kind \in Kind, NEW m \in 0..Len(store),
           NEW u \in Thread,
           NEW next \in {"ready", "stream", "kickClose", "gone"},
           Broadcast(t, MessageEvent(kind, m, PeerOf[u]), next)
    PROVE  /\ draft' \in [Thread -> Event]
           /\ \A x \in Thread : draft'[x].msg <= Len(store)
           /\ resume' \in [Thread -> {"ready", "stream", "kickClose", "gone"}]
           /\ pc' \in [Thread -> PC]
           /\ \A x \in Thread : pc'[x] \in {"lock", "fan"} => pc[x] \in {"lock", "fan"}
<1> DEFINE e == MessageEvent(kind, m, PeerOf[u])
<1>1. e \in Event /\ e.msg = m
  <2>1. m \in Nat
    BY LenProperties DEF Typed, TypeOK
  <2> QED BY <2>1, EventTypes
<1> HIDE DEF e
<1>2. draft' = [draft EXCEPT ![t] = e]
  BY DEF Broadcast, e
<1>3. draft' \in [Thread -> Event] /\ \A x \in Thread : draft'[x].msg <= Len(store)
  BY <1>1, <1>2 DEF Typed, TypeOK, WellPlaced
<1>4. resume' \in [Thread -> {"ready", "stream", "kickClose", "gone"}]
  BY DEF Broadcast, Typed, TypeOK
<1>5. /\ pc' \in [Thread -> PC]
      /\ \A x \in Thread : pc'[x] \in {"lock", "fan"} => pc[x] \in {"lock", "fan"}
  BY DEF Broadcast, Goto, Typed, TypeOK, PC
<1> QED BY <1>3, <1>4, <1>5

(* The replay cursor of a connection is a position of the log. *)
LEMMA ReplayStartTyped ==
    ASSUME Typed, NEW k \in Conn
    PROVE  ResolveReplayStartSeq(wm[k][1], wm[k][2], Len(store)) \in Nat
<1>1. wm[k][1] \in Nat /\ wm[k][2] \in Nat
  BY DEF Typed, TypeOK
<1>2. Len(store) \in Nat
  BY LenProperties DEF Typed, TypeOK
<1> QED BY <1>1, <1>2 DEF ResolveReplayStartSeq

(* A page holds sequence numbers of the log. *)
LEMMA PageTyped ==
    ASSUME Typed, NEW f, NEW c
    PROVE  /\ Newest(Matched(f, c)) \subseteq 1..Len(store)
           /\ Oldest(Newest(Matched(f, c))) \subseteq Nat
<1>1. 1..Len(store) \subseteq Nat
  BY LenProperties DEF Typed, TypeOK
<1> QED BY <1>1 DEF Newest, Matched, Oldest

LEMMA TypedStep == Typed /\ [Next]_vars => Typed'
<1> SUFFICES ASSUME Typed, [Next]_vars PROVE Typed'
  OBVIOUS
<1> USE DEF storeVars, roomVars, givenVars, sendVars, castVars, connVars
<1>1. ASSUME NEW k \in Conn, NEW w \in Watermarks, Connect(k, w) PROVE Typed'
  <2>1. w \in Nat \X Nat /\ Len(store) \in Nat
    BY BoundAssumption, LenProperties DEF Typed, TypeOK
  <2>2. TypeOK'
    <3>1. wm' \in [Conn -> Nat \X Nat]
      <4>1. wm \in [Conn -> Nat \X Nat]
        BY DEF Typed, TypeOK
      <4>2. wm' = wm \/ wm' = [wm EXCEPT ![k] = w]
        BY <1>1 DEF Connect
      <4> QED BY <2>1, <4>1, <4>2
    <3>2. hello' \in [Conn -> Nat]
      <4>1. hello \in [Conn -> Nat]
        BY DEF Typed, TypeOK
      <4>2. hello' = hello \/ hello' = [hello EXCEPT ![k] = Len(store)]
        BY <1>1 DEF Connect
      <4> QED BY <2>1, <4>1, <4>2
    <3>3. link' \in [Conn -> {"none", "up", "full", "lost", "closed", "replaced"}]
      BY <1>1 DEF Typed, TypeOK, Connect
    <3>4. pc' \in [Thread -> PC]
      BY <1>1 DEF Typed, TypeOK, Connect, Goto, PC
    <3> QED BY <1>1, <3>1, <3>2, <3>3, <3>4 DEF Typed, TypeOK, Connect
  <2>3. WellPlaced'
    BY <1>1 DEF Typed, TypeOK, WellPlaced, Connect, Goto, PC
  <2> QED BY <2>2, <2>3 DEF Typed
<1>2. ASSUME NEW k \in Conn, Insert(k) PROVE Typed'
  <2>1. TypeOK'
    BY <1>2, EventTypes, PeerAssumption DEF Typed, TypeOK, Insert, Superseded, Goto, PC
  <2>2. WellPlaced'
    BY <1>2, EventTypes, PeerAssumption DEF Typed, TypeOK, WellPlaced, Insert, Superseded, Goto, PC
  <2> QED BY <2>1, <2>2 DEF Typed
<1>3. ASSUME NEW k \in Conn, CloseOld(k) PROVE Typed'
  <2> DEFINE f == ResolveReplayStartSeq(wm[k][1], wm[k][2], Len(store))
  <2>1. f \in Nat
    BY ReplayStartTyped
  <2> HIDE DEF f
  <2>2. hist' = [hist EXCEPT ![k] = [NoPage EXCEPT !.floor = f]]
    BY <1>3 DEF CloseOld, f
  <2>3. [NoPage EXCEPT !.floor = f] \in Page /\ [NoPage EXCEPT !.floor = f].todo = {}
    BY <2>1 DEF NoPage, Page
  <2>4. hist' \in [Conn -> Page] /\ \A c \in Conn : hist'[c].todo \subseteq 1..Len(store)
    BY <2>2, <2>3 DEF Typed, TypeOK, WellPlaced
  <2>5. due' \in [Conn -> Nat]
    BY <1>3, <2>4 DEF Typed, TypeOK, CloseOld, Page
  <2>6. TypeOK'
    BY <1>3, <2>4, <2>5 DEF Typed, TypeOK, CloseOld, Shut, Goto, PC
  <2>7. WellPlaced'
    BY <1>3, <2>4 DEF Typed, TypeOK, WellPlaced, CloseOld, Goto, PC
  <2> QED BY <2>6, <2>7 DEF Typed
<1>4. ASSUME NEW k \in Conn, Select(k) PROVE Typed'
  <2> DEFINE all  == Matched(hist[k].floor, hist[k].ceiling)
             page == Newest(all)
  <2>1. PICK first \in IF page = {} THEN {0} ELSE Oldest(page) :
            hist' = [hist EXCEPT ![k].todo = page, ![k].more = (page # all),
                                 ![k].oldest = first]
    BY <1>4 DEF Select
  <2>2. page \subseteq 1..Len(store) /\ page \subseteq Nat /\ first \in Nat
    <3>1. 1..Len(store) \subseteq Nat
      BY LenProperties DEF Typed, TypeOK
    <3> QED BY <2>1, <3>1, PageTyped
  <2> DEFINE more == page # all
  <2>3. more \in BOOLEAN
    OBVIOUS
  <2>4. hist' = [hist EXCEPT ![k].todo = page, ![k].more = more, ![k].oldest = first]
    BY <2>1
  <2> HIDE DEF page, all, more
  <2>5. hist'[k] \in Page /\ hist'[k].todo = page
    <3>1. hist[k] \in Page
      BY DEF Typed, TypeOK
    <3>2. hist'[k] = [hist[k] EXCEPT !.todo = page, !.more = more, !.oldest = first]
      BY <2>4 DEF Typed, TypeOK
    <3> QED BY <2>2, <2>3, <3>1, <3>2 DEF Page
  <2>6. hist' \in [Conn -> Page] /\ \A c \in Conn : hist'[c].todo \subseteq 1..Len(store)
    BY <2>2, <2>4, <2>5 DEF Typed, TypeOK, WellPlaced
  <2>7. pc' \in [Thread -> PC]
    BY <1>4 DEF Typed, TypeOK, Select, Goto, PC
  <2>8. TypeOK'
    BY <1>4, <2>6, <2>7 DEF Typed, TypeOK, Select
  <2>9. WellPlaced'
    BY <1>4, <2>6 DEF Typed, TypeOK, WellPlaced, Select, Goto, PC
  <2> QED BY <2>8, <2>9 DEF Typed
<1>5. ASSUME NEW k \in Conn, SendPage(k) PROVE Typed'
  <2>1. PICK n \in Oldest(hist[k].todo) :
           /\ Send(k, {n}) \/ UNCHANGED sendVars
           /\ \/ hist' = [hist EXCEPT ![k].todo = @ \ {n}, ![k].sent = TRUE,
                            ![k].oldest = IF hist[k].sent THEN @ ELSE n]
              \/ hist' = [hist EXCEPT ![k].todo = @ \ {n}]
    BY <1>5 DEF SendPage
  <2>2. n \in 1..Len(store) /\ n \in Nat
    <3>1. n \in 1..Len(store)
      BY <2>1 DEF Typed, WellPlaced, Oldest
    <3>2. 1..Len(store) \subseteq Nat
      BY LenProperties DEF Typed, TypeOK
    <3> QED BY <3>1, <3>2
  <2>3. /\ link' \in [Conn -> {"none", "up", "full", "lost", "closed", "replaced"}]
        /\ pushed' \in [Conn -> SUBSET Nat] /\ seen' \in [Conn -> SUBSET Nat]
        /\ \A c \in Conn : pushed'[c] \subseteq 1..Len(store)
    <3>1. CASE Send(k, {n})
      BY <2>2, <3>1, SendTyped
    <3>2. CASE UNCHANGED sendVars
      BY <3>2 DEF sendVars, Typed, TypeOK, WellPlaced
    <3> QED BY <2>1, <3>1, <3>2
  <2>4. hist'[k] \in Page /\ hist'[k].todo = hist[k].todo \ {n}
    <3>1. hist[k] \in Page
      BY DEF Typed, TypeOK
    <3>2. \/ hist'[k] = [hist[k] EXCEPT !.todo = @ \ {n}, !.sent = TRUE,
                              !.oldest = IF hist[k].sent THEN @ ELSE n]
          \/ hist'[k] = [hist[k] EXCEPT !.todo = @ \ {n}]
      BY <2>1 DEF Typed, TypeOK
    <3> QED BY <2>2, <3>1, <3>2 DEF Page
  <2>5. hist' \in [Conn -> Page] /\ \A c \in Conn : hist'[c].todo \subseteq 1..Len(store)
    BY <2>1, <2>4 DEF Typed, TypeOK, WellPlaced
  <2>6. TypeOK'
    BY <1>5, <2>3, <2>5 DEF Typed, TypeOK, SendPage
  <2>7. WellPlaced'
    BY <1>5, <2>3, <2>5 DEF Typed, TypeOK, WellPlaced, SendPage
  <2> QED BY <2>6, <2>7 DEF Typed
<1>6. ASSUME NEW k \in Conn, EndPage(k) PROVE Typed'
  <2>1. Send(k, {})
    BY <1>6 DEF EndPage
  <2>2. /\ link' \in [Conn -> {"none", "up", "full", "lost", "closed", "replaced"}]
        /\ pushed' \in [Conn -> SUBSET Nat] /\ seen' \in [Conn -> SUBSET Nat]
        /\ \A c \in Conn : pushed'[c] \subseteq 1..Len(store)
    BY <2>1, SendTyped
  <2>3. TypeOK'
    BY <1>6, <2>2 DEF Typed, TypeOK, EndPage, Goto, PC
  <2>4. WellPlaced'
    BY <1>6, <2>2 DEF Typed, TypeOK, WellPlaced, EndPage, Goto, PC
  <2> QED BY <2>3, <2>4 DEF Typed
<1>7. ASSUME NEW k \in Conn, Snapshot(k) PROVE Typed'
  <2>1. PresenceEvent(clients) \in Event /\ PresenceEvent(clients).msg = 0
    BY EventTypes DEF Typed, TypeOK
  <2>2. Len(store) \in Nat
    BY LenProperties DEF Typed, TypeOK
  <2>3. draft' \in [Thread -> Event] /\ \A u \in Thread : draft'[u].msg <= Len(store)
    BY <1>7, <2>1, <2>2 DEF Typed, TypeOK, WellPlaced, Snapshot
  <2>4. pc' \in [Thread -> PC]
    BY <1>7 DEF Typed, TypeOK, Snapshot, Goto, PC
  <2>5. TypeOK'
    BY <1>7, <2>3, <2>4 DEF Typed, TypeOK, Snapshot
  <2>6. WellPlaced'
    BY <1>7, <2>3 DEF Typed, TypeOK, WellPlaced, Snapshot, Goto, PC
  <2> QED BY <2>5, <2>6 DEF Typed
<1>8. ASSUME NEW k \in Conn, KickClient(k) PROVE Typed'
  <2>1. target' \in [Conn -> SUBSET Conn] /\ kicked' \subseteq Conn
    <3>1. target[k] \subseteq Conn
      BY DEF Typed, TypeOK
    <3>2. target' = [target EXCEPT ![k] = {}] \/ target' = target
      BY <1>8 DEF KickClient
    <3>3. kicked' = kicked \cup target[k] \/ kicked' = kicked
      BY <1>8 DEF KickClient
    <3> QED BY <3>1, <3>2, <3>3 DEF Typed, TypeOK
  <2>2. /\ draft' \in [Thread -> Event]
        /\ \A u \in Thread : draft'[u].msg <= Len(store)
        /\ resume' \in [Thread -> {"ready", "stream", "kickClose", "gone"}]
        /\ pc' \in [Thread -> PC]
        /\ \A u \in Thread : pc'[u] \in {"lock", "fan"} => pc[u] \in {"lock", "fan"}
    <3>1. CASE UNCHANGED <<draft, resume>>
      <4>1. \E l \in {"ready", "kickClose", "add"} : Goto(k, l)
        BY <1>8 DEF KickClient, Broadcast
      <4> QED BY <3>1, <4>1 DEF Typed, TypeOK, WellPlaced, Goto, PC
    <3>2. CASE \E v \in target[k] :
                  Broadcast(k, MessageEvent("added", 0, PeerOf[v]), "kickClose")
      <4>1. 0 \in 0..Len(store) /\ target[k] \subseteq Thread
        BY LenProperties DEF Typed, TypeOK
      <4> QED BY <3>2, <4>1, BroadcastTyped DEF Kind
    <3> QED BY <1>8, <3>1, <3>2 DEF KickClient
  <2>3. TypeOK'
    BY <1>8, <2>1, <2>2 DEF Typed, TypeOK, KickClient
  <2>4. WellPlaced'
    BY <1>8, <2>2 DEF Typed, TypeOK, WellPlaced, KickClient
  <2> QED BY <2>3, <2>4 DEF Typed
<1>9. ASSUME NEW k \in Conn, KickClose(k) PROVE Typed'
  <2>1. TypeOK'
    BY <1>9, EventTypes, PeerAssumption DEF Typed, TypeOK, KickClose, Shut, Goto, PC
  <2>2. WellPlaced'
    BY <1>9, EventTypes, PeerAssumption DEF Typed, TypeOK, WellPlaced, KickClose, Shut, Goto, PC
  <2> QED BY <2>1, <2>2 DEF Typed
<1>10. ASSUME NEW k \in Conn, Unregister(k) PROVE Typed'
  <2>1. link' \in [Conn -> {"none", "up", "full", "lost", "closed", "replaced"}]
    BY <1>10 DEF Typed, TypeOK, Unregister, Shut
  <2>2. notice' \in [Thread -> BOOLEAN]
    <3> DEFINE b == SystemMessages /\ ~HasOther(k) /\ k \notin kicked /\ PeerOf[k] # Desktop
    <3>1. b \in BOOLEAN
      OBVIOUS
    <3>2. notice' = [notice EXCEPT ![k] = b] \/ notice' = notice
      BY <1>10 DEF Unregister
    <3> HIDE DEF b
    <3> QED BY <3>1, <3>2 DEF Typed, TypeOK
  <2>3. resume' \in [Thread -> {"ready", "stream", "kickClose", "gone"}]
    BY <1>10 DEF Typed, TypeOK, Unregister
  <2>4. pc' \in [Thread -> PC]
    BY <1>10 DEF Typed, TypeOK, Unregister, Goto, PC
  <2>5. TypeOK'
    BY <1>10, <2>1, <2>2, <2>3, <2>4 DEF Typed, TypeOK, Unregister
  <2>6. WellPlaced'
    BY <1>10 DEF Typed, TypeOK, WellPlaced, Unregister, Goto, PC
  <2> QED BY <2>5, <2>6 DEF Typed
<1>11. ASSUME NEW k \in Conn, SendText(k) PROVE Typed'
  <2>1. 0 \in 0..Len(store)
    BY LenProperties DEF Typed, TypeOK, WellPlaced
  <2>2. /\ draft' \in [Thread -> Event]
        /\ \A u \in Thread : draft'[u].msg <= Len(store)
        /\ resume' \in [Thread -> {"ready", "stream", "kickClose", "gone"}]
        /\ pc' \in [Thread -> PC]
        /\ \A u \in Thread : pc'[u] \in {"lock", "fan"} => pc[u] \in {"lock", "fan"}
    BY <1>11, <2>1, BroadcastTyped DEF SendText, Kind
  <2>3. TypeOK'
    BY <1>11, <2>2 DEF Typed, TypeOK, SendText, Command
  <2>4. WellPlaced'
    BY <1>11, <2>2 DEF Typed, TypeOK, WellPlaced, SendText, Command
  <2> QED BY <2>3, <2>4 DEF Typed
<1>12. ASSUME NEW k \in Conn, UpdateClient(k) PROVE Typed'
  <2>1. notice' \in [Thread -> BOOLEAN]
    <3>1. PICK renamed \in BOOLEAN : notice' = [notice EXCEPT ![k] = SystemMessages /\ renamed]
      BY <1>12 DEF UpdateClient
    <3> DEFINE b == SystemMessages /\ renamed
    <3>2. b \in BOOLEAN /\ notice' = [notice EXCEPT ![k] = b]
      BY <3>1
    <3> HIDE DEF b
    <3> QED BY <3>2 DEF Typed, TypeOK
  <2>2. pc' \in [Thread -> PC] /\ budget' \in Nat
    BY <1>12 DEF Typed, TypeOK, UpdateClient, Command, Goto, PC
  <2>3. resume' \in [Thread -> {"ready", "stream", "kickClose", "gone"}]
    BY <1>12 DEF Typed, TypeOK, UpdateClient
  <2>4. TypeOK'
    BY <1>12, <2>1, <2>2, <2>3 DEF Typed, TypeOK, UpdateClient
  <2>5. WellPlaced'
    BY <1>12 DEF Typed, TypeOK, WellPlaced, UpdateClient, Goto, PC
  <2> QED BY <2>4, <2>5 DEF Typed
<1>13. ASSUME NEW k \in Conn, LoadHistory(k) PROVE Typed'
  <2> DEFINE f == IF wm[k][2] > 0 THEN wm[k][2] ELSE hello[k]
             page == [NoPage EXCEPT !.floor = f, !.ceiling = hist[k].oldest]
  <2>1. f \in Nat /\ hist[k].oldest \in Nat
    BY DEF Typed, TypeOK, Page
  <2>2. hist' = [hist EXCEPT ![k] = page]
    BY <1>13 DEF LoadHistory
  <2> HIDE DEF f
  <2>3. page \in Page /\ page.todo = {}
    BY <2>1 DEF NoPage, Page
  <2> HIDE DEF page
  <2>4. hist' \in [Conn -> Page] /\ \A c \in Conn : hist'[c].todo \subseteq 1..Len(store)
    BY <2>2, <2>3 DEF Typed, TypeOK, WellPlaced
  <2>5. pc' \in [Thread -> PC] /\ budget' \in Nat
    BY <1>13 DEF Typed, TypeOK, LoadHistory, Command, Goto, PC
  <2>6. TypeOK'
    BY <1>13, <2>4, <2>5 DEF Typed, TypeOK, LoadHistory
  <2>7. WellPlaced'
    BY <1>13, <2>4 DEF Typed, TypeOK, WellPlaced, LoadHistory, Goto, PC
  <2> QED BY <2>6, <2>7 DEF Typed
<1>14. ASSUME NEW k \in Conn, NEW m \in 1..Len(store), RecallMessage(k, m) PROVE Typed'
  <2>1. m \in 0..Len(store)
    BY LenProperties DEF Typed, TypeOK, WellPlaced
  <2>2. /\ draft' \in [Thread -> Event]
        /\ \A u \in Thread : draft'[u].msg <= Len(store)
        /\ resume' \in [Thread -> {"ready", "stream", "kickClose", "gone"}]
        /\ pc' \in [Thread -> PC]
        /\ \A u \in Thread : pc'[u] \in {"lock", "fan"} => pc[u] \in {"lock", "fan"}
    BY <1>14, <2>1, BroadcastTyped DEF RecallMessage, Kind
  <2>3. TypeOK'
    BY <1>14, <2>2 DEF Typed, TypeOK, RecallMessage, Command
  <2>4. WellPlaced'
    BY <1>14, <2>2 DEF Typed, TypeOK, WellPlaced, RecallMessage, Command
  <2> QED BY <2>3, <2>4 DEF Typed
<1>15. ASSUME NEW k \in Conn, NEW v \in Conn, KickHost(k, v) PROVE Typed'
  <2>1. kickedPeer' \subseteq Peer
    <3>1. PeerOf[v] \in Peer
      BY PeerAssumption
    <3>2. kickedPeer' = kickedPeer \cup {PeerOf[v]}
      BY <1>15 DEF KickHost
    <3> QED BY <3>1, <3>2 DEF Typed, TypeOK
  <2>2. pc' \in [Thread -> PC] /\ budget' \in Nat
    BY <1>15 DEF Typed, TypeOK, KickHost, Command, Goto, PC
  <2>3. TypeOK'
    BY <1>15, <2>1, <2>2 DEF Typed, TypeOK, KickHost
  <2>4. WellPlaced'
    BY <1>15 DEF Typed, TypeOK, WellPlaced, KickHost, Goto, PC
  <2> QED BY <2>3, <2>4 DEF Typed
<1>16. ASSUME NEW k \in Conn, Lose(k) PROVE Typed'
  <2>1. TypeOK'
    BY <1>16, EventTypes, PeerAssumption DEF Typed, TypeOK, Lose
  <2>2. WellPlaced'
    BY <1>16, EventTypes, PeerAssumption DEF Typed, TypeOK, WellPlaced, Lose
  <2> QED BY <2>1, <2>2 DEF Typed
<1>17. ASSUME NEW k \in Conn, Stall(k) PROVE Typed'
  <2>1. TypeOK'
    BY <1>17, EventTypes, PeerAssumption DEF Typed, TypeOK, Stall
  <2>2. WellPlaced'
    BY <1>17, EventTypes, PeerAssumption DEF Typed, TypeOK, WellPlaced, Stall
  <2> QED BY <2>1, <2>2 DEF Typed
<1>18. ASSUME NEW k \in Conn, WritePump(k) PROVE Typed'
  <2>1. link' \in [Conn -> {"none", "up", "full", "lost", "closed", "replaced"}]
    BY <1>18 DEF Typed, TypeOK, WritePump, Shut
  <2>2. faults' \in Nat
    BY <1>18 DEF Typed, TypeOK, WritePump
  <2>3. TypeOK'
    BY <1>18, <2>1, <2>2 DEF Typed, TypeOK, WritePump
  <2>4. WellPlaced'
    BY <1>18 DEF Typed, TypeOK, WellPlaced, WritePump
  <2> QED BY <2>3, <2>4 DEF Typed
<1>19. ASSUME NEW t \in Thread, Add(t) PROVE Typed'
  <2> DEFINE n == Len(store) + 1
             e == IF draft[t].kind \in {"added", "upload"}
                  THEN [draft[t] EXCEPT !.msg = n] ELSE draft[t]
  <2>1. Len(store) \in Nat /\ n \in Nat
    BY LenProperties DEF Typed, TypeOK
  <2>2. store' = Append(store, e) /\ cur' = [cur EXCEPT ![t] = n]
    BY <1>19 DEF Add
  <2>3. e \in Event /\ e.msg <= n
    <3>1. draft[t] \in Event /\ draft[t].msg <= Len(store)
      BY DEF Typed, TypeOK, WellPlaced
    <3> QED BY <2>1, <3>1 DEF Event
  <2> HIDE DEF e
  <2>4. /\ store' \in Seq(Event) /\ Len(store') = n /\ store'[n] = e
        /\ \A i \in 1..Len(store) : store'[i] = store[i]
    BY <2>2, <2>3, AppendProperties DEF Typed, TypeOK
  <2>5. cur' \in [Thread -> Nat] /\ uploading' \subseteq Nat
    <3>1. cur' \in [Thread -> Nat]
      BY <2>1, <2>2 DEF Typed, TypeOK
    <3>2. uploading' = uploading \cup {n} \/ uploading' = uploading
      BY <1>19 DEF Add
    <3> QED BY <2>1, <3>1, <3>2 DEF Typed, TypeOK
  <2>6. draft' \in [Thread -> Event] /\ \A u \in Thread : draft'[u].msg <= Len(store)
    BY <1>19, <2>1, EventTypes DEF Typed, TypeOK, WellPlaced, Add
  <2>7. pc' \in [Thread -> PC]
    BY <1>19 DEF Typed, TypeOK, Add, Goto, PC
  <2>8. TypeOK'
    BY <1>19, <2>4, <2>5, <2>6, <2>7 DEF Typed, TypeOK, Add
  <2>9. WellPlaced'
    <3>1. 1..Len(store) \subseteq 1..Len(store')
      BY <2>1, <2>4
    <3>2. \A k \in Conn : hist'[k].todo \subseteq 1..Len(store') /\ pushed'[k] \subseteq 1..Len(store')
      BY <1>19, <3>1 DEF Typed, WellPlaced, Add
    <3>3. \A u \in Thread : cur'[u] <= Len(store') /\ (pc'[u] \in {"lock", "fan"} => cur'[u] > 0)
      BY <1>19, <2>1, <2>2, <2>4 DEF Typed, TypeOK, WellPlaced, Add, Goto
    <3>4. \A u \in Thread : draft'[u].msg <= Len(store')
      BY <2>1, <2>4, <2>6 DEF Event
    <3>5. \A i \in 1..Len(store') : store'[i].msg <= Len(store')
      <4> SUFFICES ASSUME NEW i \in 1..Len(store') PROVE store'[i].msg <= n
        BY <2>4
      <4>1. CASE i = n
        BY <2>3, <2>4, <4>1
      <4>2. CASE i \in 1..Len(store)
        BY <2>1, <2>4, <4>2, StoredEvents DEF Typed, WellPlaced
      <4> QED BY <2>1, <2>4, <4>1, <4>2
    <3> QED BY <3>2, <3>3, <3>4, <3>5 DEF WellPlaced
  <2> QED BY <2>8, <2>9 DEF Typed
<1>20. ASSUME NEW t \in Thread, FanStart(t) PROVE Typed'
  <2>1. TypeOK'
    BY <1>20, EventTypes, PeerAssumption DEF Typed, TypeOK, FanStart, Goto, PC
  <2>2. WellPlaced'
    BY <1>20, EventTypes, PeerAssumption DEF Typed, TypeOK, WellPlaced, FanStart, Goto, PC
  <2> QED BY <2>1, <2>2 DEF Typed
<1>21. ASSUME NEW t \in Thread, FanSend(t) PROVE Typed'
  <2>1. PICK c \in left[t] :
           /\ left' = [left EXCEPT ![t] = @ \ {c}]
           /\ Send(c, {cur[t]}) \/ UNCHANGED sendVars
    BY <1>21 DEF FanSend
  <2>2. c \in Conn /\ {cur[t]} \in SUBSET (1..Len(store))
    BY <1>21, <2>1 DEF FanSend, Typed, TypeOK, WellPlaced
  <2>3. /\ link' \in [Conn -> {"none", "up", "full", "lost", "closed", "replaced"}]
        /\ pushed' \in [Conn -> SUBSET Nat] /\ seen' \in [Conn -> SUBSET Nat]
        /\ \A k \in Conn : pushed'[k] \subseteq 1..Len(store)
    <3>1. CASE Send(c, {cur[t]})
      BY <2>2, <3>1, SendTyped
    <3>2. CASE UNCHANGED sendVars
      BY <3>2 DEF sendVars, Typed, TypeOK, WellPlaced
    <3> QED BY <2>1, <3>1, <3>2
  <2>4. left' \in [Thread -> SUBSET Conn]
    BY <2>1 DEF Typed, TypeOK
  <2>5. TypeOK'
    BY <1>21, <2>3, <2>4 DEF Typed, TypeOK, FanSend
  <2>6. WellPlaced'
    BY <1>21, <2>3 DEF Typed, TypeOK, WellPlaced, FanSend
  <2> QED BY <2>5, <2>6 DEF Typed
<1>22. ASSUME NEW t \in Thread, FanDone(t) PROVE Typed'
  <2>1. Len(store) \in Nat
    BY LenProperties DEF Typed, TypeOK
  <2>2. /\ MessageEvent("added", 0, PeerOf[t]) \in Event
        /\ MessageEvent("added", 0, PeerOf[t]).msg = 0
    BY EventTypes DEF Kind
  <2>3. draft' \in [Thread -> Event] /\ \A u \in Thread : draft'[u].msg <= Len(store)
    <3> DEFINE e == MessageEvent("added", 0, PeerOf[t])
    <3>1. draft' = [draft EXCEPT ![t] = e] \/ draft' = draft
      BY <1>22 DEF FanDone
    <3>2. e \in Event /\ e.msg <= Len(store)
      BY <2>1, <2>2
    <3> HIDE DEF e
    <3>3. CASE draft' = [draft EXCEPT ![t] = e]
      BY <3>2, <3>3 DEF Typed, TypeOK, WellPlaced
    <3>4. CASE draft' = draft
      BY <1>22, <3>4 DEF Typed, TypeOK, WellPlaced, FanDone
    <3> QED BY <3>1, <3>3, <3>4
  <2>4. /\ pc' \in [Thread -> PC]
        /\ \A u \in Thread : pc'[u] \in {"lock", "fan"} => pc[u] \in {"lock", "fan"}
    BY <1>22 DEF Typed, TypeOK, FanDone, Goto, PC
  <2>5. notice' \in [Thread -> BOOLEAN]
    BY <1>22 DEF Typed, TypeOK, FanDone
  <2>6. TypeOK'
    BY <1>22, <2>3, <2>4, <2>5 DEF Typed, TypeOK, FanDone
  <2>7. WellPlaced'
    BY <1>22, <2>3, <2>4 DEF Typed, TypeOK, WellPlaced, FanDone
  <2> QED BY <2>6, <2>7 DEF Typed
<1>23. ASSUME NEW x \in Worker, UploadInit(x) PROVE Typed'
  <2>1. 0 \in 0..Len(store)
    BY LenProperties DEF Typed, TypeOK, WellPlaced
  <2>2. /\ draft' \in [Thread -> Event]
        /\ \A u \in Thread : draft'[u].msg <= Len(store)
        /\ resume' \in [Thread -> {"ready", "stream", "kickClose", "gone"}]
        /\ pc' \in [Thread -> PC]
        /\ \A u \in Thread : pc'[u] \in {"lock", "fan"} => pc[u] \in {"lock", "fan"}
    BY <1>23, <2>1, BroadcastTyped DEF UploadInit, Kind
  <2>3. TypeOK'
    BY <1>23, <2>2 DEF Typed, TypeOK, UploadInit
  <2>4. WellPlaced'
    BY <1>23, <2>2 DEF Typed, TypeOK, WellPlaced, UploadInit
  <2> QED BY <2>3, <2>4 DEF Typed
<1>24. ASSUME NEW x \in Worker, UploadComplete(x) PROVE Typed'
  <2>1. cur[x] \in 0..Len(store)
    BY LenProperties DEF Typed, TypeOK, WellPlaced
  <2>2. /\ draft' \in [Thread -> Event]
        /\ \A u \in Thread : draft'[u].msg <= Len(store)
        /\ resume' \in [Thread -> {"ready", "stream", "kickClose", "gone"}]
        /\ pc' \in [Thread -> PC]
        /\ \A u \in Thread : pc'[u] \in {"lock", "fan"} => pc[u] \in {"lock", "fan"}
    BY <1>24, <2>1, BroadcastTyped DEF UploadComplete, Kind
  <2>3. TypeOK'
    BY <1>24, <2>2 DEF Typed, TypeOK, UploadComplete
  <2>4. WellPlaced'
    BY <1>24, <2>2 DEF Typed, TypeOK, WellPlaced, UploadComplete
  <2> QED BY <2>3, <2>4 DEF Typed
<1>25. ASSUME NEW x \in Worker, UploadFail(x) PROVE Typed'
  <2>1. TypeOK'
    BY <1>25, EventTypes, PeerAssumption DEF Typed, TypeOK, UploadFail, Goto, PC
  <2>2. WellPlaced'
    BY <1>25, EventTypes, PeerAssumption DEF Typed, TypeOK, WellPlaced, UploadFail, Goto, PC
  <2> QED BY <2>1, <2>2 DEF Typed
<1>26. CASE UNCHANGED vars
  BY <1>26 DEF Typed, TypeOK, WellPlaced, IsMessage, vars
<1> QED BY <1>1, <1>2, <1>3, <1>4, <1>5, <1>6, <1>7, <1>8, <1>9, <1>10, <1>11, <1>12, <1>13, <1>14, <1>15, <1>16, <1>17, <1>18, <1>19, <1>20, <1>21, <1>22, <1>23, <1>24, <1>25, <1>26
      DEF Next, HandlerStep, BroadcastStep, CommandStep, UploadStep, Terminated

(* The state of a room is well typed, and every event a handler sends or    *)
(* fans out is in the log (TypeOK).                                         *)
THEOREM TypeCorrect == Spec => []Typed
<1>1. Init => Typed
  BY InitTyped
<1>2. Typed /\ [Next]_vars => Typed'
  BY TypedStep
<1> QED BY <1>1, <1>2, PTL DEF Spec

THEOREM TypeInvariant == Spec => []TypeOK
<1>1. Typed => TypeOK
  BY DEF Typed
<1> QED BY <1>1, TypeCorrect, PTL

-----------------------------------------------------------------------------
(* The read lock: who is in a fan-out stays in the room until it is over    *)

(* The clients a fan-out has still to visit are in the room, and a thread   *)
(* that is not in a fan-out has none to visit.  Actions that change the     *)
(* room wait for NoReaders, so for them the second part empties the first.  *)
ReadersHold ==
    \A t \in Thread : /\ left[t] \subseteq clients
                      /\ pc[t] # "fan" => left[t] = {}

LEMMA ReadersHoldStep == Typed /\ ReadersHold /\ [Next]_vars => ReadersHold'
<1> SUFFICES ASSUME Typed, ReadersHold, [Next]_vars PROVE ReadersHold'
  OBVIOUS
<1> USE DEF storeVars, roomVars, givenVars, sendVars, castVars, connVars,
            ReadersHold, Goto
<1>0. pc \in [Thread -> PC] /\ left \in [Thread -> SUBSET Conn]
  BY DEF Typed, TypeOK
<1>1. ASSUME NEW k \in Conn, NEW w \in Watermarks, Connect(k, w) PROVE ReadersHold'
  BY <1>0, <1>1 DEF Connect
<1>2. ASSUME NEW k \in Conn, Insert(k) PROVE ReadersHold'
  BY <1>0, <1>2 DEF Insert, NoReaders
<1>3. ASSUME NEW k \in Conn,
             CloseOld(k) \/ Select(k) \/ SendPage(k) \/ EndPage(k) \/ Snapshot(k)
      PROVE  ReadersHold'
  BY <1>0, <1>3 DEF CloseOld, Select, SendPage, EndPage, Snapshot
<1>4. ASSUME NEW k \in Conn, KickClient(k) \/ KickClose(k) PROVE ReadersHold'
  BY <1>0, <1>4 DEF KickClient, KickClose, Broadcast
<1>5. ASSUME NEW k \in Conn, Unregister(k) PROVE ReadersHold'
  BY <1>0, <1>5 DEF Unregister, NoReaders
<1>6. ASSUME NEW k \in Conn, CommandStep(k) PROVE ReadersHold'
  BY <1>0, <1>6 DEF CommandStep, SendText, UpdateClient, LoadHistory,
       RecallMessage, KickHost, Command, Broadcast
<1>7. ASSUME NEW k \in Conn, Lose(k) \/ Stall(k) \/ WritePump(k) PROVE ReadersHold'
  BY <1>0, <1>7 DEF Lose, Stall, WritePump
<1>8. ASSUME NEW t \in Thread, Add(t) PROVE ReadersHold'
  BY <1>0, <1>8 DEF Add
<1>9. ASSUME NEW t \in Thread, FanStart(t) PROVE ReadersHold'
  BY <1>0, <1>9 DEF FanStart
<1>10. ASSUME NEW t \in Thread, FanSend(t) PROVE ReadersHold'
  BY <1>0, <1>10 DEF FanSend
<1>11. ASSUME NEW t \in Thread, FanDone(t) PROVE ReadersHold'
  BY <1>0, <1>11 DEF FanDone
<1>12. ASSUME NEW x \in Worker, UploadStep(x) PROVE ReadersHold'
  BY <1>0, <1>12 DEF UploadStep, UploadInit, UploadComplete, UploadFail, Broadcast
<1>13. CASE UNCHANGED vars
  BY <1>13 DEF vars
<1> QED BY <1>1, <1>2, <1>3, <1>4, <1>5, <1>6, <1>7, <1>8, <1>9, <1>10, <1>11, <1>12,
           <1>13 DEF Next, HandlerStep, BroadcastStep, Terminated

(* A fan-out visits only clients that are still in the room.                *)
THEOREM FanoutStaysWithinRoom == Spec => []FanoutWithinRoom
<1>1. Init => ReadersHold
  BY DEF Init, ReadersHold
<1>2. Typed /\ ReadersHold /\ [Next]_vars => ReadersHold'
  BY ReadersHoldStep
<1>3. ReadersHold => FanoutWithinRoom
  BY DEF ReadersHold, FanoutWithinRoom
<1> QED BY <1>1, <1>2, <1>3, TypeCorrect, PTL DEF Spec

-----------------------------------------------------------------------------
(* One live connection per device                                           *)

LEMMA SinglePeerStep ==
    Typed /\ SinglePeerConnection /\ [Next]_vars => SinglePeerConnection'
<1> SUFFICES ASSUME Typed, SinglePeerConnection, [Next]_vars
             PROVE  SinglePeerConnection'
  OBVIOUS
<1> USE DEF storeVars, roomVars, givenVars, sendVars, castVars, connVars,
            SinglePeerConnection, Goto, Alive
<1>0. /\ pc \in [Thread -> PC] /\ target \in [Conn -> SUBSET Conn]
      /\ link \in [Conn -> {"none", "up", "full", "lost", "closed", "replaced"}]
  BY DEF Typed, TypeOK
<1>1. ASSUME NEW k \in Conn, NEW w \in Watermarks, Connect(k, w)
      PROVE  SinglePeerConnection'
  BY <1>0, <1>1 DEF Connect
<1>2. ASSUME NEW k \in Conn, Insert(k) PROVE SinglePeerConnection'
  <2>1. \A c, d \in clients' : PeerOf[c] = PeerOf[d] => c = d
    BY <1>2 DEF Insert, Superseded
  <2>2. ASSUME NEW c \in Conn, c \notin clients', Alive(c)'
        PROVE  \/ pc'[c] = "insert"
               \/ \E j \in Conn : c \in target'[j] /\ pc'[j] = "closeOld"
    <3>1. CASE c \in Superseded(k)
      BY <1>0, <1>2, <3>1 DEF Insert
    <3>2. CASE c \notin Superseded(k)
      BY <1>0, <1>2, <2>2, <3>2 DEF Insert
    <3> QED BY <3>1, <3>2
  <2> QED BY <2>1, <2>2
<1>3. ASSUME NEW k \in Conn, CloseOld(k) PROVE SinglePeerConnection'
  BY <1>0, <1>3 DEF CloseOld, Shut
<1>4. ASSUME NEW k \in Conn, Select(k) \/ Snapshot(k) PROVE SinglePeerConnection'
  BY <1>0, <1>4 DEF Select, Snapshot
<1>5. ASSUME NEW k \in Conn, SendPage(k) PROVE SinglePeerConnection'
  BY <1>0, <1>5 DEF SendPage, Send, Shut
<1>6. ASSUME NEW k \in Conn, EndPage(k) PROVE SinglePeerConnection'
  BY <1>0, <1>6 DEF EndPage, Send, Shut
<1>7. ASSUME NEW k \in Conn, KickClient(k) PROVE SinglePeerConnection'
  BY <1>0, <1>7 DEF KickClient, Broadcast
<1>8. ASSUME NEW k \in Conn, KickClose(k) PROVE SinglePeerConnection'
  BY <1>0, <1>8 DEF KickClose, Shut
<1>9. ASSUME NEW k \in Conn, Unregister(k) PROVE SinglePeerConnection'
  BY <1>0, <1>9 DEF Unregister, Shut
<1>10. ASSUME NEW k \in Conn, CommandStep(k) PROVE SinglePeerConnection'
  BY <1>0, <1>10 DEF CommandStep, SendText, UpdateClient, LoadHistory,
       RecallMessage, KickHost, Command, Broadcast
<1>11. ASSUME NEW k \in Conn, Lose(k) \/ Stall(k) \/ WritePump(k)
       PROVE  SinglePeerConnection'
  BY <1>0, <1>11 DEF Lose, Stall, WritePump, Shut, Online
<1>12. ASSUME NEW t \in Thread, Add(t) \/ FanStart(t) \/ FanDone(t)
       PROVE  SinglePeerConnection'
  BY <1>0, <1>12 DEF Add, FanStart, FanDone
<1>13. ASSUME NEW t \in Thread, FanSend(t) PROVE SinglePeerConnection'
  BY <1>0, <1>13 DEF FanSend, Send, Shut
<1>14. ASSUME NEW x \in Worker, UploadStep(x) PROVE SinglePeerConnection'
  BY <1>0, <1>14 DEF UploadStep, UploadInit, UploadComplete, UploadFail, Broadcast
<1>15. CASE UNCHANGED vars
  BY <1>15 DEF vars
<1> QED BY <1>1, <1>2, <1>3, <1>4, <1>5, <1>6, <1>7, <1>8, <1>9, <1>10, <1>11, <1>12,
           <1>13, <1>14, <1>15 DEF Next, HandlerStep, BroadcastStep, Terminated

(* At most one connection of a device is in the room, and one that is no    *)
(* longer in it is closed, or about to be by the handler that took its      *)
(* place.                                                                   *)
THEOREM OneConnectionPerPeer == Spec => []SinglePeerConnection
<1>1. Init => SinglePeerConnection
  BY DEF Init, SinglePeerConnection, Alive
<1>2. Typed /\ SinglePeerConnection /\ [Next]_vars => SinglePeerConnection'
  BY SinglePeerStep
<1> QED BY <1>1, <1>2, TypeCorrect, PTL DEF Spec

-----------------------------------------------------------------------------
(* A kick ends in a close                                                   *)

(* The handler of the host that marked k is on its way to closing it.  The  *)
(* resume point alone would not do: it keeps its value after the close.     *)
ClosePending(d, k) ==
    /\ k \in target[d]
    /\ \/ pc[d] = "kickClose"
       \/ pc[d] \in {"add", "lock", "fan"} /\ resume[d] = "kickClose"

(* A connection that has not begun is neither in the room nor kicked, so    *)
(* that a new connection can never come to life already kicked.             *)
KickInv ==
    /\ \A k \in Conn : pc[k] = "idle" => k \notin clients \cup kicked
    /\ \A k \in kicked : Alive(k) => \E d \in Conn : ClosePending(d, k)

LEMMA KickStep == Typed /\ KickInv /\ [Next]_vars => KickInv'
<1> SUFFICES ASSUME Typed, KickInv, [Next]_vars PROVE KickInv'
  OBVIOUS
<1> USE DEF storeVars, roomVars, givenVars, sendVars, castVars, connVars,
            KickInv, ClosePending, Goto, Alive
<1>0. /\ pc \in [Thread -> PC] /\ target \in [Conn -> SUBSET Conn]
      /\ link \in [Conn -> {"none", "up", "full", "lost", "closed", "replaced"}]
      /\ resume \in [Thread -> {"ready", "stream", "kickClose", "gone"}]
      /\ clients \subseteq Conn /\ kicked \subseteq Conn
  BY DEF Typed, TypeOK
<1>1. ASSUME NEW k \in Conn, NEW w \in Watermarks, Connect(k, w) PROVE KickInv'
  BY <1>0, <1>1 DEF Connect
<1>2. ASSUME NEW k \in Conn, Insert(k) PROVE KickInv'
  BY <1>0, <1>2 DEF Insert
<1>3. ASSUME NEW k \in Conn, CloseOld(k) PROVE KickInv'
  BY <1>0, <1>3 DEF CloseOld, Shut
<1>4. ASSUME NEW k \in Conn, Select(k) \/ Snapshot(k) PROVE KickInv'
  BY <1>0, <1>4 DEF Select, Snapshot
<1>5. ASSUME NEW k \in Conn, SendPage(k) PROVE KickInv'
  BY <1>0, <1>5 DEF SendPage, Send, Shut
<1>6. ASSUME NEW k \in Conn, EndPage(k) PROVE KickInv'
  BY <1>0, <1>6 DEF EndPage, Send, Shut
<1>7. ASSUME NEW k \in Conn, KickClient(k) PROVE KickInv'
  BY <1>0, <1>7 DEF KickClient, Broadcast
<1>8. ASSUME NEW k \in Conn, KickClose(k) PROVE KickInv'
  BY <1>0, <1>8 DEF KickClose, Shut
<1>9. ASSUME NEW k \in Conn, Unregister(k) PROVE KickInv'
  BY <1>0, <1>9 DEF Unregister, Shut
<1>10. ASSUME NEW k \in Conn, CommandStep(k) PROVE KickInv'
  BY <1>0, <1>10 DEF CommandStep, SendText, UpdateClient, LoadHistory,
       RecallMessage, KickHost, Command, Broadcast
<1>11. ASSUME NEW k \in Conn, Lose(k) \/ Stall(k) \/ WritePump(k) PROVE KickInv'
  BY <1>0, <1>11 DEF Lose, Stall, WritePump, Shut, Online
<1>12. ASSUME NEW t \in Thread, Add(t) \/ FanStart(t) \/ FanDone(t) PROVE KickInv'
  BY <1>0, <1>12 DEF Add, FanStart, FanDone
<1>13. ASSUME NEW t \in Thread, FanSend(t) PROVE KickInv'
  BY <1>0, <1>13 DEF FanSend, Send, Shut
<1>14. ASSUME NEW x \in Worker, UploadStep(x) PROVE KickInv'
  BY <1>0, <1>14, ThreadAssumption
     DEF UploadStep, UploadInit, UploadComplete, UploadFail, Broadcast
<1>15. CASE UNCHANGED vars
  BY <1>15 DEF vars
<1> QED BY <1>1, <1>2, <1>3, <1>4, <1>5, <1>6, <1>7, <1>8, <1>9, <1>10, <1>11, <1>12,
           <1>13, <1>14, <1>15 DEF Next, HandlerStep, BroadcastStep, Terminated

(* A device the host forced offline is closed, or about to be.              *)
THEOREM KickedAreClosed == Spec => []KickCloses
<1>1. Init => KickInv
  BY DEF Init, KickInv, Alive
<1>2. Typed /\ KickInv /\ [Next]_vars => KickInv'
  BY KickStep
<1>3. KickInv => KickCloses
  BY DEF KickInv, KickCloses, ClosePending
<1> QED BY <1>1, <1>2, <1>3, TypeCorrect, PTL DEF Spec

-----------------------------------------------------------------------------
(* Files still uploading stay hidden                                        *)

(* What a connection is given by a Send that the visibility check allowed   *)
(* may be shown to it, whichever of Send's outcomes happens.                *)
LEMMA GivenVisible ==
    ASSUME Typed, UploadHidden, NEW c \in Conn, NEW n \in 1..Len(store),
           \/ isEventVisibleTo(c, n) /\ Send(c, {n})
           \/ UNCHANGED sendVars
    PROVE  \A k \in Conn : \A i \in pushed'[k] :
              store[i].msg \in uploading => PeerOf[k] \in {store[i].by, Desktop}
<1>1. pushed' = pushed \/ (pushed' = [pushed EXCEPT ![c] = @ \cup {n}] /\ isEventVisibleTo(c, n))
  BY DEF Send, sendVars, givenVars
<1>2. SUFFICES ASSUME NEW k \in Conn, NEW i \in pushed'[k], store[i].msg \in uploading
               PROVE  PeerOf[k] \in {store[i].by, Desktop}
  OBVIOUS
<1>3. CASE i \in pushed[k]
  BY <1>2, <1>3 DEF UploadHidden
<1>4. CASE i \notin pushed[k]
  <2>1. k = c /\ i = n /\ isEventVisibleTo(c, n)
    BY <1>1, <1>4 DEF Typed, TypeOK
  <2> QED BY <1>2, <2>1 DEF isEventVisibleTo
<1> QED BY <1>3, <1>4

LEMMA UploadHiddenStep == Typed /\ UploadHidden /\ [Next]_vars => UploadHidden'
<1> SUFFICES ASSUME Typed, UploadHidden, [Next]_vars PROVE UploadHidden'
  OBVIOUS
<1> USE DEF storeVars, roomVars, givenVars, sendVars, castVars, connVars, UploadHidden
<1>1. ASSUME NEW k \in Conn, NEW w \in Watermarks, Connect(k, w) PROVE UploadHidden'
  BY <1>1 DEF Connect
<1>2. ASSUME NEW k \in Conn,
             \/ Insert(k) \/ CloseOld(k) \/ Select(k) \/ Snapshot(k)
             \/ KickClient(k) \/ KickClose(k) \/ Unregister(k)
      PROVE  UploadHidden'
  BY <1>2 DEF Insert, CloseOld, Select, Snapshot, KickClient, KickClose, Unregister
<1>3. ASSUME NEW k \in Conn, SendPage(k) PROVE UploadHidden'
  <2>1. PICK n \in Oldest(hist[k].todo) :
           \/ isEventVisibleTo(k, n) /\ Send(k, {n})
           \/ UNCHANGED sendVars
    BY <1>3 DEF SendPage
  <2>2. n \in 1..Len(store)
    BY <2>1 DEF Oldest, Typed, WellPlaced
  <2> QED BY <1>3, <2>1, <2>2, GivenVisible DEF SendPage
<1>4. ASSUME NEW k \in Conn, EndPage(k) PROVE UploadHidden'
  <2>1. \A c \in Conn : pushed'[c] = pushed[c]
    BY <1>4 DEF EndPage, Send, Typed, TypeOK
  <2> QED BY <1>4, <2>1 DEF EndPage
<1>5. ASSUME NEW k \in Conn, CommandStep(k) PROVE UploadHidden'
  BY <1>5 DEF CommandStep, SendText, UpdateClient, LoadHistory, RecallMessage, KickHost
<1>6. ASSUME NEW k \in Conn, Lose(k) \/ Stall(k) \/ WritePump(k) PROVE UploadHidden'
  BY <1>6 DEF Lose, Stall, WritePump
<1>7. ASSUME NEW t \in Thread, Add(t) PROVE UploadHidden'
  <2> DEFINE n == Len(store) + 1
  <2>1. Len(store) \in Nat /\ pushed' = pushed /\ uploading' \subseteq uploading \cup {n}
    BY <1>7, LenProperties DEF Add, Typed, TypeOK
  <2>2. \A i \in 1..Len(store) : store'[i] = store[i]
    BY <1>7, AppendProperties DEF Add, Typed, TypeOK
  <2>3. \A i \in 1..Len(store) : store[i].msg # n
    BY <2>1, StoredEvents DEF Typed, WellPlaced
  <2> QED BY <2>1, <2>2, <2>3 DEF Typed, WellPlaced
<1>8. ASSUME NEW t \in Thread, FanStart(t) \/ FanDone(t) PROVE UploadHidden'
  BY <1>8 DEF FanStart, FanDone
<1>9. ASSUME NEW t \in Thread, FanSend(t) PROVE UploadHidden'
  <2>1. PICK c \in left[t] :
           \/ isEventVisibleTo(c, cur[t]) /\ Send(c, {cur[t]})
           \/ UNCHANGED sendVars
    BY <1>9 DEF FanSend
  <2>2. c \in Conn /\ cur[t] \in 1..Len(store)
    BY <1>9, <2>1 DEF FanSend, Typed, TypeOK, WellPlaced
  <2> QED BY <1>9, <2>1, <2>2, GivenVisible DEF FanSend
<1>10. ASSUME NEW x \in Worker, UploadStep(x) PROVE UploadHidden'
  BY <1>10 DEF UploadStep, UploadInit, UploadComplete, UploadFail
<1>11. CASE UNCHANGED vars
  BY <1>11 DEF vars
<1> QED BY <1>1, <1>2, <1>3, <1>4, <1>5, <1>6, <1>7, <1>8, <1>9, <1>10, <1>11
        DEF Next, HandlerStep, BroadcastStep, Terminated

(* No stream and no replay gives a client a file that is still uploading,   *)
(* unless the client is its sender or the desktop.                          *)
THEOREM UploadsStayHidden == Spec => []UploadHidden
<1>1. Init => UploadHidden
  BY DEF Init, UploadHidden
<1>2. Typed /\ UploadHidden /\ [Next]_vars => UploadHidden'
  BY UploadHiddenStep
<1> QED BY <1>1, <1>2, TypeCorrect, PTL DEF Spec

-----------------------------------------------------------------------------
(* The log and its messages                                                 *)

(* An event about a message is about one the log has, and was sent by its   *)
(* sender; a message is about itself, and a file that was announced as      *)
(* complete is not uploading any more.                                      *)
AboutMessage(e) ==
    e.msg \in 1..Len(store) /\ e.by = store[e.msg].by
       /\ store[e.msg].kind \in {"added", "upload"}

LogInv ==
    /\ \A n \in uploading : n \in 1..Len(store) /\ store[n].kind = "upload"
    /\ \A n \in 1..Len(store) :
          /\ IsMessage(n) => AboutMessage(store[n])
          /\ store[n].kind \in {"added", "upload"} => store[n].msg = n
          /\ store[n].kind = "updated" => store[n].msg \notin uploading

(* What a thread is about to store fits the log.  An upload handler knows   *)
(* the seq of the message that announced its file.                          *)
Announced(w) ==
    /\ cur[w] \in 1..Len(store)
    /\ store[cur[w]].kind = "upload" /\ store[cur[w]].by = PeerOf[w]

Drafted(t) ==
    /\ pc[t] = "add" /\ draft[t].kind \in {"updated", "recalled"} =>
          /\ AboutMessage(draft[t])
          /\ draft[t].kind = "updated" => draft[t].msg \notin uploading
    /\ t \in Worker =>
          /\ ~notice[t]
          /\ pc[t] = "stream" => Announced(t)
          /\ resume[t] = "stream" =>
                /\ pc[t] \in {"lock", "fan"} => Announced(t)
                /\ pc[t] = "add" => draft[t].kind = "upload" /\ draft[t].by = PeerOf[t]
    /\ t \in Conn => resume[t] # "stream" /\ pc[t] # "stream"

DraftInv == \A t \in Thread : Drafted(t)

-----------------------------------------------------------------------------
(* Where a connection stands                                                *)

(* Nothing is given to a connection before it is in the room, it has a      *)
(* socket from its connect on, and its page is empty unless it is being     *)
(* sent.                                                                    *)
Joining ==
    \A k \in Conn :
       /\ pc[k] \in {"idle", "insert"} =>
             k \notin clients /\ pushed[k] = {} /\ seen[k] = {}
       /\ pc[k] = "idle" => link[k] = "none"
       /\ link[k] = "none" => pc[k] \in {"idle", "gone"} /\ k \notin clients
       /\ pc[k] # "page" => hist[k].todo = {}

(* What was seen was pushed. *)
SeenInv ==
    \A k \in Conn : \A m \in seen[k] :
       \E n \in pushed[k] : IsMessage(n) /\ store[n].msg = m

(* The cursors of the history pages: the first page starts where the replay *)
(* is due, an older one not above it, and the cursor the client holds is    *)
(* below all that is still to be sent.                                      *)
Boundary(k) == IF wm[k][2] > 0 THEN wm[k][2] ELSE hello[k]
CursorsAt(k) ==
    /\ wm[k][1] > 0 => wm[k][2] > 0
    /\ hello[k] <= Len(store)
    /\ pc[k] \notin {"idle", "insert", "closeOld", "gone"} => Boundary(k) <= due[k]
    /\ pc[k] = "select" => hist[k].floor <= due[k]
    /\ pc[k] = "select" => ~hist[k].more /\ (hist[k].ceiling = 0 => hist[k].floor = due[k])
    /\ \A n \in hist[k].todo : hist[k].oldest <= n

Cursors == \A k \in Conn : CursorsAt(k)

-----------------------------------------------------------------------------
(* What Add stores, and what it leaves in the log.                          *)
LEMMA Stored ==
    ASSUME Typed, NEW t \in Thread, Add(t)
    PROVE  /\ Len(store) \in Nat /\ Len(store') = Len(store) + 1
           /\ \A n \in 1..Len(store) : store'[n] = store[n]
           /\ store'[Len(store) + 1].kind = draft[t].kind
           /\ store'[Len(store) + 1].by = draft[t].by
           /\ store'[Len(store) + 1].msg =
                 IF draft[t].kind \in {"added", "upload"} THEN Len(store) + 1 ELSE draft[t].msg
<1> DEFINE e == IF draft[t].kind \in {"added", "upload"}
                THEN [draft[t] EXCEPT !.msg = Len(store) + 1] ELSE draft[t]
<1>1. draft[t] \in Event /\ Len(store) \in Nat /\ store \in Seq(Event)
  BY LenProperties DEF Typed, TypeOK
<1>2. /\ e \in Event /\ e.kind = draft[t].kind /\ e.by = draft[t].by
      /\ e.msg = IF draft[t].kind \in {"added", "upload"} THEN Len(store) + 1 ELSE draft[t].msg
  BY <1>1 DEF Event
<1>3. store' = Append(store, e)
  BY DEF Add
<1> HIDE DEF e
<1>4. /\ Len(store') = Len(store) + 1 /\ store'[Len(store) + 1] = e
      /\ \A n \in 1..Len(store) : store'[n] = store[n]
  BY <1>1, <1>2, <1>3, AppendProperties
<1> QED BY <1>1, <1>2, <1>4

LEMMA LogStep == Typed /\ LogInv /\ DraftInv /\ [Next]_vars => LogInv'
<1> SUFFICES ASSUME Typed, LogInv, DraftInv, [Next]_vars PROVE LogInv'
  OBVIOUS
<1> USE DEF storeVars, roomVars, givenVars, sendVars, castVars, connVars
<1>1. ASSUME UNCHANGED <<store, uploading>> PROVE LogInv'
  BY <1>1 DEF LogInv, AboutMessage, IsMessage
<1>2. ASSUME NEW k \in Conn, NEW w \in Watermarks, Connect(k, w) PROVE LogInv'
  BY <1>1, <1>2 DEF Connect
<1>3. ASSUME NEW k \in Conn, HandlerStep(k) PROVE LogInv'
  BY <1>1, <1>3 DEF HandlerStep, Insert, CloseOld, Select, SendPage, EndPage, Snapshot,
                    KickClient, KickClose, Unregister
<1>4. ASSUME NEW k \in Conn, CommandStep(k) PROVE LogInv'
  BY <1>1, <1>4 DEF CommandStep, SendText, UpdateClient, LoadHistory, RecallMessage, KickHost
<1>5. ASSUME NEW k \in Conn, Lose(k) \/ Stall(k) \/ WritePump(k) PROVE LogInv'
  BY <1>1, <1>5 DEF Lose, Stall, WritePump
<1>6. ASSUME NEW t \in Thread, Add(t) PROVE LogInv'
  <2>0. PICK n \in Nat : n = Len(store) + 1
    BY LenProperties DEF Typed, TypeOK
  <2>1. /\ Len(store) \in Nat /\ Len(store') = n
        /\ \A i \in 1..Len(store) : store'[i] = store[i]
        /\ store'[n].kind = draft[t].kind /\ store'[n].by = draft[t].by
        /\ store'[n].msg = IF draft[t].kind \in {"added", "upload"} THEN n ELSE draft[t].msg
    BY <1>6, <2>0, Stored
  <2>2. uploading' = (IF draft[t].kind = "upload" THEN uploading \cup {n} ELSE uploading)
    BY <1>6, <2>0 DEF Add
  <2>3. pc[t] = "add" /\ draft[t].kind \in Kind
    BY <1>6 DEF Add, Typed, TypeOK, Event
  <2>4. \A i \in 1..Len(store) : store[i].kind = "updated" =>
           store[i].msg \in 1..Len(store) /\ store[i].msg \notin uploading
    BY DEF LogInv, IsMessage, AboutMessage
  <2>5. \A m \in uploading' : m \in 1..n /\ store'[m].kind = "upload"
    BY <2>0, <2>1, <2>2 DEF LogInv
  <2>6. ASSUME NEW i \in 1..Len(store)
        PROVE  /\ store'[i].kind # "presence" => AboutMessage(store[i])'
               /\ store'[i].kind \in {"added", "upload"} => store'[i].msg = i
               /\ store'[i].kind = "updated" => store'[i].msg \notin uploading'
    <3>1. store[i].kind # "presence" => AboutMessage(store[i])
      BY DEF LogInv, IsMessage
    <3>2. store[i].kind # "presence" => AboutMessage(store[i])'
      BY <2>0, <2>1, <3>1 DEF AboutMessage
    <3>3. n \notin 1..Len(store)
      BY <2>0, <2>1
    <3> QED BY <2>1, <2>2, <2>4, <3>2, <3>3 DEF LogInv
  <2>7. /\ store'[n].kind # "presence" => AboutMessage(store[n])'
        /\ store'[n].kind \in {"added", "upload"} => store'[n].msg = n
        /\ store'[n].kind = "updated" => store'[n].msg \notin uploading'
    <3>1. CASE draft[t].kind \in {"added", "upload"}
      BY <2>0, <2>1, <3>1 DEF AboutMessage
    <3>2. CASE draft[t].kind \in {"updated", "recalled"}
      <4>1. AboutMessage(draft[t]) /\ (draft[t].kind = "updated" => draft[t].msg \notin uploading)
        BY <2>3, <3>2 DEF DraftInv, Drafted
      <4> QED BY <2>1, <2>2, <2>0, <3>2, <4>1 DEF AboutMessage
    <3>3. CASE draft[t].kind = "presence"
      BY <2>1, <3>3
    <3> QED BY <2>3, <3>1, <3>2, <3>3 DEF Kind
  <2>8. \A i \in 1..n : i \in 1..Len(store) \/ i = n
    BY <2>0, <2>1
  <2> QED BY <2>1, <2>5, <2>6, <2>7, <2>8 DEF LogInv, IsMessage
<1>7. ASSUME NEW t \in Thread, FanStart(t) \/ FanSend(t) \/ FanDone(t) PROVE LogInv'
  BY <1>1, <1>7 DEF FanStart, FanSend, FanDone
<1>8. ASSUME NEW x \in Worker, UploadStep(x) PROVE LogInv'
  <2>1. store' = store /\ uploading' \subseteq uploading
    BY <1>8 DEF UploadStep, UploadInit, UploadComplete, UploadFail
  <2> QED BY <2>1 DEF LogInv, AboutMessage, IsMessage
<1>9. CASE UNCHANGED vars
  BY <1>1, <1>9 DEF vars
<1> QED BY <1>2, <1>3, <1>4, <1>5, <1>6, <1>7, <1>8, <1>9 DEF Next, BroadcastStep, Terminated

(* A thread that a step leaves alone keeps its part. *)
Alone(t) ==
    /\ pc'[t] = pc[t] /\ draft'[t] = draft[t] /\ notice'[t] = notice[t]
    /\ resume'[t] = resume[t] /\ cur'[t] = cur[t]

LEMMA DraftedAlone ==
    ASSUME NEW t \in Thread, Drafted(t), Alone(t), store' = store, uploading' \subseteq uploading
    PROVE  Drafted(t)'
BY DEF Drafted, Alone, AboutMessage, Announced

LEMMA DraftStep == Typed /\ LogInv /\ DraftInv /\ [Next]_vars => DraftInv'
<1> SUFFICES ASSUME Typed, LogInv, DraftInv, [Next]_vars PROVE DraftInv'
  OBVIOUS
<1> USE DEF storeVars, roomVars, givenVars, sendVars, castVars, connVars, Goto
<1>0. /\ pc \in [Thread -> PC] /\ draft \in [Thread -> Event] /\ notice \in [Thread -> BOOLEAN]
      /\ resume \in [Thread -> {"ready", "stream", "kickClose", "gone"}]
      /\ cur \in [Thread -> Nat]
  BY DEF Typed, TypeOK
<1>a. ASSUME NEW t \in Thread, Drafted(t)', \A u \in Thread \ {t} : Alone(u),
             store' = store, uploading' \subseteq uploading
      PROVE  DraftInv'
  BY <1>a, DraftedAlone DEF DraftInv
<1>b. ASSUME NEW k \in Conn, Drafted(k)', \A u \in Thread \ {k} : Alone(u),
             store' = store, uploading' = uploading
      PROVE  DraftInv'
  BY <1>a, <1>b
<1>1. ASSUME NEW k \in Conn, NEW w \in Watermarks, Connect(k, w) PROVE DraftInv'
  <2>1. \A u \in Thread \ {k} : Alone(u)
    BY <1>0, <1>1 DEF Connect, Alone
  <2>2. Drafted(k)'
    BY <1>0, <1>1, ThreadAssumption DEF Connect, DraftInv, Drafted
  <2> QED BY <1>1, <1>b, <2>1, <2>2 DEF Connect
<1>2. ASSUME NEW k \in Conn,
             Insert(k) \/ CloseOld(k) \/ Select(k) \/ SendPage(k) \/ EndPage(k) \/ KickClose(k)
      PROVE  DraftInv'
  <2>1. \A u \in Thread \ {k} : Alone(u)
    BY <1>0, <1>2 DEF Insert, CloseOld, Select, SendPage, EndPage, KickClose, Alone
  <2>2. Drafted(k)'
    BY <1>0, <1>2, ThreadAssumption
       DEF Insert, CloseOld, Select, SendPage, EndPage, KickClose, DraftInv, Drafted
  <2> QED BY <1>2, <1>b, <2>1, <2>2 DEF Insert, CloseOld, Select, SendPage, EndPage, KickClose
<1>3. ASSUME NEW k \in Conn, Snapshot(k) PROVE DraftInv'
  <2>1. \A u \in Thread \ {k} : Alone(u)
    BY <1>0, <1>3 DEF Snapshot, Alone
  <2>2. Drafted(k)'
    BY <1>0, <1>3, ThreadAssumption DEF Snapshot, PresenceEvent, DraftInv, Drafted
  <2> QED BY <1>3, <1>b, <2>1, <2>2 DEF Snapshot
<1>4. ASSUME NEW k \in Conn, KickClient(k) PROVE DraftInv'
  <2>1. \A u \in Thread \ {k} : Alone(u)
    BY <1>0, <1>4 DEF KickClient, Broadcast, Alone
  <2>2. Drafted(k)'
    BY <1>0, <1>4, ThreadAssumption DEF KickClient, Broadcast, MessageEvent, DraftInv, Drafted
  <2> QED BY <1>4, <1>b, <2>1, <2>2 DEF KickClient
<1>5. ASSUME NEW k \in Conn, Unregister(k) PROVE DraftInv'
  <2>1. \A u \in Thread \ {k} : Alone(u)
    BY <1>0, <1>5 DEF Unregister, Alone
  <2>2. Drafted(k)'
    BY <1>0, <1>5, ThreadAssumption DEF Unregister, DraftInv, Drafted
  <2> QED BY <1>5, <1>b, <2>1, <2>2 DEF Unregister
<1>6. ASSUME NEW k \in Conn, SendText(k) \/ UpdateClient(k) \/ LoadHistory(k)
      PROVE  DraftInv'
  <2>1. \A u \in Thread \ {k} : Alone(u)
    BY <1>0, <1>6 DEF SendText, UpdateClient, LoadHistory, Command, Broadcast, Alone
  <2>2. Drafted(k)'
    BY <1>0, <1>6, ThreadAssumption
       DEF SendText, UpdateClient, LoadHistory, Command, Broadcast, MessageEvent, DraftInv, Drafted
  <2> QED BY <1>6, <1>b, <2>1, <2>2 DEF SendText, UpdateClient, LoadHistory
<1>7. ASSUME NEW k \in Conn, NEW v \in Conn, KickHost(k, v) PROVE DraftInv'
  <2>1. \A u \in Thread \ {k} : Alone(u)
    BY <1>0, <1>7 DEF KickHost, Alone
  <2>2. Drafted(k)'
    BY <1>0, <1>7, ThreadAssumption DEF KickHost, DraftInv, Drafted
  <2> QED BY <1>7, <1>b, <2>1, <2>2 DEF KickHost
<1>8. ASSUME NEW k \in Conn, NEW m \in 1..Len(store), RecallMessage(k, m) PROVE DraftInv'
  <2>1. store[m].msg = m /\ store[m].kind \in {"added", "upload"} /\ store[m].by = PeerOf[k]
    BY <1>8 DEF RecallMessage, LogInv
  <2>2. \A u \in Thread \ {k} : Alone(u)
    BY <1>0, <1>8 DEF RecallMessage, Broadcast, Alone
  <2>3. Drafted(k)'
    BY <1>0, <1>8, <2>1, ThreadAssumption
       DEF RecallMessage, Broadcast, MessageEvent, DraftInv, Drafted, AboutMessage
  <2> QED BY <1>8, <1>b, <2>2, <2>3 DEF RecallMessage
<1>9. ASSUME NEW k \in Conn, Lose(k) \/ Stall(k) \/ WritePump(k) PROVE DraftInv'
  <2>1. (\A u \in Thread : Alone(u)) /\ store' = store /\ uploading' = uploading
    BY <1>9 DEF Lose, Stall, WritePump, Alone
  <2> QED BY <2>1, DraftedAlone DEF DraftInv
<1>10. ASSUME NEW t \in Thread, Add(t) PROVE DraftInv'
  <2>0. PICK n \in Nat : n = Len(store) + 1
    BY LenProperties DEF Typed, TypeOK
  <2>1. /\ Len(store) \in Nat /\ Len(store') = n
        /\ \A i \in 1..Len(store) : store'[i] = store[i]
        /\ store'[n].kind = draft[t].kind /\ store'[n].by = draft[t].by
    BY <1>10, <2>0, Stored
  <2>2. /\ uploading' \subseteq uploading \cup {n}
        /\ pc[t] = "add" /\ pc' = [pc EXCEPT ![t] = "lock"]
        /\ cur' = [cur EXCEPT ![t] = n]
        /\ UNCHANGED <<notice, resume>>
    BY <1>10, <2>0 DEF Add
  <2>3. \A u \in Thread \ {t} : Alone(u)
    BY <1>0, <1>10 DEF Add, Alone
  <2>4. ASSUME NEW u \in Thread \ {t} PROVE Drafted(u)'
    BY <2>0, <2>1, <2>2, <2>3, <2>4 DEF DraftInv, Drafted, Alone, AboutMessage, Announced
  <2>5. Drafted(t)'
    BY <1>0, <2>0, <2>1, <2>2 DEF DraftInv, Drafted, Announced
  <2> QED BY <2>4, <2>5 DEF DraftInv
<1>11. ASSUME NEW t \in Thread, FanStart(t) \/ FanSend(t) PROVE DraftInv'
  <2>1. \A u \in Thread \ {t} : Alone(u)
    BY <1>0, <1>11 DEF FanStart, FanSend, Alone
  <2>2. Drafted(t)'
    BY <1>0, <1>11 DEF FanStart, FanSend, DraftInv, Drafted, Announced
  <2> QED BY <1>11, <1>a, <2>1, <2>2 DEF FanStart, FanSend
<1>12. ASSUME NEW t \in Thread, FanDone(t) PROVE DraftInv'
  <2>1. \A u \in Thread \ {t} : Alone(u)
    BY <1>0, <1>12 DEF FanDone, Alone
  <2>2. Drafted(t)'
    <3>0. /\ Drafted(t) /\ pc[t] = "fan" /\ notice'[t] = FALSE
          /\ UNCHANGED <<store, uploading, cur, resume>>
      BY <1>0, <1>12 DEF FanDone, DraftInv
    <3>1. CASE notice[t]
      <4>1. draft'[t].kind = "added" /\ pc'[t] = "add" /\ t \notin Worker
        BY <1>0, <1>12, <3>0, <3>1 DEF FanDone, MessageEvent, Drafted
      <4> QED BY <3>0, <4>1 DEF Drafted
    <3>2. CASE ~notice[t]
      <4>1. pc'[t] = resume[t] /\ draft'[t] = draft[t]
        BY <1>0, <1>12, <3>2 DEF FanDone
      <4> QED BY <1>0, <3>0, <4>1 DEF Drafted, Announced
    <3> QED BY <3>1, <3>2
  <2> QED BY <1>12, <1>a, <2>1, <2>2 DEF FanDone
<1>13. ASSUME NEW x \in Worker, UploadInit(x) \/ UploadFail(x) PROVE DraftInv'
  <2>1. \A u \in Thread \ {x} : Alone(u)
    BY <1>0, <1>13 DEF UploadInit, UploadFail, Broadcast, Alone
  <2>2. Drafted(x)'
    BY <1>0, <1>13, ThreadAssumption
       DEF UploadInit, UploadFail, Broadcast, MessageEvent, DraftInv, Drafted
  <2> QED BY <1>13, <1>a, <2>1, <2>2 DEF UploadInit, UploadFail
<1>14. ASSUME NEW x \in Worker, UploadComplete(x) PROVE DraftInv'
  <2>1. Announced(x) /\ store[cur[x]].msg = cur[x]
    BY <1>14 DEF UploadComplete, LogInv, DraftInv, Drafted, Announced
  <2>2. \A u \in Thread \ {x} : Alone(u)
    BY <1>0, <1>14 DEF UploadComplete, Broadcast, Alone
  <2>3. Drafted(x)'
    BY <1>0, <1>14, <2>1, ThreadAssumption
       DEF UploadComplete, Broadcast, MessageEvent, DraftInv, Drafted, Announced, AboutMessage
  <2> QED BY <1>14, <1>a, <2>2, <2>3 DEF UploadComplete
<1>15. CASE UNCHANGED vars
  <2>1. (\A u \in Thread : Alone(u)) /\ store' = store /\ uploading' = uploading
    BY <1>15 DEF vars, Alone
  <2> QED BY <2>1, DraftedAlone DEF DraftInv
<1> QED BY <1>1, <1>2, <1>3, <1>4, <1>5, <1>6, <1>7, <1>8, <1>9, <1>10, <1>11, <1>12, <1>13,
           <1>14, <1>15
        DEF Next, HandlerStep, BroadcastStep, CommandStep, UploadStep, Terminated

-----------------------------------------------------------------------------
(* What a Send does                                                         *)

(* A Send gives the event to its client or leaves what it has been given,   *)
(* and a client that is still online afterwards has accepted it.            *)
LEMMA SendEffect ==
    ASSUME Typed, NEW c \in Conn, NEW ns \in SUBSET (1..Len(store)), Send(c, ns)
    PROVE  /\ \A k \in Conn : link'[k] = link[k] \/ (link[k] = "full" /\ link'[k] = "closed")
           /\ \A k \in Conn \ {c} : pushed'[k] = pushed[k] /\ seen'[k] = seen[k]
                                      /\ link'[k] = link[k]
           /\ pushed[c] \subseteq pushed'[c] /\ pushed'[c] \subseteq pushed[c] \cup ns
           /\ Online(c)' => ns \subseteq pushed'[c]
           /\ \A m \in seen'[c] \ seen[c] :
                 /\ m \notin recalled /\ ns \subseteq pushed'[c]
                 /\ \E n \in ns : IsMessage(n) /\ store[n].msg = m
<1>0. /\ link \in [Conn -> {"none", "up", "full", "lost", "closed", "replaced"}]
      /\ pushed \in [Conn -> SUBSET Nat] /\ seen \in [Conn -> SUBSET Nat]
  BY DEF Typed, TypeOK
<1>1. CASE ~Alive(c) /\ UNCHANGED sendVars
  BY <1>0, <1>1 DEF sendVars, Alive, Online
<1>2. CASE link[c] = "full" /\ link' = Shut({c}, "closed") /\ UNCHANGED givenVars
  BY <1>0, <1>2 DEF givenVars, Shut, Alive, Online
<1>3. CASE /\ link[c] \in {"up", "lost"} /\ UNCHANGED link
           /\ pushed' = [pushed EXCEPT ![c] = @ \cup ns]
           /\ seen' = [seen EXCEPT ![c] = @ \cup
                         ({store[n].msg : n \in {i \in ns : IsMessage(i)}} \ recalled)]
  BY <1>0, <1>3 DEF Online
<1> QED BY <1>1, <1>2, <1>3 DEF Send

LEMMA SendPageEffect ==
    ASSUME Typed, NEW k \in Conn, SendPage(k)
    PROVE  \E n \in Oldest(hist[k].todo) :
              /\ n \in 1..Len(store)
              /\ \/ isEventVisibleTo(k, n) /\ Send(k, {n})
                 \/ ~isEventVisibleTo(k, n) /\ UNCHANGED sendVars
              /\ hist'[k].todo = hist[k].todo \ {n}
              /\ hist'[k].oldest \in {hist[k].oldest, n}
              /\ hist'[k].more = hist[k].more
              /\ hist'[k].ceiling = hist[k].ceiling /\ hist'[k].floor = hist[k].floor
              /\ \A c \in Conn \ {k} : hist'[c] = hist[c]
<1>0. hist \in [Conn -> Page]
  BY DEF Typed, TypeOK
<1>1. PICK n \in Oldest(hist[k].todo) :
         \/ /\ isEventVisibleTo(k, n) /\ Send(k, {n})
            /\ hist' = [hist EXCEPT ![k].todo = @ \ {n}, ![k].sent = TRUE,
                          ![k].oldest = IF hist[k].sent THEN @ ELSE n]
         \/ /\ ~isEventVisibleTo(k, n) /\ UNCHANGED sendVars
            /\ hist' = [hist EXCEPT ![k].todo = @ \ {n}]
  BY DEF SendPage
<1>2. n \in 1..Len(store)
  BY <1>1 DEF Oldest, Typed, WellPlaced
<1>3. /\ \/ hist'[k] = [hist[k] EXCEPT !.todo = @ \ {n}, !.sent = TRUE,
                           !.oldest = IF hist[k].sent THEN @ ELSE n]
         \/ hist'[k] = [hist[k] EXCEPT !.todo = @ \ {n}]
      /\ \A c \in Conn \ {k} : hist'[c] = hist[c]
  BY <1>0, <1>1
<1>4. hist[k] \in Page /\ n \in Nat
  BY <1>0, <1>2, LenProperties DEF Typed, TypeOK
<1>5. /\ hist'[k].todo = hist[k].todo \ {n}
      /\ hist'[k].oldest \in {hist[k].oldest, n}
      /\ hist'[k].more = hist[k].more
      /\ hist'[k].ceiling = hist[k].ceiling /\ hist'[k].floor = hist[k].floor
  BY <1>3, <1>4 DEF Page
<1>6. \/ isEventVisibleTo(k, n) /\ Send(k, {n})
      \/ ~isEventVisibleTo(k, n) /\ UNCHANGED sendVars
  BY <1>1
<1>7. n \in Oldest(hist[k].todo) /\ \A c \in Conn \ {k} : hist'[c] = hist[c]
  BY <1>1, <1>3
<1> QED BY <1>2, <1>5, <1>6, <1>7

LEMMA FanSendEffect ==
    ASSUME Typed, NEW t \in Thread, FanSend(t)
    PROVE  \E c \in left[t] :
              /\ c \in Conn /\ cur[t] \in 1..Len(store)
              /\ left'[t] = left[t] \ {c} /\ \A u \in Thread \ {t} : left'[u] = left[u]
              /\ \/ isEventVisibleTo(c, cur[t]) /\ Send(c, {cur[t]})
                 \/ ~isEventVisibleTo(c, cur[t]) /\ UNCHANGED sendVars
BY DEF FanSend, Typed, TypeOK, WellPlaced

LEMMA JoiningStep == Typed /\ ReadersHold /\ Joining /\ [Next]_vars => Joining'
<1> SUFFICES ASSUME Typed, ReadersHold, Joining, [Next]_vars PROVE Joining'
  OBVIOUS
<1> USE DEF storeVars, roomVars, givenVars, castVars, connVars, Goto, Joining
<1>0. /\ pc \in [Thread -> PC] /\ clients \subseteq Conn /\ hist \in [Conn -> Page]
      /\ resume \in [Thread -> {"ready", "stream", "kickClose", "gone"}]
      /\ link \in [Conn -> {"none", "up", "full", "lost", "closed", "replaced"}]
      /\ pushed \in [Conn -> SUBSET Nat] /\ seen \in [Conn -> SUBSET Nat]
      /\ NoPage.todo = {}
  BY EventTypes DEF Typed, TypeOK
<1>1. ASSUME NEW k \in Conn, NEW w \in Watermarks, Connect(k, w) PROVE Joining'
  BY <1>0, <1>1 DEF Connect
<1>2. ASSUME NEW k \in Conn, Insert(k) PROVE Joining'
  BY <1>0, <1>2 DEF Insert, sendVars
<1>3. ASSUME NEW k \in Conn, CloseOld(k) PROVE Joining'
  <2>1. \A c \in Conn : link'[c] = "none" <=> link[c] = "none"
    BY <1>0, <1>3 DEF CloseOld, Shut, Alive
  <2>2. hist'[k].todo = {} /\ \A c \in Conn \ {k} : hist'[c] = hist[c]
    BY <1>0, <1>3 DEF CloseOld, NoPage
  <2> QED BY <1>0, <1>3, <2>1, <2>2 DEF CloseOld
<1>4. ASSUME NEW k \in Conn, Select(k) PROVE Joining'
  BY <1>0, <1>4 DEF Select, sendVars
<1>5. ASSUME NEW k \in Conn, SendPage(k) PROVE Joining'
  <2>1. /\ \A c \in Conn : link'[c] = "none" <=> link[c] = "none"
        /\ \A c \in Conn \ {k} : pushed'[c] = pushed[c] /\ seen'[c] = seen[c]
                                   /\ hist'[c] = hist[c]
    <3>1. PICK n \in 1..Len(store) :
             /\ Send(k, {n}) \/ UNCHANGED sendVars
             /\ \A c \in Conn \ {k} : hist'[c] = hist[c]
      BY <1>5, SendPageEffect
    <3>2. CASE Send(k, {n})
      <4>1. {n} \in SUBSET (1..Len(store))
        OBVIOUS
      <4> QED BY <3>1, <3>2, <4>1, SendEffect
    <3>3. CASE UNCHANGED sendVars
      BY <3>1, <3>3 DEF sendVars
    <3> QED BY <3>1, <3>2, <3>3
  <2> QED BY <1>0, <1>5, <2>1 DEF SendPage
<1>6. ASSUME NEW k \in Conn, EndPage(k) PROVE Joining'
  <2>1. /\ \A c \in Conn : link'[c] = "none" <=> link[c] = "none"
        /\ \A c \in Conn \ {k} : pushed'[c] = pushed[c] /\ seen'[c] = seen[c]
    BY <1>6, SendEffect DEF EndPage
  <2> QED BY <1>0, <1>6, <2>1 DEF EndPage
<1>7. ASSUME NEW k \in Conn, Snapshot(k) PROVE Joining'
  BY <1>0, <1>7 DEF Snapshot, sendVars
<1>8. ASSUME NEW k \in Conn, KickClient(k) PROVE Joining'
  BY <1>0, <1>8 DEF KickClient, Broadcast, sendVars
<1>9. ASSUME NEW k \in Conn, KickClose(k) PROVE Joining'
  BY <1>0, <1>9 DEF KickClose, Shut, Alive
<1>10. ASSUME NEW k \in Conn, Unregister(k) PROVE Joining'
  BY <1>0, <1>10 DEF Unregister, Shut, Alive
<1>11. ASSUME NEW k \in Conn, SendText(k) \/ UpdateClient(k) \/ LoadHistory(k) PROVE Joining'
  <2>1. \A c \in Conn : hist'[c].todo = {} \/ hist'[c] = hist[c]
    <3>1. CASE LoadHistory(k)
      <4>1. hist'[k] = [NoPage EXCEPT !.floor = IF wm[k][2] > 0 THEN wm[k][2] ELSE hello[k],
                                      !.ceiling = hist[k].oldest]
            /\ \A c \in Conn \ {k} : hist'[c] = hist[c]
        BY <1>0, <3>1 DEF LoadHistory
      <4> QED BY <4>1 DEF NoPage
    <3> QED BY <1>11, <3>1 DEF SendText, UpdateClient
  <2> QED BY <1>0, <1>11, <2>1
          DEF SendText, UpdateClient, LoadHistory, Command, Broadcast, sendVars
<1>12. ASSUME NEW k \in Conn, NEW m \in 1..Len(store), RecallMessage(k, m) PROVE Joining'
  BY <1>0, <1>12 DEF RecallMessage, Command, Broadcast, sendVars
<1>13. ASSUME NEW k \in Conn, NEW v \in Conn, KickHost(k, v) PROVE Joining'
  BY <1>0, <1>13 DEF KickHost, Command, sendVars
<1>14. ASSUME NEW k \in Conn, Lose(k) \/ Stall(k) \/ WritePump(k) PROVE Joining'
  BY <1>0, <1>14 DEF Lose, Stall, WritePump, Shut, Alive, Online
<1>15. ASSUME NEW t \in Thread, Add(t) \/ FanStart(t) \/ FanDone(t) PROVE Joining'
  BY <1>0, <1>15 DEF Add, FanStart, FanDone, sendVars
<1>16. ASSUME NEW t \in Thread, FanSend(t) PROVE Joining'
  <2>1. PICK d \in left[t] :
           /\ d \in clients
           /\ \A c \in Conn : link'[c] = "none" <=> link[c] = "none"
           /\ \A c \in Conn \ {d} : pushed'[c] = pushed[c] /\ seen'[c] = seen[c]
    <3>1. PICK d \in left[t] :
             /\ d \in Conn /\ cur[t] \in 1..Len(store)
             /\ Send(d, {cur[t]}) \/ UNCHANGED sendVars
      BY <1>16, FanSendEffect
    <3>2. d \in clients
      BY <3>1 DEF ReadersHold
    <3>3. CASE Send(d, {cur[t]})
      <4>1. {cur[t]} \in SUBSET (1..Len(store))
        BY <3>1
      <4> QED BY <3>1, <3>2, <3>3, <4>1, SendEffect
    <3>4. CASE UNCHANGED sendVars
      BY <3>2, <3>4 DEF sendVars
    <3> QED BY <3>1, <3>3, <3>4
  <2> QED BY <1>0, <1>16, <2>1 DEF FanSend
<1>17. ASSUME NEW x \in Worker, UploadStep(x) PROVE Joining'
  <2>1. \A k \in Conn : pc'[k] = pc[k]
    BY <1>0, <1>17, ThreadAssumption DEF UploadStep, UploadInit, UploadComplete, UploadFail, Broadcast
  <2> QED BY <1>0, <1>17, <2>1 DEF UploadStep, UploadInit, UploadComplete, UploadFail, sendVars
<1>18. CASE UNCHANGED vars
  BY <1>18 DEF vars
<1> QED BY <1>1, <1>2, <1>3, <1>4, <1>5, <1>6, <1>7, <1>8, <1>9, <1>10, <1>11, <1>12, <1>13,
           <1>14, <1>15, <1>16, <1>17, <1>18
        DEF Next, HandlerStep, BroadcastStep, CommandStep, UploadStep, Terminated

-----------------------------------------------------------------------------
(* What every step does to the log and to what connections were given       *)

(* The log and what a connection was given only grow, and a message is seen *)
(* only when an event about it is given, before its recall.                 *)
Growing ==
    /\ Len(store) <= Len(store')
    /\ \A n \in 1..Len(store) : store'[n] = store[n]
    /\ \A k \in Conn : pushed[k] \subseteq pushed'[k]
    /\ \A k \in Conn : \A m \in seen'[k] \ seen[k] :
          /\ m \notin recalled'
          /\ \E n \in pushed'[k] : n \in 1..Len(store) /\ IsMessage(n) /\ store[n].msg = m

LEMMA SendGrows ==
    ASSUME Typed, NEW c \in Conn, NEW ns \in SUBSET (1..Len(store)),
           Send(c, ns) \/ UNCHANGED sendVars, UNCHANGED storeVars
    PROVE  Growing
<1>0. Len(store) \in Nat
  BY LenProperties DEF Typed, TypeOK
<1>1. CASE Send(c, ns)
  <2>1. /\ \A k \in Conn \ {c} : pushed'[k] = pushed[k] /\ seen'[k] = seen[k]
        /\ pushed[c] \subseteq pushed'[c]
        /\ \A m \in seen'[c] \ seen[c] :
              /\ m \notin recalled /\ ns \subseteq pushed'[c]
              /\ \E n \in ns : IsMessage(n) /\ store[n].msg = m
    BY <1>1, SendEffect
  <2>2. ASSUME NEW m \in seen'[c] \ seen[c]
        PROVE  \E n \in pushed'[c] : n \in 1..Len(store) /\ IsMessage(n) /\ store[n].msg = m
    BY <2>1, <2>2
  <2> QED BY <1>0, <2>1, <2>2 DEF Growing, storeVars
<1>2. CASE UNCHANGED sendVars
  BY <1>0, <1>2 DEF Growing, storeVars, sendVars
<1> QED BY <1>1, <1>2

LEMMA GrowingStep == Typed /\ [Next]_vars => Growing
<1> SUFFICES ASSUME Typed, [Next]_vars PROVE Growing
  OBVIOUS
<1> USE DEF roomVars, givenVars, castVars, connVars
<1>0. Len(store) \in Nat
  BY LenProperties DEF Typed, TypeOK
<1>a. ASSUME store' = store, pushed' = pushed, seen' = seen PROVE Growing
  BY <1>0, <1>a DEF Growing
<1>1. ASSUME NEW k \in Conn, NEW w \in Watermarks, Connect(k, w) PROVE Growing
  BY <1>a, <1>1 DEF Connect, storeVars
<1>2. ASSUME NEW k \in Conn,
             \/ Insert(k) \/ CloseOld(k) \/ Select(k) \/ Snapshot(k)
             \/ KickClient(k) \/ KickClose(k) \/ Unregister(k)
      PROVE  Growing
  BY <1>a, <1>2 DEF Insert, CloseOld, Select, Snapshot, KickClient, KickClose, Unregister,
                    storeVars, sendVars
<1>3. ASSUME NEW k \in Conn, SendPage(k) PROVE Growing
  <2>1. PICK n \in 1..Len(store) : Send(k, {n}) \/ UNCHANGED sendVars
    BY <1>3, SendPageEffect
  <2>2. {n} \in SUBSET (1..Len(store)) /\ UNCHANGED storeVars
    BY <1>3 DEF SendPage
  <2> QED BY <2>1, <2>2, SendGrows
<1>4. ASSUME NEW k \in Conn, EndPage(k) PROVE Growing
  BY <1>4, SendGrows DEF EndPage
<1>5. ASSUME NEW k \in Conn, CommandStep(k) PROVE Growing
  BY <1>a, <1>5 DEF CommandStep, SendText, UpdateClient, LoadHistory, RecallMessage, KickHost,
                    storeVars, sendVars
<1>6. ASSUME NEW k \in Conn, Lose(k) \/ Stall(k) \/ WritePump(k) PROVE Growing
  BY <1>a, <1>6 DEF Lose, Stall, WritePump, storeVars
<1>7. ASSUME NEW t \in Thread, Add(t) PROVE Growing
  BY <1>7, Stored DEF Add, Growing, sendVars
<1>8. ASSUME NEW t \in Thread, FanStart(t) \/ FanDone(t) PROVE Growing
  BY <1>a, <1>8 DEF FanStart, FanDone, storeVars, sendVars
<1>9. ASSUME NEW t \in Thread, FanSend(t) PROVE Growing
  <2>1. PICK c \in left[t] : /\ c \in Conn /\ cur[t] \in 1..Len(store)
                             /\ Send(c, {cur[t]}) \/ UNCHANGED sendVars
    BY <1>9, FanSendEffect
  <2>2. {cur[t]} \in SUBSET (1..Len(store)) /\ UNCHANGED storeVars
    BY <1>9, <2>1 DEF FanSend
  <2> QED BY <2>1, <2>2, SendGrows
<1>10. ASSUME NEW x \in Worker, UploadStep(x) PROVE Growing
  BY <1>a, <1>10 DEF UploadStep, UploadInit, UploadComplete, UploadFail, storeVars, sendVars
<1>11. CASE UNCHANGED vars
  BY <1>a, <1>11 DEF vars
<1> QED BY <1>1, <1>2, <1>3, <1>4, <1>5, <1>6, <1>7, <1>8, <1>9, <1>10, <1>11
        DEF Next, HandlerStep, BroadcastStep, Terminated

LEMMA SeenStep == Typed /\ SeenInv /\ [Next]_vars => SeenInv'
<1> SUFFICES ASSUME Typed, SeenInv, [Next]_vars, NEW k \in Conn, NEW m \in seen'[k]
             PROVE  \E n \in pushed'[k] : IsMessage(n)' /\ store'[n].msg = m
  BY DEF SeenInv
<1>1. Growing
  BY GrowingStep
<1>2. PICK n \in pushed'[k] : n \in 1..Len(store) /\ IsMessage(n) /\ store[n].msg = m
  <2>1. CASE m \in seen[k]
    BY <1>1, <2>1 DEF Growing, SeenInv, Typed, WellPlaced
  <2>2. CASE m \notin seen[k]
    BY <1>1, <2>2 DEF Growing
  <2> QED BY <2>1, <2>2
<1> QED BY <1>1, <1>2 DEF Growing, IsMessage

(* A client of the room that is online was online before, and nobody but a  *)
(* connection that has been given nothing yet enters the room.              *)
LEMMA OnlineBefore ==
    ASSUME Typed, Joining, [Next]_vars, NEW k \in clients', Online(k)'
    PROVE  \/ k \in clients /\ Online(k)
           \/ Insert(k) /\ seen'[k] = {} /\ pc'[k] = "closeOld"
<1> USE DEF storeVars, roomVars, givenVars, castVars, connVars, Goto
<1>0. /\ pc \in [Thread -> PC] /\ clients \subseteq Conn
      /\ link \in [Conn -> {"none", "up", "full", "lost", "closed", "replaced"}]
  BY DEF Typed, TypeOK
<1>1. ASSUME NEW c \in Conn, NEW w \in Watermarks, Connect(c, w)
      PROVE  k \in clients /\ Online(k)
  BY <1>0, <1>1 DEF Connect, Joining, Online
<1>2. ASSUME NEW c \in Conn, Insert(c)
      PROVE  \/ k \in clients /\ Online(k)
             \/ Insert(k) /\ seen'[k] = {} /\ pc'[k] = "closeOld"
  BY <1>0, <1>2 DEF Insert, Joining, Online, sendVars
<1>3. ASSUME NEW c \in Conn,
             \/ CloseOld(c) \/ Select(c) \/ Snapshot(c)
             \/ KickClient(c) \/ KickClose(c) \/ Unregister(c)
      PROVE  k \in clients /\ Online(k)
  BY <1>0, <1>3 DEF CloseOld, Select, Snapshot, KickClient, KickClose, Unregister, Shut,
                    Online, sendVars
<1>4. ASSUME NEW c \in Conn, SendPage(c) PROVE k \in clients /\ Online(k)
  <2>1. PICK n \in 1..Len(store) : Send(c, {n}) \/ UNCHANGED sendVars
    BY <1>4, SendPageEffect
  <2>2. {n} \in SUBSET (1..Len(store)) /\ k \in clients
    BY <1>4 DEF SendPage
  <2> QED BY <1>0, <2>1, <2>2, SendEffect DEF sendVars, Online
<1>5. ASSUME NEW c \in Conn, EndPage(c) PROVE k \in clients /\ Online(k)
  BY <1>0, <1>5, SendEffect DEF EndPage, Online
<1>6. ASSUME NEW c \in Conn, CommandStep(c) PROVE k \in clients /\ Online(k)
  BY <1>0, <1>6 DEF CommandStep, SendText, UpdateClient, LoadHistory, RecallMessage, KickHost,
                    Online, sendVars
<1>7. ASSUME NEW c \in Conn, Lose(c) \/ Stall(c) \/ WritePump(c) PROVE k \in clients /\ Online(k)
  BY <1>0, <1>7 DEF Lose, Stall, WritePump, Shut, Online
<1>8. ASSUME NEW t \in Thread, Add(t) \/ FanStart(t) \/ FanDone(t) PROVE k \in clients /\ Online(k)
  BY <1>0, <1>8 DEF Add, FanStart, FanDone, Online, sendVars
<1>9. ASSUME NEW t \in Thread, FanSend(t) PROVE k \in clients /\ Online(k)
  <2>1. PICK c \in left[t] : /\ c \in Conn /\ cur[t] \in 1..Len(store)
                             /\ Send(c, {cur[t]}) \/ UNCHANGED sendVars
    BY <1>9, FanSendEffect
  <2>2. {cur[t]} \in SUBSET (1..Len(store)) /\ k \in clients
    BY <1>9, <2>1 DEF FanSend
  <2> QED BY <1>0, <2>1, <2>2, SendEffect DEF sendVars, Online
<1>10. ASSUME NEW x \in Worker, UploadStep(x) PROVE k \in clients /\ Online(k)
  BY <1>10 DEF UploadStep, UploadInit, UploadComplete, UploadFail, Online, sendVars
<1>11. CASE UNCHANGED vars
  BY <1>11 DEF vars, Online
<1> QED BY <1>1, <1>2, <1>3, <1>4, <1>5, <1>6, <1>7, <1>8, <1>9, <1>10, <1>11
        DEF Next, HandlerStep, BroadcastStep, Terminated

-----------------------------------------------------------------------------
(* What is on its way arrives                                               *)

(* A thread that a step does not take further carries what it carried.      *)
Carrying(t) == pc[t] \in {"add", "lock", "fan"}
Kept(t) ==
    /\ pc'[t] = pc[t] /\ draft'[t] = draft[t] /\ cur'[t] = cur[t] /\ left'[t] = left[t]

(* Only the three steps of a broadcast move a thread that carries an event. *)
LEMMA CarriersKept ==
    ASSUME Typed, [Next]_vars, NEW t \in Thread, Carrying(t)
    PROVE  Kept(t) \/ Add(t) \/ FanStart(t) \/ FanSend(t) \/ FanDone(t)
<1> USE DEF storeVars, roomVars, givenVars, castVars, connVars, Goto, Carrying, Kept
<1>0. /\ pc \in [Thread -> PC] /\ draft \in [Thread -> Event]
      /\ cur \in [Thread -> Nat] /\ left \in [Thread -> SUBSET Conn]
  BY DEF Typed, TypeOK
<1>1. ASSUME NEW k \in Conn, NEW w \in Watermarks, Connect(k, w) PROVE Kept(t)
  BY <1>0, <1>1 DEF Connect
<1>2. ASSUME NEW k \in Conn, HandlerStep(k) PROVE Kept(t)
  BY <1>0, <1>2 DEF HandlerStep, Insert, CloseOld, Select, SendPage, EndPage, Snapshot,
       KickClient, KickClose, Unregister, Broadcast
<1>3. ASSUME NEW k \in Conn, CommandStep(k) PROVE Kept(t)
  BY <1>0, <1>3 DEF CommandStep, SendText, UpdateClient, LoadHistory, RecallMessage, KickHost,
       Command, Broadcast
<1>4. ASSUME NEW k \in Conn, Lose(k) \/ Stall(k) \/ WritePump(k) PROVE Kept(t)
  BY <1>4 DEF Lose, Stall, WritePump
<1>5. ASSUME NEW u \in Thread, BroadcastStep(u)
      PROVE  Kept(t) \/ Add(t) \/ FanStart(t) \/ FanSend(t) \/ FanDone(t)
  BY <1>0, <1>5 DEF BroadcastStep, Add, FanStart, FanSend, FanDone
<1>6. ASSUME NEW x \in Worker, UploadStep(x) PROVE Kept(t)
  BY <1>0, <1>6 DEF UploadStep, UploadInit, UploadComplete, UploadFail, Broadcast
<1>7. CASE UNCHANGED vars
  BY <1>7 DEF vars
<1> QED BY <1>1, <1>2, <1>3, <1>4, <1>5, <1>6, <1>7 DEF Next, Terminated

(* Only SendPage takes an event out of a page that is being sent.           *)
LEMMA PageKept ==
    ASSUME Typed, Joining, [Next]_vars, NEW k \in Conn, hist[k].todo # {}
    PROVE  hist'[k] = hist[k] \/ SendPage(k)
<1> USE DEF connVars, Goto, Joining
<1>0. hist \in [Conn -> Page] /\ pc[k] = "page"
  BY DEF Typed, TypeOK
<1>1. ASSUME NEW c \in Conn, NEW w \in Watermarks, Connect(c, w) PROVE hist'[k] = hist[k]
  BY <1>1 DEF Connect
<1>2. ASSUME NEW c \in Conn, HandlerStep(c) PROVE hist'[k] = hist[k] \/ SendPage(k)
  <2>1. CASE CloseOld(c) \/ Select(c)
    BY <1>0, <2>1 DEF CloseOld, Select
  <2>2. CASE SendPage(c)
    <3>1. \A d \in Conn \ {c} : hist'[d] = hist[d]
      BY <2>2, SendPageEffect
    <3> QED BY <2>2, <3>1
  <2> QED BY <1>2, <2>1, <2>2 DEF HandlerStep, Insert, EndPage, Snapshot, KickClient, KickClose,
                                  Unregister
<1>3. ASSUME NEW c \in Conn, CommandStep(c) PROVE hist'[k] = hist[k]
  BY <1>0, <1>3 DEF CommandStep, SendText, UpdateClient, LoadHistory, RecallMessage, KickHost,
                    Command
<1>4. ASSUME NEW c \in Conn, Lose(c) \/ Stall(c) \/ WritePump(c) PROVE hist'[k] = hist[k]
  BY <1>4 DEF Lose, Stall, WritePump
<1>5. ASSUME NEW t \in Thread, BroadcastStep(t) PROVE hist'[k] = hist[k]
  BY <1>5 DEF BroadcastStep, Add, FanStart, FanSend, FanDone
<1>6. ASSUME NEW x \in Worker, UploadStep(x) PROVE hist'[k] = hist[k]
  BY <1>6 DEF UploadStep, UploadInit, UploadComplete, UploadFail
<1>7. CASE UNCHANGED vars
  BY <1>7 DEF vars
<1> QED BY <1>1, <1>2, <1>3, <1>4, <1>5, <1>6, <1>7 DEF Next, Terminated

(* An event a client may see and that is on its way to it is given to it or *)
(* stays on its way, as long as the client stays online in the room.        *)
LEMMA Arrives ==
    ASSUME Typed, ReadersHold, Joining, [Next]_vars,
           NEW k \in clients, k \in clients', Online(k)',
           NEW n \in 1..Len(store), isEventVisibleTo(k, n),
           n \in pushed[k] \/ OnItsWay(k, n)
    PROVE  n \in pushed'[k] \/ OnItsWay(k, n)'
<1>0. k \in Conn /\ pc \in [Thread -> PC] /\ left \in [Thread -> SUBSET Conn]
  BY DEF Typed, TypeOK
<1>1. CASE n \in pushed[k]
  BY <1>0, <1>1, GrowingStep DEF Growing
<1>2. CASE n \in hist[k].todo
  <2>1. CASE hist'[k] = hist[k]
    BY <1>2, <2>1 DEF OnItsWay
  <2>2. CASE SendPage(k)
    <3>1. PICK i \in 1..Len(store) :
             /\ \/ isEventVisibleTo(k, i) /\ Send(k, {i})
                \/ ~isEventVisibleTo(k, i) /\ UNCHANGED sendVars
             /\ hist'[k].todo = hist[k].todo \ {i}
      BY <1>0, <2>2, SendPageEffect
    <3>2. CASE i = n
      <4>1. Send(k, {n}) /\ {n} \in SUBSET (1..Len(store))
        BY <3>1, <3>2
      <4> QED BY <1>0, <4>1, SendEffect
    <3>3. CASE i # n
      BY <1>2, <3>1, <3>3 DEF OnItsWay
    <3> QED BY <3>2, <3>3
  <2> QED BY <1>0, <1>2, <2>1, <2>2, PageKept
<1>3. ASSUME NEW t \in Thread, cur[t] = n,
             pc[t] = "lock" \/ (pc[t] = "fan" /\ k \in left[t])
      PROVE  n \in pushed'[k] \/ OnItsWay(k, n)'
  <2>1. CASE Kept(t)
    BY <1>3, <2>1 DEF Kept, OnItsWay
  <2>2. CASE Add(t)
    BY <1>3, <2>2 DEF Add
  <2>3. CASE FanStart(t)
    <3>1. pc'[t] = "fan" /\ k \in left'[t] /\ cur'[t] = n
      BY <1>0, <1>3, <2>3 DEF FanStart, Goto
    <3> QED BY <3>1 DEF OnItsWay
  <2>4. CASE FanSend(t)
    <3>1. PICK c \in left[t] :
             /\ c \in Conn
             /\ left'[t] = left[t] \ {c}
             /\ \/ isEventVisibleTo(c, cur[t]) /\ Send(c, {cur[t]})
                \/ ~isEventVisibleTo(c, cur[t]) /\ UNCHANGED sendVars
      BY <2>4, FanSendEffect
    <3>2. pc[t] = "fan" /\ pc' = pc /\ cur' = cur
      BY <2>4 DEF FanSend, castVars
    <3>3. CASE c = k
      <4>1. Send(k, {n}) /\ {n} \in SUBSET (1..Len(store))
        BY <1>3, <3>1, <3>3
      <4> QED BY <1>0, <4>1, SendEffect
    <3>4. CASE c # k
      BY <1>3, <3>1, <3>2, <3>4 DEF OnItsWay
    <3> QED BY <3>3, <3>4
  <2>5. CASE FanDone(t)
    BY <1>3, <2>5 DEF FanDone
  <2> QED BY <1>3, <2>1, <2>2, <2>3, <2>4, <2>5, CarriersKept DEF Carrying
<1> QED BY <1>1, <1>2, <1>3 DEF OnItsWay

-----------------------------------------------------------------------------
(* A recall catches up with every copy                                      *)

(* Only RecallMessage marks a message, and it drafts the recall with it.    *)
LEMMA RecallDrafted ==
    ASSUME Typed, [Next]_vars, NEW m \in recalled' \ recalled
    PROVE  \E t \in Thread : pc'[t] = "add" /\ draft'[t].kind = "recalled" /\ draft'[t].msg = m
<1> USE DEF storeVars
<1>1. ASSUME NEW k \in Conn, NEW i \in 1..Len(store), RecallMessage(k, i)
      PROVE  \E t \in Thread : pc'[t] = "add" /\ draft'[t].kind = "recalled" /\ draft'[t].msg = m
  <2>1. i = m /\ k \in Thread
    BY <1>1 DEF RecallMessage
  <2>2. pc'[k] = "add" /\ draft'[k] = MessageEvent("recalled", m, PeerOf[k])
    BY <1>1, <2>1 DEF RecallMessage, Broadcast, Goto, Typed, TypeOK
  <2> QED BY <2>1, <2>2 DEF MessageEvent
<1>2. ASSUME NEW k \in Conn, NEW w \in Watermarks, Connect(k, w) PROVE FALSE
  BY <1>2 DEF Connect
<1>3. ASSUME NEW k \in Conn, HandlerStep(k) PROVE FALSE
  BY <1>3 DEF HandlerStep, Insert, CloseOld, Select, SendPage, EndPage, Snapshot, KickClient,
              KickClose, Unregister
<1>4. ASSUME NEW k \in Conn,
             \/ SendText(k) \/ UpdateClient(k) \/ LoadHistory(k) \/ \E v \in Conn : KickHost(k, v)
             \/ Lose(k) \/ Stall(k) \/ WritePump(k)
      PROVE  FALSE
  BY <1>4 DEF SendText, UpdateClient, LoadHistory, KickHost, Lose, Stall, WritePump
<1>5. ASSUME NEW t \in Thread, BroadcastStep(t) PROVE FALSE
  BY <1>5 DEF BroadcastStep, Add, FanStart, FanSend, FanDone
<1>6. ASSUME NEW x \in Worker, UploadStep(x) PROVE FALSE
  BY <1>6 DEF UploadStep, UploadInit, UploadComplete, UploadFail
<1>7. CASE UNCHANGED vars
  BY <1>7 DEF vars
<1> QED BY <1>1, <1>2, <1>3, <1>4, <1>5, <1>6, <1>7 DEF Next, CommandStep, Terminated

(* Every event of a message a client has seen may be shown to it.           *)
LEMMA SeenVisible ==
    ASSUME Typed, LogInv, SeenInv, UploadHidden, NEW k \in Conn, NEW n \in 1..Len(store),
           IsMessage(n), store[n].msg \in seen[k]
    PROVE  isEventVisibleTo(k, n)
<1>1. PICK i \in pushed[k] : IsMessage(i) /\ store[i].msg = store[n].msg
  BY DEF SeenInv
<1>2. i \in 1..Len(store)
  BY <1>1 DEF Typed, WellPlaced
<1>3. store[i].by = store[n].by
  BY <1>1, <1>2 DEF LogInv, AboutMessage
<1> QED BY <1>1, <1>2, <1>3 DEF UploadHidden, isEventVisibleTo

LEMMA RecallStep ==
    Typed /\ ReadersHold /\ LogInv /\ Joining /\ SeenInv /\ UploadHidden /\ RecallReaches
       /\ [Next]_vars => RecallReaches'
<1> SUFFICES ASSUME Typed, ReadersHold, LogInv, Joining, SeenInv, UploadHidden, RecallReaches,
                    [Next]_vars, NEW k \in clients', Online(k)',
                    NEW m \in seen'[k] \cap recalled'
             PROVE  RecallComing(k, m)'
  BY DEF RecallReaches
<1>1. Growing
  BY GrowingStep
<1>2. CASE m \notin recalled
  BY <1>2, RecallDrafted DEF RecallComing
<1>3. CASE m \in recalled
  <2>1. k \in clients /\ Online(k) /\ k \in Conn
    BY OnlineBefore DEF Typed, TypeOK
  <2>2. m \in seen[k]
    BY <1>1, <2>1 DEF Growing
  <2>3. RecallComing(k, m)
    BY <1>3, <2>1, <2>2 DEF RecallReaches
  <2>4. ASSUME NEW n \in 1..Len(store), store[n].kind = "recalled", store[n].msg = m,
               n \in pushed[k] \/ OnItsWay(k, n)
        PROVE  RecallComing(k, m)'
    <3>1. isEventVisibleTo(k, n)
      BY <2>1, <2>2, <2>4, SeenVisible DEF IsMessage
    <3>2. n \in pushed'[k] \/ OnItsWay(k, n)'
      BY <2>1, <2>4, <3>1, Arrives
    <3>3. n \in 1..Len(store') /\ store'[n] = store[n]
      BY <1>1, LenProperties DEF Growing, Typed, TypeOK
    <3> QED BY <2>4, <3>2, <3>3 DEF RecallComing
  <2>5. ASSUME NEW n \in pushed[k], store[n].kind = "recalled", store[n].msg = m
        PROVE  RecallComing(k, m)'
    BY <2>1, <2>4, <2>5 DEF Typed, WellPlaced
  <2>6. ASSUME NEW t \in Thread, pc[t] = "add", draft[t].kind = "recalled", draft[t].msg = m
        PROVE  RecallComing(k, m)'
    <3>1. CASE Kept(t)
      BY <2>6, <3>1 DEF Kept, RecallComing
    <3>2. CASE Add(t)
      <4>0. PICK n \in Nat : n = Len(store) + 1
        BY LenProperties DEF Typed, TypeOK
      <4>1. n \in 1..Len(store') /\ store'[n].kind = "recalled" /\ store'[n].msg = m
        BY <2>6, <3>2, <4>0, Stored
      <4>2. cur'[t] = n /\ pc'[t] = "lock"
        BY <3>2, <4>0 DEF Add, Goto, Typed, TypeOK
      <4> QED BY <4>1, <4>2 DEF RecallComing, OnItsWay
    <3> QED BY <2>6, <3>1, <3>2, CarriersKept DEF Carrying, FanStart, FanSend, FanDone
  <2> QED BY <2>3, <2>4, <2>5, <2>6 DEF RecallComing
<1> QED BY <1>2, <1>3

-----------------------------------------------------------------------------
(* The cursors of the history pages                                         *)

(* A browser that resumes from a message it has keeps the boundary of its   *)
(* join too (wsUrlWithParams sends both).                                   *)
KeepsBoundary == \A w \in Watermarks : w[1] > 0 => w[2] > 0

(* A nonempty set of sequence numbers has a greatest.                       *)
LEMMA Greatest ==
    ASSUME NEW l \in Nat, NEW S \in SUBSET (1..l), S # {}
    PROVE  \E x \in S : \A y \in S : y <= x
<1> DEFINE T == {i \in Nat : i <= l /\ l - i \in S}
<1>1. T # {}
  <2>1. PICK s \in S : s \in 1..l
    OBVIOUS
  <2>2. l - s \in T
    BY <2>1
  <2> QED BY <2>2
<1> DEFINE Less == {p \in Nat \X Nat : p[1] < p[2]}
<1>2. PICK i \in T : \A j \in T : ~(<<j, i>> \in Less)
  <2>1. IsWellFoundedOn(Less, Nat)
    BY NatLessThanWellFounded DEF OpToRel
  <2>2. T \subseteq Nat
    OBVIOUS
  <2> HIDE DEF T, Less
  <2> QED BY <1>1, <2>1, <2>2, WFMin
<1>3. ASSUME NEW j \in T PROVE i <= j
  <2>1. i \in Nat /\ j \in Nat /\ <<j, i>> \notin Less
    BY <1>2
  <2>2. ~(j < i)
    BY <2>1
  <2> QED BY <2>1, <2>2
<1>4. ASSUME NEW y \in S PROVE y <= l - i
  <2>1. l - y \in T
    OBVIOUS
  <2>2. i <= l - y
    BY <1>3, <2>1
  <2> QED BY <2>2
<1>5. l - i \in S
  OBVIOUS
<1> QED BY <1>4, <1>5

(* What a page leaves out is older than all it has, and a page is empty     *)
(* only when there is nothing to show.                                      *)
LEMMA NewestAbove ==
    ASSUME NEW l \in Nat, NEW S \in SUBSET (1..l)
    PROVE  /\ S # {} => Newest(S) # {}
           /\ \A x \in S \ Newest(S) : \A y \in Newest(S) : x < y
<1>0. S \subseteq Nat
  OBVIOUS
<1>1. \A x \in S : /\ IsFiniteSet({m \in S : m > x})
                   /\ Cardinality({m \in S : m > x}) \in Nat
  <2>1. IsFiniteSet(1..l)
    BY FS_Interval
  <2> QED BY <2>1, FS_Subset, FS_CardinalityType
<1>2. ASSUME S # {} PROVE Newest(S) # {}
  <2>1. PICK x \in S : \A y \in S : y <= x
    BY <1>2, Greatest
  <2>2. \A m \in S : ~(m > x)
    BY <1>0, <2>1
  <2>3. Cardinality({m \in S : m > x}) < PageSize
    <3>1. {m \in S : m > x} = {}
      BY <2>2
    <3> QED BY <3>1, FS_EmptySet, BoundAssumption
  <2> QED BY <2>3 DEF Newest
<1>3. ASSUME NEW x \in S \ Newest(S), NEW y \in Newest(S) PROVE x < y
  <2>1. y \in S /\ Cardinality({m \in S : m > y}) < PageSize
    BY DEF Newest
  <2>2. ~(Cardinality({m \in S : m > x}) < PageSize)
    BY DEF Newest
  <2>3. CASE y <= x
    <3>1. {m \in S : m > x} \in SUBSET {m \in S : m > y}
      <4>1. \A m \in S : m > x => m > y
        BY <1>0, <2>1, <2>3
      <4> QED BY <4>1
    <3>2. Cardinality({m \in S : m > x}) <= Cardinality({m \in S : m > y})
      BY <1>1, <2>1, <3>1, FS_Subset
    <3> QED BY <1>1, <2>1, <2>2, <3>2, BoundAssumption
  <2> QED BY <1>0, <2>1, <2>3
<1> QED BY <1>2, <1>3

LEMMA SelectEffect ==
    ASSUME Typed, NEW k \in Conn, Select(k)
    PROVE  LET all  == Matched(hist[k].floor, hist[k].ceiling)
               page == Newest(all)
           IN /\ hist'[k].todo = page
              /\ hist'[k].more = (page # all)
              /\ page # {} => hist'[k].oldest \in Oldest(page)
              /\ \A c \in Conn \ {k} : hist'[c] = hist[c]
<1> DEFINE all  == Matched(hist[k].floor, hist[k].ceiling)
           page == Newest(all)
           more == page # all
<1>1. PICK first \in IF page = {} THEN {0} ELSE Oldest(page) :
          hist' = [hist EXCEPT ![k].todo = page, ![k].more = more, ![k].oldest = first]
  BY DEF Select
<1>2. hist \in [Conn -> Page]
  BY DEF Typed, TypeOK
<1> HIDE DEF page, all, more
<1>3. /\ hist'[k].todo = page /\ hist'[k].more = more /\ hist'[k].oldest = first
      /\ \A c \in Conn \ {k} : hist'[c] = hist[c]
  <2>1. hist'[k] = [hist[k] EXCEPT !.todo = page, !.more = more, !.oldest = first]
    BY <1>1, <1>2
  <2>2. hist[k] \in Page
    BY <1>2
  <2> QED BY <1>1, <1>2, <2>1, <2>2 DEF Page
<1> USE DEF more
<1> QED BY <1>1, <1>3 DEF page, all

(* What a step does to where a client of the room stands: its handler       *)
(* selects or sends a page or asks for an older one, or leaves it where it  *)
(* was with respect to the replay.                                          *)
Standing(k) ==
    /\ hist'[k] = hist[k] /\ due'[k] = due[k] /\ wm'[k] = wm[k] /\ hello'[k] = hello[k]
    /\ pc'[k] = "select" <=> pc[k] = "select"
    /\ pc[k] \in {"idle", "insert", "closeOld"} => pc'[k] \in {"idle", "insert", "closeOld"}
    /\ pc[k] = "gone" => pc'[k] = "gone"

LEMMA StandingStep ==
    ASSUME Typed, [Next]_vars, NEW k \in Conn
    PROVE  \/ Standing(k)
           \/ CloseOld(k) \/ Select(k) \/ SendPage(k) \/ LoadHistory(k)
           \/ \E w \in Watermarks : Connect(k, w)
<1> USE DEF Goto, connVars
<1>0. /\ hist \in [Conn -> Page] /\ pc \in [Thread -> PC] /\ due \in [Conn -> Nat]
      /\ wm \in [Conn -> Nat \X Nat] /\ hello \in [Conn -> Nat]
      /\ resume \in [Thread -> {"ready", "stream", "kickClose", "gone"}]
  BY DEF Typed, TypeOK
<1>1. ASSUME NEW c \in Conn \ {k}, NEW w \in Watermarks, Connect(c, w) PROVE Standing(k)
  BY <1>0, <1>1 DEF Connect, Standing
<1>2. ASSUME NEW c \in Conn, Insert(c) PROVE Standing(k)
  BY <1>0, <1>2 DEF Insert, Standing
<1>3. ASSUME NEW c \in Conn \ {k}, CloseOld(c) \/ Select(c) \/ LoadHistory(c) PROVE Standing(k)
  BY <1>0, <1>3 DEF CloseOld, Select, LoadHistory, Command, castVars, Standing
<1>4. ASSUME NEW c \in Conn \ {k}, SendPage(c) PROVE Standing(k)
  <2>1. \A d \in Conn \ {c} : hist'[d] = hist[d]
    BY <1>4, SendPageEffect
  <2> QED BY <1>0, <1>4, <2>1 DEF SendPage, Standing
<1>5. ASSUME NEW c \in Conn, EndPage(c) \/ Snapshot(c) \/ KickClose(c) \/ Unregister(c)
      PROVE  Standing(k)
  BY <1>0, <1>5 DEF EndPage, Snapshot, KickClose, Unregister, Standing
<1>6. ASSUME NEW c \in Conn, KickClient(c) PROVE Standing(k)
  BY <1>0, <1>6 DEF KickClient, Broadcast, Standing
<1>7. ASSUME NEW c \in Conn,
             SendText(c) \/ UpdateClient(c) \/ (\E m \in 1..Len(store) : RecallMessage(c, m))
      PROVE  Standing(k)
  BY <1>0, <1>7 DEF SendText, UpdateClient, RecallMessage, Command, Broadcast, Standing
<1>8. ASSUME NEW c \in Conn, NEW v \in Conn, KickHost(c, v) PROVE Standing(k)
  BY <1>0, <1>8 DEF KickHost, Command, Standing
<1>9. ASSUME NEW c \in Conn, Lose(c) \/ Stall(c) \/ WritePump(c) PROVE Standing(k)
  BY <1>0, <1>9 DEF Lose, Stall, WritePump, Standing
<1>10. ASSUME NEW t \in Thread, BroadcastStep(t) PROVE Standing(k)
  BY <1>0, <1>10 DEF BroadcastStep, Add, FanStart, FanSend, FanDone, Standing
<1>11. ASSUME NEW x \in Worker, UploadStep(x) PROVE Standing(k)
  <2>1. pc'[k] = pc[k]
    BY <1>0, <1>11, ThreadAssumption DEF UploadStep, UploadInit, UploadComplete, UploadFail, Broadcast
  <2> QED BY <1>11, <2>1 DEF UploadStep, UploadInit, UploadComplete, UploadFail, Standing
<1>12. CASE UNCHANGED vars
  BY <1>12 DEF vars, Standing
<1> QED BY <1>1, <1>2, <1>3, <1>4, <1>5, <1>6, <1>7, <1>8, <1>9, <1>10, <1>11, <1>12
        DEF Next, HandlerStep, CommandStep, Terminated

LEMMA CursorsStep ==
    ASSUME KeepsBoundary, Typed, Joining, Cursors, [Next]_vars
    PROVE  Cursors'
<1> SUFFICES ASSUME NEW k \in Conn PROVE CursorsAt(k)'
  BY DEF Cursors
<1>0. /\ hist \in [Conn -> Page] /\ pc \in [Thread -> PC] /\ due \in [Conn -> Nat]
      /\ wm \in [Conn -> Nat \X Nat] /\ hello \in [Conn -> Nat]
      /\ hist[k] \in Page /\ wm[k] \in Nat \X Nat
      /\ Len(store) \in Nat
  BY LenProperties DEF Typed, TypeOK
<1>1. CursorsAt(k)
  BY DEF Cursors
<1>2. Len(store) <= Len(store') /\ Len(store') \in Nat
  BY GrowingStep, TypedStep, LenProperties DEF Growing, Typed, TypeOK
<1>3. CASE Standing(k)
  BY <1>0, <1>1, <1>2, <1>3 DEF Standing, CursorsAt, Boundary, Page
<1>4. CASE CloseOld(k)
  <2>1. /\ hist'[k] = [NoPage EXCEPT !.floor = ResolveReplayStartSeq(wm[k][1], wm[k][2], Len(store))]
        /\ due'[k] = hist'[k].floor /\ pc'[k] = "select"
        /\ UNCHANGED <<store, wm, hello>>
    BY <1>0, <1>4 DEF CloseOld, Goto, storeVars
  <2>2. /\ hist'[k].floor = ResolveReplayStartSeq(wm[k][1], wm[k][2], Len(store))
        /\ ~hist'[k].more /\ hist'[k].ceiling = 0 /\ hist'[k].todo = {}
    BY <2>1 DEF NoPage
  <2>3. hist'[k].floor \in Nat
    BY <2>2, ReplayStartTyped
  <2>4. Boundary(k) <= hist'[k].floor
    BY <1>0, <1>1, <2>2 DEF Boundary, ResolveReplayStartSeq, CursorsAt
  <2> QED BY <1>0, <1>1, <2>1, <2>2, <2>3, <2>4 DEF CursorsAt, Boundary
<1>5. CASE Select(k)
  <2>1. /\ \A n \in hist'[k].todo : hist'[k].oldest <= n
    BY <1>5, SelectEffect DEF Oldest
  <2>2. pc'[k] = "page" /\ pc[k] = "select" /\ UNCHANGED <<store, wm, hello, due>>
    BY <1>0, <1>5 DEF Select, Goto, storeVars
  <2> QED BY <1>0, <1>1, <2>1, <2>2 DEF CursorsAt, Boundary
<1>6. CASE SendPage(k)
  <2>1. PICK n \in Oldest(hist[k].todo) :
           hist'[k].todo = hist[k].todo \ {n} /\ hist'[k].oldest \in {hist[k].oldest, n}
    BY <1>6, SendPageEffect
  <2>2. \A i \in hist'[k].todo : hist'[k].oldest <= i
    BY <1>1, <2>1 DEF CursorsAt, Oldest
  <2>3. pc'[k] = "page" /\ pc[k] = "page" /\ UNCHANGED <<store, wm, hello, due>>
    BY <1>0, <1>6 DEF SendPage, storeVars
  <2> QED BY <1>0, <1>1, <2>2, <2>3 DEF CursorsAt, Boundary
<1>7. CASE LoadHistory(k)
  <2>1. /\ hist'[k] = [NoPage EXCEPT !.floor = IF wm[k][2] > 0 THEN wm[k][2] ELSE hello[k],
                                     !.ceiling = hist[k].oldest]
        /\ pc'[k] = "select" /\ pc[k] = "ready" /\ hist[k].oldest > 0
        /\ UNCHANGED <<store, wm, hello, due>>
    BY <1>0, <1>7 DEF LoadHistory, Command, Goto, storeVars, castVars
  <2>2. /\ hist'[k].floor = Boundary(k) /\ hist'[k].ceiling = hist[k].oldest
        /\ ~hist'[k].more /\ hist'[k].todo = {}
    BY <2>1 DEF NoPage, Boundary
  <2>3. hist'[k].ceiling # 0
    BY <1>0, <2>1, <2>2 DEF Page
  <2> QED BY <1>0, <1>1, <2>1, <2>2, <2>3 DEF CursorsAt, Boundary
<1>8. ASSUME NEW w \in Watermarks, Connect(k, w) PROVE CursorsAt(k)'
  <2>1. /\ pc[k] = "idle" /\ pc'[k] \in {"insert", "gone"} /\ UNCHANGED <<store, due, hist>>
        /\ (wm'[k] = w /\ hello'[k] = Len(store)) \/ (wm'[k] = wm[k] /\ hello'[k] = hello[k])
    BY <1>0, <1>8 DEF Connect, Goto, storeVars
  <2>2. w[1] > 0 => w[2] > 0
    BY DEF KeepsBoundary
  <2> QED BY <1>0, <1>1, <2>1, <2>2 DEF CursorsAt, Boundary
<1> QED BY <1>3, <1>4, <1>5, <1>6, <1>7, <1>8, StandingStep

-----------------------------------------------------------------------------
(* The replay and the live stream meet                                      *)

(* An event that is owed was owed before the step, unless the step stores   *)
(* it, and it may be shown to every client.                                 *)
LEMMA OwedBefore ==
    ASSUME Typed, LogInv, [Next]_vars, NEW n \in 1..Len(store'), Owed(n)'
    PROVE  \/ n \in 1..Len(store) /\ Owed(n) /\ \A k \in Conn : isEventVisibleTo(k, n)
           \/ \E t \in Thread : cur'[t] = n /\ pc'[t] = "lock"
<1>1. Growing
  BY GrowingStep
<1>2. ASSUME n \in 1..Len(store)
      PROVE  Owed(n) /\ \A k \in Conn : isEventVisibleTo(k, n)
  <2>1. store'[n] = store[n]
    BY <1>1, <1>2 DEF Growing
  <2>2. IsMessage(n) /\ AboutMessage(store[n])
    BY <1>2, <2>1 DEF Owed, IsMessage, LogInv
  <2>3. store'[store[n].msg] = store[store[n].msg]
    BY <1>1, <2>2 DEF Growing, AboutMessage
  <2>4. Owed(n)
    BY <2>1, <2>2, <2>3 DEF Owed
  <2>5. store[n].msg \notin uploading
    BY <1>2, <2>4 DEF Owed, LogInv
  <2> QED BY <2>4, <2>5 DEF isEventVisibleTo
<1>3. ASSUME n \notin 1..Len(store)
      PROVE  \E t \in Thread : cur'[t] = n /\ pc'[t] = "lock"
  <2>1. store' # store
    BY <1>3
  <2>2. ASSUME NEW k \in Conn, NEW w \in Watermarks, Connect(k, w) PROVE FALSE
    BY <2>1, <2>2 DEF Connect, storeVars
  <2>3. ASSUME NEW k \in Conn, HandlerStep(k) PROVE FALSE
    BY <2>1, <2>3 DEF HandlerStep, Insert, CloseOld, Select, SendPage, EndPage, Snapshot,
                      KickClient, KickClose, Unregister, storeVars
  <2>4. ASSUME NEW k \in Conn, CommandStep(k) PROVE FALSE
    BY <2>1, <2>4 DEF CommandStep, SendText, UpdateClient, LoadHistory, RecallMessage, KickHost,
                      storeVars
  <2>5. ASSUME NEW k \in Conn, Lose(k) \/ Stall(k) \/ WritePump(k) PROVE FALSE
    BY <2>1, <2>5 DEF Lose, Stall, WritePump, storeVars
  <2>6. ASSUME NEW t \in Thread, FanStart(t) \/ FanSend(t) \/ FanDone(t) PROVE FALSE
    BY <2>1, <2>6 DEF FanStart, FanSend, FanDone, storeVars
  <2>7. ASSUME NEW x \in Worker, UploadStep(x) PROVE FALSE
    BY <2>1, <2>7 DEF UploadStep, UploadInit, UploadComplete, UploadFail, storeVars
  <2>8. ~UNCHANGED vars
    BY <2>1 DEF vars
  <2>9. PICK t \in Thread : Add(t)
    BY <2>2, <2>3, <2>4, <2>5, <2>6, <2>7, <2>8 DEF Next, BroadcastStep, Terminated
  <2>10. Len(store) \in Nat /\ Len(store') = Len(store) + 1
    BY <2>9, Stored
  <2>11. n = Len(store) + 1
    BY <1>3, <2>10
  <2> QED BY <2>9, <2>11 DEF Add, Goto, Typed, TypeOK
<1> QED BY <1>2, <1>3

(* A page that is selected holds all that was owed after its floor and      *)
(* before its ceiling, or leads to it.                                      *)
LEMMA SelectReaches ==
    ASSUME Typed, NEW k \in Conn, Select(k), NEW n \in Matched(hist[k].floor, hist[k].ceiling)
    PROVE  OnItsWay(k, n)' \/ OnOlderPage(k, n)'
<1> DEFINE all  == Matched(hist[k].floor, hist[k].ceiling)
           page == Newest(all)
<1>1. /\ hist'[k].todo = page
      /\ hist'[k].more = (page # all)
      /\ page # {} => hist'[k].oldest \in Oldest(page)
  BY SelectEffect
<1>2. Len(store) \in Nat /\ all \in SUBSET (1..Len(store))
  BY LenProperties DEF Typed, TypeOK, Matched
<1>3. /\ all # {} => page # {}
      /\ \A x \in all \ page : \A y \in page : x < y
  BY <1>2, NewestAbove
<1> HIDE DEF all, page
<1>4. CASE n \in page
  BY <1>1, <1>4 DEF OnItsWay
<1>5. CASE n \notin page
  <2>1. n \in all /\ page # {} /\ page # all
    BY <1>3, <1>5 DEF all
  <2>2. hist'[k].more /\ n < hist'[k].oldest
    BY <1>1, <1>3, <1>5, <2>1 DEF Oldest
  <2> QED BY <2>2 DEF OnOlderPage
<1> QED BY <1>4, <1>5

LEMMA ReplayStep ==
    Typed /\ ReadersHold /\ LogInv /\ Joining /\ Cursors /\ ReplayMeetsLive /\ [Next]_vars
       => ReplayMeetsLive'
<1> SUFFICES ASSUME Typed, ReadersHold, LogInv, Joining, Cursors, ReplayMeetsLive, [Next]_vars,
                    NEW k \in clients', Replayed(k)', Online(k)',
                    NEW n \in 1..Len(store'), Owed(n)', n > due'[k]
             PROVE  n \in pushed'[k] \/ OnItsWay(k, n)' \/ OnOlderPage(k, n)'
  BY DEF ReplayMeetsLive
<1>1. k \in clients /\ Online(k) /\ k \in Conn /\ pc[k] \notin {"idle", "insert"}
  <2>1. k \in clients /\ Online(k)
    BY OnlineBefore DEF Replayed
  <2> QED BY <2>1 DEF Typed, TypeOK, Joining
<1>2. CASE \E t \in Thread : cur'[t] = n /\ pc'[t] = "lock"
  BY <1>2 DEF OnItsWay
<1>3. CASE n \in 1..Len(store) /\ Owed(n) /\ \A c \in Conn : isEventVisibleTo(c, n)
  <2>0. /\ hist[k] \in Page /\ due \in [Conn -> Nat] /\ n \in Nat /\ pc \in [Thread -> PC]
        /\ hist \in [Conn -> Page] /\ CursorsAt(k)
    BY <1>1, <1>3, LenProperties DEF Typed, TypeOK, Cursors
  <2>1. ASSUME n \in pushed[k] \/ OnItsWay(k, n)
        PROVE  n \in pushed'[k] \/ OnItsWay(k, n)'
    BY <1>1, <1>3, <2>1, Arrives
  <2>2. ASSUME Replayed(k), n > due[k]
        PROVE  n \in pushed[k] \/ OnItsWay(k, n) \/ OnOlderPage(k, n)
    BY <1>1, <1>3, <2>2 DEF ReplayMeetsLive
  <2>3. CASE Standing(k)
    <3>1. Replayed(k) /\ n > due[k]
      BY <1>1, <2>3 DEF Standing, Replayed
    <3>2. OnOlderPage(k, n) => OnOlderPage(k, n)'
      BY <2>3 DEF Standing, OnOlderPage
    <3> QED BY <2>1, <2>2, <3>1, <3>2
  <2>4. CASE CloseOld(k)
    <3>1. hist'[k].ceiling = 0 /\ pc'[k] = "select"
      <4>1. hist'[k] = [NoPage EXCEPT !.floor = ResolveReplayStartSeq(wm[k][1], wm[k][2], Len(store))]
        BY <1>1, <2>0, <2>4 DEF CloseOld
      <4> QED BY <1>1, <2>0, <2>4, <4>1 DEF CloseOld, Goto, NoPage
    <3> QED BY <3>1 DEF Replayed
  <2>5. CASE Select(k)
    <3>1. pc[k] = "select" /\ due' = due
      BY <2>5 DEF Select
    <3>2. IsMessage(n) /\ n > hist[k].floor
      BY <1>1, <1>3, <2>0, <3>1 DEF Owed, CursorsAt, Page
    <3>3. CASE hist[k].ceiling > 0 => n < hist[k].ceiling
      <4>1. n \in Matched(hist[k].floor, hist[k].ceiling)
        BY <1>3, <3>2, <3>3 DEF Matched
      <4> QED BY <1>1, <2>5, <4>1, SelectReaches
    <3>4. CASE hist[k].ceiling > 0 /\ ~(n < hist[k].ceiling)
      <4>1. ~OnOlderPage(k, n)
        BY <2>0, <3>1, <3>4 DEF OnOlderPage, CursorsAt
      <4>2. Replayed(k)
        BY <3>1, <3>4 DEF Replayed
      <4> QED BY <2>1, <2>2, <3>1, <4>1, <4>2
    <3> QED BY <3>3, <3>4
  <2>6. CASE SendPage(k)
    <3>1. PICK i \in Oldest(hist[k].todo) :
             /\ i \in 1..Len(store)
             /\ hist'[k].oldest \in {hist[k].oldest, i} /\ hist'[k].more = hist[k].more
      BY <1>1, <2>6, SendPageEffect
    <3>2. hist[k].oldest <= i /\ i \in Nat /\ hist[k].oldest \in Nat
      BY <2>0, <3>1, LenProperties DEF CursorsAt, Oldest, Page, Typed, TypeOK
    <3>3. pc[k] = "page" /\ pc' = pc /\ due' = due
      BY <2>6 DEF SendPage
    <3>4. Replayed(k) /\ n > due[k]
      BY <3>3 DEF Replayed
    <3>5. OnOlderPage(k, n) => OnOlderPage(k, n)'
      BY <2>0, <3>1, <3>2, <3>3 DEF OnOlderPage
    <3> QED BY <2>1, <2>2, <3>4, <3>5
  <2>7. CASE LoadHistory(k)
    <3>1. /\ hist'[k] = [NoPage EXCEPT !.floor = IF wm[k][2] > 0 THEN wm[k][2] ELSE hello[k],
                                       !.ceiling = hist[k].oldest]
          /\ pc'[k] = "select" /\ pc[k] = "ready" /\ due' = due
      BY <1>1, <2>0, <2>7 DEF LoadHistory, Command, Goto, castVars
    <3>2. hist'[k].ceiling = hist[k].oldest
      BY <3>1 DEF NoPage
    <3>3. Replayed(k) /\ n > due[k]
      BY <3>1 DEF Replayed
    <3>4. OnOlderPage(k, n) => OnOlderPage(k, n)'
      BY <3>1, <3>2 DEF OnOlderPage
    <3> QED BY <2>1, <2>2, <3>3, <3>4
  <2>8. ASSUME NEW w \in Watermarks, Connect(k, w)
        PROVE  FALSE
    BY <1>1, <2>8 DEF Connect
  <2> QED BY <1>1, <2>3, <2>4, <2>5, <2>6, <2>7, <2>8, StandingStep
<1> QED BY <1>2, <1>3, OwedBefore

-----------------------------------------------------------------------------
(* The session implements the room                                          *)

(* What the room's state is made of, and what leaves each part alone.       *)
LEMMA LogMapped ==
    ASSUME NEW s \in Seq(Event)
    PROVE  LET r == [n \in DOMAIN s |-> [msg |-> s[n].msg, by |-> s[n].by]]
           IN  /\ r \in Seq([msg: Nat, by: Peer \cup {NoPeer}])
               /\ Len(r) = Len(s)
               /\ \A n \in 1..Len(s) : r[n] = [msg |-> s[n].msg, by |-> s[n].by]
<1> DEFINE r == [n \in DOMAIN s |-> [msg |-> s[n].msg, by |-> s[n].by]]
<1>1. Len(s) \in Nat /\ DOMAIN s = 1..Len(s)
  BY LenProperties
<1>2. \A n \in 1..Len(s) : s[n].msg \in Nat /\ s[n].by \in Peer \cup {NoPeer}
  <2>1. \A n \in 1..Len(s) : s[n] \in Event
    BY ElementOfSeq
  <2> QED BY <2>1 DEF Event
<1>3. r \in [1..Len(s) -> [msg: Nat, by: Peer \cup {NoPeer}]]
  BY <1>1, <1>2
<1>4. r \in Seq([msg: Nat, by: Peer \cup {NoPeer}])
  BY <1>1, <1>3, SeqDef
<1>5. DOMAIN r = 1..Len(s)
  BY <1>3
<1>6. Len(r) = Len(s)
  BY <1>1, <1>4, <1>5, LenProperties
<1> QED BY <1>1, <1>4, <1>6

LEMMA SlotHeld ==
    ASSUME NEW p \in Peer, NEW c, Occupant(p) = {c}
    PROVE  RoomSlots[p] = c
BY DEF RoomSlots

LEMMA SlotKept ==
    ASSUME NEW p \in Peer, Occupant(p)' = Occupant(p)
    PROVE  RoomSlots'[p] = RoomSlots[p]
<1>1. /\ RoomSlots[p] = IF Occupant(p) = {} THEN NoPeer ELSE CHOOSE c \in Occupant(p) : TRUE
      /\ RoomSlots'[p] = IF Occupant(p)' = {} THEN NoPeer ELSE CHOOSE c \in Occupant(p)' : TRUE
  BY DEF RoomSlots
<1>2. (CHOOSE c \in Occupant(p)' : TRUE) = (CHOOSE c \in Occupant(p) : TRUE)
  OBVIOUS
<1> QED BY <1>1, <1>2

LEMMA LogAppended ==
    ASSUME Typed, Typed', NEW t \in Thread, Add(t)
    PROVE  RoomLog' = Append(RoomLog, [msg |-> store'[Len(store) + 1].msg,
                                       by  |-> store'[Len(store) + 1].by])
<1>0. PICK n \in Nat : n = Len(store) + 1
  BY LenProperties DEF Typed, TypeOK
<1> DEFINE R == [msg: Nat, by: Peer \cup {NoPeer}]
           e == [msg |-> store'[n].msg, by  |-> store'[n].by]
<1>1. /\ Len(store) \in Nat /\ Len(store') = n
      /\ \A i \in 1..Len(store) : store'[i] = store[i]
  BY <1>0, Stored
<1>2. /\ RoomLog \in Seq(R) /\ Len(RoomLog) = Len(store)
      /\ \A i \in 1..Len(store) : RoomLog[i] = [msg |-> store[i].msg, by |-> store[i].by]
  BY LogMapped DEF Typed, TypeOK, RoomLog
<1>3. /\ RoomLog' \in Seq(R) /\ Len(RoomLog') = n
      /\ \A i \in 1..n : RoomLog'[i] = [msg |-> store'[i].msg, by |-> store'[i].by]
  <2>1. store' \in Seq(Event)
    BY DEF Typed, TypeOK
  <2>2. /\ RoomLog' \in Seq(R) /\ Len(RoomLog') = Len(store')
        /\ \A i \in 1..Len(store') : RoomLog'[i] = [msg |-> store'[i].msg, by |-> store'[i].by]
    BY <2>1, LogMapped DEF RoomLog
  <2> QED BY <1>1, <2>2
<1>4. n \in 1..n /\ \A i \in 1..Len(store) : i \in 1..n
  BY <1>0, <1>1
<1>5. e \in R
  <2>1. RoomLog'[n] \in R
    BY <1>3, <1>4, ElementOfSeq
  <2> QED BY <1>3, <1>4, <2>1
<1> HIDE DEF e, R
<1>6. /\ Append(RoomLog, e) \in Seq(R) /\ Len(Append(RoomLog, e)) = n
      /\ Append(RoomLog, e)[n] = e
      /\ \A i \in 1..Len(store) : Append(RoomLog, e)[i] = RoomLog[i]
  BY <1>0, <1>2, <1>5, AppendProperties
<1>7. \A i \in 1..n : RoomLog'[i] = Append(RoomLog, e)[i]
  <2>1. \A i \in 1..n : i \in 1..Len(store) \/ i = n
    BY <1>0, <1>1
  <2> QED BY <1>1, <1>2, <1>3, <1>4, <1>6, <2>1 DEF e
<1>8. RoomLog' = Append(RoomLog, e)
  BY <1>3, <1>6, <1>7, SeqEqual
<1> QED BY <1>0, <1>8 DEF e

(* A step that leaves the log, the room and what was given alone, and       *)
(* closes some connections or none, ends them.                              *)
LEMMA EndMapped ==
    ASSUME Typed, UNCHANGED <<store, uploading, clients, pushed>>,
           \A k \in Conn : k \in HasJoined <=> k \in HasJoined',
           \A k \in Conn : k \in HasEnded => k \in HasEnded'
    PROVE  [Room!Next]_(Room!roomState)
<1>1. RoomLog' = RoomLog /\ RoomSlots' = RoomSlots
  BY DEF RoomLog, RoomSlots, Occupant
<1>2. HasJoined' = HasJoined /\ HasEnded' = HasEnded \cup HasEnded' /\ HasEnded' \in SUBSET Conn
  BY DEF HasJoined, HasEnded
<1>3. Room!End(HasEnded')
  BY <1>1, <1>2 DEF Room!End
<1> QED BY <1>2, <1>3 DEF Room!Next

(* A Send that the visibility check allowed gives, ends or does nothing.    *)
LEMMA SendMapped ==
    ASSUME Typed, NEW c \in Conn, c \in HasJoined, NEW n \in 1..Len(store),
           \/ isEventVisibleTo(c, n) /\ Send(c, {n})
           \/ UNCHANGED sendVars,
           UNCHANGED <<store, uploading, clients>>,
           \A k \in Conn : pc'[k] \in {"idle", "insert"} <=> pc[k] \in {"idle", "insert"}
    PROVE  [Room!Next]_(Room!roomState)
<1>0. /\ link \in [Conn -> {"none", "up", "full", "lost", "closed", "replaced"}]
      /\ store \in Seq(Event) /\ clients \subseteq Conn
  BY DEF Typed, TypeOK
<1>1. CASE UNCHANGED <<link, pushed>>
  BY <1>1, EndMapped DEF HasJoined, HasEnded
<1>2. CASE link' = Shut({c}, "closed") /\ UNCHANGED pushed
  <2>1. \A k \in Conn : /\ link'[k] = "none" <=> link[k] = "none"
                        /\ link[k] \in {"closed", "replaced"} => link'[k] \in {"closed", "replaced"}
    BY <1>0, <1>2 DEF Shut, Alive
  <2> QED BY <1>2, <2>1, EndMapped DEF HasJoined, HasEnded
<1>3. CASE /\ isEventVisibleTo(c, n) /\ link[c] \in {"up", "lost"} /\ UNCHANGED link
           /\ pushed' = [pushed EXCEPT ![c] = @ \cup {n}]
  <2>1. RoomLog' = RoomLog /\ RoomSlots' = RoomSlots
    BY DEF RoomLog, RoomSlots, Occupant
  <2>2. HasJoined' = HasJoined /\ HasEnded' = HasEnded /\ c \notin HasEnded
    BY <1>3 DEF HasJoined, HasEnded
  <2>3. /\ Len(RoomLog) = Len(store)
        /\ RoomLog[n] = [msg |-> store[n].msg, by |-> store[n].by]
    BY <1>0, LogMapped DEF RoomLog
  <2>4. Room!MaySee(c, n)
    BY <1>3, <2>3 DEF Room!MaySee, isEventVisibleTo
  <2>5. Room!Give(c, n)
    BY <1>3, <2>1, <2>2, <2>3, <2>4 DEF Room!Give
  <2> QED BY <2>3, <2>5 DEF Room!Next
<1> QED BY <1>1, <1>2, <1>3 DEF Send, sendVars, givenVars

(* Insert is the device's newest connection taking its slot.                *)
LEMMA InsertMapped ==
    ASSUME Typed, Joining, NEW k \in Conn, Insert(k)
    PROVE  Room!Join(k)
<1>0. pc \in [Thread -> PC] /\ clients \subseteq Conn /\ PeerOf[k] \in Peer
  BY PeerAssumption DEF Typed, TypeOK
<1>1. /\ UNCHANGED <<store, uploading, link, pushed>> /\ pc[k] = "insert"
      /\ pc' = [pc EXCEPT ![k] = "closeOld"] /\ clients' = (clients \ Superseded(k)) \cup {k}
  BY <1>0 DEF Insert, storeVars, sendVars, Goto
<1>2. RoomLog' = RoomLog /\ HasEnded' = HasEnded
  BY <1>1 DEF RoomLog, HasEnded
<1>3. k \notin HasJoined /\ HasJoined' = HasJoined \cup {k}
  <2>1. link[k] # "none"
    BY <1>1 DEF Joining
  <2> QED BY <1>0, <1>1, <2>1 DEF HasJoined
<1>4. RoomSlots' = [RoomSlots EXCEPT ![PeerOf[k]] = k]
  <2>1. Occupant(PeerOf[k])' = {k}
    BY <1>1 DEF Occupant, Superseded
  <2>2. \A p \in Peer \ {PeerOf[k]} : Occupant(p)' = Occupant(p)
    BY <1>1 DEF Occupant, Superseded
  <2>3. RoomSlots'[PeerOf[k]] = k
    BY <1>0, <2>1 DEF RoomSlots
  <2>4. \A p \in Peer \ {PeerOf[k]} : RoomSlots'[p] = RoomSlots[p]
    BY <2>2, SlotKept
  <2>5. /\ RoomSlots = [p \in Peer |-> RoomSlots[p]]
        /\ RoomSlots' = [p \in Peer |-> RoomSlots'[p]]
    BY DEF RoomSlots
  <2> QED BY <2>3, <2>4, <2>5
<1> QED BY <1>1, <1>2, <1>3, <1>4 DEF Room!Join

(* Unregister of a client of the room is the holder giving its slot up.     *)
LEMMA UnregisterMapped ==
    ASSUME Typed, SinglePeerConnection, Joining, NEW k \in Conn, Unregister(k)
    PROVE  [Room!Next]_(Room!roomState)
<1>0. /\ pc \in [Thread -> PC] /\ clients \subseteq Conn /\ PeerOf[k] \in Peer
      /\ link \in [Conn -> {"none", "up", "full", "lost", "closed", "replaced"}]
  BY PeerAssumption DEF Typed, TypeOK
<1>1. /\ UNCHANGED <<store, uploading, pushed>> /\ pc[k] = "ready" /\ ~Online(k)
      /\ \A c \in Conn : pc'[c] \in {"idle", "insert"} <=> pc[c] \in {"idle", "insert"}
      /\ clients' = clients \ {k}
  BY <1>0 DEF Unregister, storeVars, givenVars, Goto
<1>2. CASE k \notin clients
  <2>1. clients' = clients /\ link' = link
    BY <1>1, <1>2 DEF Unregister
  <2> QED BY <1>1, <2>1, EndMapped DEF HasJoined, HasEnded
<1>3. CASE k \in clients
  <2>1. link' = Shut({k}, "closed") /\ link[k] # "none"
    BY <1>1, <1>3 DEF Unregister, Joining
  <2>2. /\ RoomLog' = RoomLog /\ HasJoined' = HasJoined
        /\ HasEnded' = HasEnded \cup {k}
    BY <1>0, <1>1, <2>1 DEF RoomLog, HasJoined, HasEnded, Shut, Alive, Online
  <2>3. Occupant(PeerOf[k]) = {k} /\ Occupant(PeerOf[k])' = {}
    BY <1>0, <1>1, <1>3 DEF Occupant, SinglePeerConnection
  <2>4. \A p \in Peer \ {PeerOf[k]} : Occupant(p)' = Occupant(p)
    BY <1>1 DEF Occupant
  <2>5. RoomSlots[PeerOf[k]] = k
    BY <1>0, <2>3, SlotHeld
  <2>6. RoomSlots' = [RoomSlots EXCEPT ![PeerOf[k]] = NoPeer]
    <3>1. RoomSlots'[PeerOf[k]] = NoPeer
      BY <1>0, <2>3 DEF RoomSlots
    <3>2. \A p \in Peer \ {PeerOf[k]} : RoomSlots'[p] = RoomSlots[p]
      BY <2>4, SlotKept
    <3>3. /\ RoomSlots = [p \in Peer |-> RoomSlots[p]]
          /\ RoomSlots' = [p \in Peer |-> RoomSlots'[p]]
      BY DEF RoomSlots
    <3> QED BY <3>1, <3>2, <3>3
  <2>7. Room!Leave(k)
    BY <1>1, <2>2, <2>5, <2>6 DEF Room!Leave
  <2> QED BY <2>7 DEF Room!Next
<1> QED BY <1>2, <1>3

(* Add posts the event, and hides its file when it announces an upload.     *)
LEMMA AddMapped ==
    ASSUME Typed, Typed', NEW t \in Thread, Add(t)
    PROVE  [Room!Next]_(Room!roomState)
<1>0. PICK n \in Nat : n = Len(store) + 1
  BY LenProperties DEF Typed, TypeOK
<1> DEFINE m   == store'[n].msg
           who == store'[n].by
<1>1. /\ store'[n].by = draft[t].by
      /\ m = IF draft[t].kind \in {"added", "upload"} THEN n ELSE draft[t].msg
  BY <1>0, Stored
<1>2. draft[t] \in Event /\ draft[t].msg <= Len(store) /\ Len(store) \in Nat
  BY LenProperties DEF Typed, TypeOK, WellPlaced
<1>3. m \in 0..Len(store) + 1 /\ who \in Peer \cup {NoPeer}
  BY <1>0, <1>1, <1>2 DEF Event
<1>4. RoomLog' = Append(RoomLog, [msg |-> m, by |-> who])
  BY <1>0, LogAppended
<1>5. /\ Len(RoomLog) = Len(store) /\ Len(RoomLog') = n
  <2>1. store \in Seq(Event) /\ store' \in Seq(Event) /\ Len(store') = n
    BY <1>0, Stored DEF Typed, TypeOK
  <2> QED BY <2>1, LogMapped DEF RoomLog
<1>6. UNCHANGED uploading \/ (m = Len(RoomLog') /\ uploading' = uploading \cup {m})
  BY <1>0, <1>1, <1>5 DEF Add
<1>7. /\ pc[t] = "add" /\ pc' = [pc EXCEPT ![t] = "lock"] /\ pc \in [Thread -> PC]
      /\ UNCHANGED <<clients, link, pushed>>
  BY DEF Add, Goto, roomVars, sendVars, Typed, TypeOK
<1>8. UNCHANGED <<RoomSlots, HasJoined, HasEnded, pushed>>
  BY <1>7 DEF RoomSlots, Occupant, HasJoined, HasEnded
<1> HIDE DEF m, who
<1>9. Room!Post(m, who)
  BY <1>4, <1>6, <1>8 DEF Room!Post
<1> QED BY <1>3, <1>5, <1>9 DEF Room!Next

(* UploadComplete reveals the file the handler announced.                   *)
LEMMA CompleteMapped ==
    ASSUME Typed, DraftInv, NEW w \in Worker, UploadComplete(w)
    PROVE  Room!Reveal(cur[w]) /\ cur[w] \in 1..Len(RoomLog)
<1>1. cur[w] \in 1..Len(store)
  BY DEF UploadComplete, DraftInv, Drafted, Announced
<1>2. Len(RoomLog) = Len(store)
  BY LogMapped DEF RoomLog, Typed, TypeOK
<1>3. /\ UNCHANGED <<store, clients, link, pushed>> /\ uploading' = uploading \ {cur[w]}
      /\ pc' = [pc EXCEPT ![w] = "add"] /\ pc \in [Thread -> PC] /\ pc[w] = "stream"
  BY DEF UploadComplete, Broadcast, Goto, roomVars, sendVars, Typed, TypeOK
<1>4. UNCHANGED <<RoomLog, RoomSlots, HasJoined, HasEnded, pushed>>
  BY <1>3 DEF RoomLog, RoomSlots, Occupant, HasJoined, HasEnded
<1> QED BY <1>1, <1>2, <1>3, <1>4 DEF Room!Reveal

LEMMA InitMapped == Init => Room!Init
<1> SUFFICES ASSUME Init PROVE Room!Init
  OBVIOUS
<1>1. RoomLog = <<>>
  <2>1. store = <<>> /\ store \in Seq(Event)
    BY EmptySeq DEF Init
  <2>2. /\ RoomLog \in Seq([msg: Nat, by: Peer \cup {NoPeer}])
        /\ Len(RoomLog) = Len(store)
    BY <2>1, LogMapped DEF RoomLog
  <2> QED BY <2>1, <2>2, EmptySeq
<1>2. RoomSlots = [p \in Peer |-> NoPeer]
  BY DEF Init, RoomSlots, Occupant
<1>3. HasJoined = {} /\ HasEnded = {}
  BY DEF Init, HasJoined, HasEnded
<1> QED BY <1>1, <1>2, <1>3 DEF Room!Init, Init

LEMMA NextMapped ==
    ASSUME Typed, Typed', ReadersHold, SinglePeerConnection, DraftInv, Joining, [Next]_vars
    PROVE  [Room!Next]_(Room!roomState)
<1> USE DEF storeVars, roomVars, givenVars, castVars, connVars, Goto
<1>0. /\ pc \in [Thread -> PC] /\ clients \subseteq Conn /\ hist \in [Conn -> Page]
      /\ resume \in [Thread -> {"ready", "stream", "kickClose", "gone"}]
      /\ link \in [Conn -> {"none", "up", "full", "lost", "closed", "replaced"}]
  BY DEF Typed, TypeOK
<1>a. ASSUME UNCHANGED <<store, uploading, clients, pushed, link>>,
             \A c \in Conn : pc'[c] \in {"idle", "insert"} <=> pc[c] \in {"idle", "insert"}
      PROVE  [Room!Next]_(Room!roomState)
  BY <1>a, EndMapped DEF HasJoined, HasEnded
<1>1. ASSUME NEW k \in Conn, NEW w \in Watermarks, Connect(k, w)
      PROVE  [Room!Next]_(Room!roomState)
  <2>1. pc[k] = "idle" /\ link[k] = "none"
    BY <1>1 DEF Connect, Joining
  <2>2. /\ \A c \in Conn : c \in HasJoined <=> c \in HasJoined'
        /\ \A c \in Conn : c \in HasEnded => c \in HasEnded'
    BY <1>0, <1>1, <2>1 DEF Connect, HasJoined, HasEnded
  <2> QED BY <1>1, <2>2, EndMapped DEF Connect
<1>2. ASSUME NEW k \in Conn, Insert(k) PROVE [Room!Next]_(Room!roomState)
  BY <1>2, InsertMapped DEF Room!Next
<1>3. ASSUME NEW k \in Conn, CloseOld(k) \/ KickClose(k) PROVE [Room!Next]_(Room!roomState)
  <2>1. /\ \A c \in Conn : c \in HasJoined <=> c \in HasJoined'
        /\ \A c \in Conn : c \in HasEnded => c \in HasEnded'
    BY <1>0, <1>3 DEF CloseOld, KickClose, Shut, Alive, HasJoined, HasEnded
  <2> QED BY <1>3, <2>1, EndMapped DEF CloseOld, KickClose
<1>4. ASSUME NEW k \in Conn, Select(k) \/ Snapshot(k) PROVE [Room!Next]_(Room!roomState)
  BY <1>0, <1>4, <1>a DEF Select, Snapshot, sendVars
<1>5. ASSUME NEW k \in Conn, KickClient(k) PROVE [Room!Next]_(Room!roomState)
  BY <1>0, <1>5, <1>a DEF KickClient, Broadcast, sendVars
<1>6. ASSUME NEW k \in Conn, SendPage(k) PROVE [Room!Next]_(Room!roomState)
  <2>1. PICK n \in 1..Len(store) :
           \/ isEventVisibleTo(k, n) /\ Send(k, {n})
           \/ UNCHANGED sendVars
    BY <1>6, SendPageEffect
  <2>2. k \in HasJoined
    BY <1>6 DEF SendPage, Joining, HasJoined
  <2>3. pc' = pc /\ UNCHANGED <<store, uploading, clients>>
    BY <1>6 DEF SendPage
  <2> QED BY <2>1, <2>2, <2>3, SendMapped
<1>7. ASSUME NEW k \in Conn, EndPage(k) PROVE [Room!Next]_(Room!roomState)
  <2>1. /\ \A c \in Conn : link'[c] = link[c] \/ (link[c] = "full" /\ link'[c] = "closed")
        /\ \A c \in Conn : pushed'[c] = pushed[c]
    <3>1. Send(k, {}) /\ {} \in SUBSET (1..Len(store))
      BY <1>7 DEF EndPage
    <3>2. /\ \A c \in Conn : link'[c] = link[c] \/ (link[c] = "full" /\ link'[c] = "closed")
          /\ \A c \in Conn \ {k} : pushed'[c] = pushed[c]
          /\ pushed[k] \subseteq pushed'[k] /\ pushed'[k] \subseteq pushed[k] \cup {}
      BY <3>1, SendEffect
    <3> QED BY <3>2
  <2>2. /\ \A c \in Conn : c \in HasJoined <=> c \in HasJoined'
        /\ \A c \in Conn : c \in HasEnded => c \in HasEnded'
    BY <1>0, <1>7, <2>1 DEF EndPage, HasJoined, HasEnded
  <2>3. pushed' = pushed
    BY <2>1 DEF Typed, TypeOK
  <2> QED BY <1>7, <2>2, <2>3, EndMapped DEF EndPage
<1>8. ASSUME NEW k \in Conn, Unregister(k) PROVE [Room!Next]_(Room!roomState)
  BY <1>8, UnregisterMapped
<1>9. ASSUME NEW k \in Conn, CommandStep(k) PROVE [Room!Next]_(Room!roomState)
  BY <1>0, <1>9, <1>a DEF CommandStep, SendText, UpdateClient, LoadHistory, RecallMessage, KickHost,
     Command, Broadcast, sendVars
<1>10. ASSUME NEW k \in Conn, Lose(k) \/ Stall(k) \/ WritePump(k)
       PROVE  [Room!Next]_(Room!roomState)
  <2>1. /\ \A c \in Conn : c \in HasJoined <=> c \in HasJoined'
        /\ \A c \in Conn : c \in HasEnded => c \in HasEnded'
    BY <1>0, <1>10 DEF Lose, Stall, WritePump, Shut, Alive, Online, HasJoined, HasEnded
  <2> QED BY <1>10, <2>1, EndMapped DEF Lose, Stall, WritePump
<1>11. ASSUME NEW t \in Thread, Add(t) PROVE [Room!Next]_(Room!roomState)
  BY <1>11, AddMapped
<1>12. ASSUME NEW t \in Thread, FanStart(t) \/ FanDone(t) PROVE [Room!Next]_(Room!roomState)
  BY <1>0, <1>12, <1>a DEF FanStart, FanDone, sendVars
<1>13. ASSUME NEW t \in Thread, FanSend(t) PROVE [Room!Next]_(Room!roomState)
  <2>1. PICK c \in left[t] :
           /\ c \in Conn /\ cur[t] \in 1..Len(store)
           /\ \/ isEventVisibleTo(c, cur[t]) /\ Send(c, {cur[t]})
              \/ UNCHANGED sendVars
    BY <1>13, FanSendEffect
  <2>2. c \in HasJoined
    BY <2>1 DEF ReadersHold, Joining, HasJoined
  <2>3. pc' = pc /\ UNCHANGED <<store, uploading, clients>>
    BY <1>13 DEF FanSend
  <2> QED BY <2>1, <2>2, <2>3, SendMapped
<1>14. ASSUME NEW x \in Worker, UploadInit(x) \/ UploadFail(x)
       PROVE  [Room!Next]_(Room!roomState)
  <2>1. \A k \in Conn : pc'[k] = pc[k]
    BY <1>0, <1>14, ThreadAssumption DEF UploadInit, UploadFail, Broadcast
  <2> QED BY <1>14, <1>a, <2>1 DEF UploadInit, UploadFail, sendVars
<1>15. ASSUME NEW x \in Worker, UploadComplete(x) PROVE [Room!Next]_(Room!roomState)
  BY <1>15, CompleteMapped DEF Room!Next
<1>16. CASE UNCHANGED vars
  BY <1>16, <1>a DEF vars
<1> QED BY <1>1, <1>2, <1>3, <1>4, <1>5, <1>6, <1>7, <1>8, <1>9, <1>10, <1>11, <1>12, <1>13,
           <1>14, <1>15, <1>16 DEF Next, HandlerStep, BroadcastStep, UploadStep, Terminated

-----------------------------------------------------------------------------
(* The theorems                                                             *)

(* All that the proofs above need of a state; the initial state has it.     *)
RoomInv == Typed /\ ReadersHold /\ LogInv /\ DraftInv /\ Joining /\ SeenInv

THEOREM RoomInvariant == Spec => []RoomInv
<1>1. Init => RoomInv
  <2> SUFFICES ASSUME Init PROVE RoomInv
    OBVIOUS
  <2>1. Typed
    BY InitTyped
  <2>2. ReadersHold /\ LogInv /\ SeenInv
    BY EmptySeq DEF Init, ReadersHold, LogInv, SeenInv
  <2>3. DraftInv
    BY DEF Init, DraftInv, Drafted
  <2>4. Joining
    BY EventTypes DEF Init, Joining
  <2> QED BY <2>1, <2>2, <2>3, <2>4 DEF RoomInv
<1>2. RoomInv /\ [Next]_vars => RoomInv'
  BY TypedStep, ReadersHoldStep, LogStep, DraftStep, JoiningStep, SeenStep DEF RoomInv
<1> QED BY <1>1, <1>2, PTL DEF Spec

(* A client that was given a message before it was recalled is given the    *)
(* recall, or will be by the handler that announces it: whatever broadcasts,*)
(* replays and uploads run beside each other (RecallReaches).               *)
THEOREM RecallsReach == Spec => []RecallReaches
<1>1. Init => RecallReaches
  BY DEF Init, RecallReaches
<1>2. RoomInv /\ UploadHidden /\ RecallReaches /\ [Next]_vars => RecallReaches'
  BY RecallStep DEF RoomInv
<1> QED BY <1>1, <1>2, RoomInvariant, UploadsStayHidden, PTL DEF Spec

(* Nothing that is owed to a connection falls between its replay and the    *)
(* live stream (ReplayMeetsLive), as long as a browser that resumes keeps   *)
(* the boundary of its join.                                                *)
THEOREM ReplaysMeetLive == ASSUME KeepsBoundary PROVE Spec => []ReplayMeetsLive
<1>1. Init => Cursors /\ ReplayMeetsLive
  <2> SUFFICES ASSUME Init PROVE Cursors /\ ReplayMeetsLive
    OBVIOUS
  <2>1. Cursors
    <3>1. Len(store) = 0 /\ NoPage.todo = {}
      BY EmptySeq, EventTypes DEF Init
    <3> QED BY <3>1 DEF Init, Cursors, CursorsAt
  <2> QED BY <2>1 DEF Init, ReplayMeetsLive
<1>2. RoomInv /\ Cursors /\ ReplayMeetsLive /\ [Next]_vars => Cursors' /\ ReplayMeetsLive'
  BY CursorsStep, ReplayStep DEF RoomInv
<1> QED BY <1>1, <1>2, RoomInvariant, PTL DEF Spec

(* The session implements ChatRoom: every step of its goroutines is a step  *)
(* of the room, or changes nothing the room has (RoomSpec).                 *)
THEOREM SessionImplementsRoom == Spec => RoomSpec
<1>1. Init => Room!Init
  BY InitMapped
<1>2. RoomInv /\ RoomInv' /\ SinglePeerConnection /\ [Next]_vars
         => [Room!Next]_(Room!roomState)
  BY NextMapped DEF RoomInv
<1> QED BY <1>1, <1>2, RoomInvariant, OneConnectionPerPeer, PTL DEF Spec, RoomSpec, Room!Spec
=============================================================================
