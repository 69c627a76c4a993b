---------------------------- MODULE ChatSession ----------------------------
(***************************************************************************)
(* The chat room of pkg/chat/v2/session (Session, Client, MessageStore)    *)
(* and the command loop of pkg/chat/v2/transport that drives it.           *)
(*                                                                         *)
(* Every WebSocket connection has a handler goroutine (a Thread, with a    *)
(* program counter) and a write pump; HTTP upload handlers are further     *)
(* threads.  Session.mu is a readers/writer lock: a fan-out holds it for   *)
(* reading across all its sends, so the actions that take it for writing   *)
(* wait for NoReaders.  The message store has a lock of its own, which is  *)
(* why storing an event and fanning it out are two steps.                  *)
(***************************************************************************)
EXTENDS Naturals, Sequences, FiniteSets

CONSTANTS
    Conn,            \* connections: one Client object each, never reused
    Worker,          \* HTTP upload handlers
    Peer,            \* device identities
    PeerOf,          \* the device of a connection, the sender of an upload
    Desktop,         \* the peer of the desktop host
    NoPeer,          \* SenderID of an event that carries no message
    Watermarks,      \* <<afterSeq, joinSeq>> pairs a connect command may carry
    PageSize,        \* DefaultHistoryPageSize
    MaxCommands,     \* bound: commands and uploads in a behaviour
    MaxFaults,       \* bound: times a browser stops reading or a write fails
    SystemMessages   \* ~DisableSystemMessages

Thread == Conn \cup Worker

ASSUME ThreadAssumption == Conn \cap Worker = {}
ASSUME PeerAssumption ==
    PeerOf \in [Thread -> Peer] /\ Desktop \in Peer /\ NoPeer \notin Peer
ASSUME BoundAssumption ==
    /\ Watermarks \subseteq Nat \X Nat
    /\ PageSize \in Nat \ {0} /\ MaxCommands \in Nat /\ MaxFaults \in Nat
    /\ SystemMessages \in BOOLEAN

VARIABLES
    store,      \* MessageStore.events; an event's Seq is its index
    uploading,  \* messages with Uploading = true, named by the seq that added them
    recalled,   \* messages with Recalled = true
    clients,    \* Session.clients
    link,       \* a connection's socket, done channel and send queue (full or not)
    kicked,     \* Client.Kicked
    kickedPeer, \* the host's table of devices forced offline
    pc,         \* where each thread is
    wm,         \* the <<afterSeq, joinSeq>> a connection asked to resume from
    hist,       \* the history page a handler is selecting and sending
    draft,      \* the event a thread is about to store
    cur,        \* the seq of the event a thread is fanning out
    left,       \* the clients a fan-out has still to visit
    notice,     \* whether a system notice follows the presence broadcast
    resume,     \* where a thread continues after its broadcasts
    target,     \* the connections a handler is about to close
    hello,      \* history variable: the Seq sent in a connection's hello
    due,        \* history variable: the seq its replay started from
    pushed,     \* history variable: the seqs accepted by a connection's Send
    seen,       \* history variable: the messages pushed before their recall
    budget,     \* commands left
    faults      \* faults left

vars == <<store, uploading, recalled, clients, link, kicked, kickedPeer,
          pc, wm, hist, draft, cur, left, notice, resume, target, hello,
          due, pushed, seen, budget, faults>>
storeVars == <<store, uploading, recalled>>
roomVars  == <<clients, kicked, kickedPeer>>
givenVars == <<pushed, seen>>
sendVars  == <<link, pushed, seen>>
castVars  == <<draft, cur, left, notice, resume>>
connVars  == <<wm, hist, hello, due, target>>

-----------------------------------------------------------------------------
(* Events and their visibility *)

(* "upload" is a message_added whose file is still uploading. *)
Kind  == {"added", "upload", "updated", "recalled", "presence"}
Event == [kind: Kind, msg: Nat, by: Peer \cup {NoPeer}, roster: SUBSET Conn]
Page  == [floor: Nat, ceiling: Nat, todo: SUBSET Nat, more: BOOLEAN,
          oldest: Nat, sent: BOOLEAN]

MessageEvent(kind, msg, by) ==
    [kind |-> kind, msg |-> msg, by |-> by, roster |-> {}]
PresenceEvent(devices) ==
    [kind |-> "presence", msg |-> 0, by |-> NoPeer, roster |-> devices]
NoDraft == PresenceEvent({})
NoPage  == [floor |-> 0, ceiling |-> 0, todo |-> {}, more |-> FALSE,
            oldest |-> 0, sent |-> FALSE]

IsMessage(n) == store[n].kind # "presence"

(* Mutant: nothing is withheld. *)
isEventVisibleToAnyone(c, n) == TRUE

(* isEventVisibleTo: a file still uploading is shown to its sender and to   *)
(* the desktop only.  The flag is read when the event is sent, through the  *)
(* Message pointer all events of one message share.                         *)
isEventVisibleTo(c, n) ==
    store[n].msg \in uploading => PeerOf[c] \in {store[n].by, Desktop}

(* ResolveReplayStartSeq *)
ResolveReplayStartSeq(afterSeq, joinSeq, currentSeq) ==
    IF afterSeq > 0 /\ joinSeq > 0
    THEN IF afterSeq >= joinSeq THEN afterSeq ELSE joinSeq
    ELSE IF afterSeq > 0 THEN afterSeq
    ELSE IF joinSeq > 0 THEN joinSeq ELSE currentSeq

(* SelectMessageHistoryPage: the message events strictly between the two    *)
(* cursors (no upper cursor when it is 0), and the newest PageSize of them. *)
Matched(floor, ceiling) ==
    {n \in 1..Len(store) : IsMessage(n) /\ n > floor /\ (ceiling > 0 => n < ceiling)}
Newest(S) == {n \in S : Cardinality({m \in S : m > n}) < PageSize}
Oldest(S) == {n \in S : \A m \in S : n <= m}

-----------------------------------------------------------------------------
(* Client.Send and Client.Close *)

Alive(c) == link[c] \in {"up", "full", "lost"}  \* c.done is not closed
Online(c) == link[c] \in {"up", "full"}
Shut(S, how) == [c \in Conn |-> IF c \in S /\ Alive(c) THEN how ELSE link[c]]

(* Mutants: an event that finds the queue full is dropped, or waits for ever. *)
SendOrDrop(c, ns) ==
    \/ link[c] \notin {"up", "lost"} /\ UNCHANGED sendVars
    \/ /\ link[c] \in {"up", "lost"}
       /\ pushed' = [pushed EXCEPT ![c] = @ \cup ns]
       /\ seen' = [seen EXCEPT ![c] = @ \cup
                     ({store[n].msg : n \in {i \in ns : IsMessage(i)}} \ recalled)]
       /\ UNCHANGED link
SendOrWait(c, ns) == link[c] # "full" /\ SendOrDrop(c, ns)

(* Refused because done is closed, accepted because the queue has room, or  *)
(* the client closed because the queue stayed full for 200 ms (a queue that *)
(* drains in time is the second case).  ns holds the seq of the event that  *)
(* is sent; it is empty for a history_page cursor.                          *)
Send(c, ns) ==
    \/ /\ ~Alive(c)
       /\ UNCHANGED sendVars
    \/ /\ link[c] \in {"up", "lost"}
       /\ pushed' = [pushed EXCEPT ![c] = @ \cup ns]
       /\ seen' = [seen EXCEPT ![c] = @ \cup
                     ({store[n].msg : n \in {i \in ns : IsMessage(i)}} \ recalled)]
       /\ UNCHANGED link
    \/ /\ link[c] = "full"
       /\ link' = Shut({c}, "closed")
       /\ UNCHANGED givenVars

NoReaders == \A t \in Thread : pc[t] # "fan"

Goto(t, l) == pc' = [pc EXCEPT ![t] = l]

-----------------------------------------------------------------------------
(* CommandConnect and Session.Register *)

(* The kick tables are consulted once, before the client object exists;     *)
(* then NewClient, its WritePump, and the hello that carries CurrentSeq.    *)
Connect(k, w) ==
    /\ pc[k] = "idle"
    /\ w[1] <= Len(store) /\ w[2] <= Len(store)
    /\ \/ /\ PeerOf[k] \in kickedPeer
          /\ Goto(k, "gone")
          /\ UNCHANGED <<link, wm, hello>>
       \/ /\ PeerOf[k] \notin kickedPeer
          /\ wm' = [wm EXCEPT ![k] = w]
          /\ hello' = [hello EXCEPT ![k] = Len(store)]
          /\ link' = [link EXCEPT ![k] = "up"]
          /\ Goto(k, "insert")
    /\ UNCHANGED <<storeVars, roomVars, givenVars, castVars, hist, due, target, budget, faults>>

SupersededForgotten(k) == {}  \* mutant: the old tab keeps its place
Superseded(k) == {c \in clients : PeerOf[c] = PeerOf[k] /\ c # k}

(* The locked part of Register.  The notice announces a join, a reconnect   *)
(* or a rename; the desktop's is left out unless its label changed since.   *)
Insert(k) ==
    /\ pc[k] = "insert" /\ NoReaders
    /\ clients' = (clients \ Superseded(k)) \cup {k}
    /\ target' = [target EXCEPT ![k] = Superseded(k)]
    /\ \E renamed \in BOOLEAN :
          notice' = [notice EXCEPT ![k] =
             /\ SystemMessages
             /\ PeerOf[k] # Desktop \/ (renamed /\ Superseded(k) # {})]
    /\ resume' = [resume EXCEPT ![k] = "ready"]
    /\ Goto(k, "closeOld")
    /\ UNCHANGED <<storeVars, kicked, kickedPeer, sendVars, draft, cur, left,
                   wm, hist, hello, due, budget, faults>>

(* CloseReplaced on what was superseded, then the replay cursor: two steps  *)
(* of the code that nothing tells apart when taken as one.                  *)
CloseOld(k) ==
    /\ pc[k] = "closeOld"
    /\ link' = Shut(target[k], "replaced")
    /\ target' = [target EXCEPT ![k] = {}]
    /\ hist' = [hist EXCEPT ![k] = [NoPage EXCEPT !.floor =
                  ResolveReplayStartSeq(wm[k][1], wm[k][2], Len(store))]]
    /\ due' = [due EXCEPT ![k] = hist'[k].floor]
    /\ Goto(k, "select")
    /\ UNCHANGED <<storeVars, roomVars, givenVars, castVars, wm, hello, budget, faults>>

(* sendHistoryPage: select, send what is visible oldest first, then the     *)
(* history_page cursor.  An all-filtered page keeps its oldest candidate.   *)
Select(k) ==
    /\ pc[k] = "select"
    /\ LET all  == Matched(hist[k].floor, hist[k].ceiling)
           page == Newest(all)
       IN \E first \in IF page = {} THEN {0} ELSE Oldest(page) :
             hist' = [hist EXCEPT ![k].todo = page, ![k].more = (page # all),
                                  ![k].oldest = first]
    /\ Goto(k, "page")
    /\ UNCHANGED <<storeVars, roomVars, sendVars, castVars, wm, hello, due, target, budget, faults>>

SendPage(k) ==
    /\ pc[k] = "page"
    /\ \E n \in Oldest(hist[k].todo) :
         \/ /\ isEventVisibleTo(k, n)
            /\ Send(k, {n})
            /\ hist' = [hist EXCEPT ![k].todo = @ \ {n}, ![k].sent = TRUE,
                          ![k].oldest = IF hist[k].sent THEN @ ELSE n]
         \/ /\ ~isEventVisibleTo(k, n)
            /\ hist' = [hist EXCEPT ![k].todo = @ \ {n}]
            /\ UNCHANGED sendVars
    /\ UNCHANGED <<storeVars, roomVars, pc, castVars, wm, hello, due, target, budget, faults>>

EndPage(k) ==
    /\ pc[k] = "page" /\ hist[k].todo = {}
    /\ Send(k, {})
    /\ Goto(k, IF hist[k].ceiling = 0 THEN "snap" ELSE "ready")
    /\ UNCHANGED <<storeVars, roomVars, castVars, connVars, budget, faults>>

-----------------------------------------------------------------------------
(* Broadcast, broadcastPresence, broadcastSystemMessage *)

(* broadcastPresence copies the client list under the read lock, ...        *)
Snapshot(k) ==
    /\ pc[k] = "snap"
    /\ draft' = [draft EXCEPT ![k] = PresenceEvent(clients)]
    /\ Goto(k, "add")
    /\ UNCHANGED <<storeVars, roomVars, sendVars, cur, left, notice, resume,
                   connVars, budget, faults>>

(* ... MessageStore.Add assigns the sequence number under its own lock, ... *)
Add(t) ==
    /\ pc[t] = "add"
    /\ LET n == Len(store) + 1
           e == draft[t]
       IN /\ store' = Append(store, IF e.kind \in {"added", "upload"}
                                   THEN [e EXCEPT !.msg = n] ELSE e)
          /\ cur' = [cur EXCEPT ![t] = n]
          /\ uploading' = IF e.kind = "upload" THEN uploading \cup {n} ELSE uploading
    /\ draft' = [draft EXCEPT ![t] = NoDraft]
    /\ Goto(t, "lock")
    /\ UNCHANGED <<recalled, roomVars, sendVars, left, notice, resume,
                   connVars, budget, faults>>

(* ... and the fan-out visits every client with the read lock held.         *)
FanStart(t) ==
    /\ pc[t] = "lock"
    /\ left' = [left EXCEPT ![t] = clients]
    /\ Goto(t, "fan")
    /\ UNCHANGED <<storeVars, roomVars, sendVars, draft, cur, notice, resume,
                   connVars, budget, faults>>

(* Mutant: the loop ends at the first client that is closed. *)
FanSendUntilFailure(t) ==
    /\ pc[t] = "fan"
    /\ \E c \in left[t] :
          /\ left' = [left EXCEPT ![t] = IF Alive(c) THEN @ \ {c} ELSE {}]
          /\ \/ isEventVisibleTo(c, cur[t]) /\ Send(c, {cur[t]})
             \/ ~isEventVisibleTo(c, cur[t]) /\ UNCHANGED sendVars
    /\ UNCHANGED <<storeVars, roomVars, pc, draft, cur, notice, resume,
                   connVars, budget, faults>>

FanSend(t) ==
    /\ pc[t] = "fan"
    /\ \E c \in left[t] :
          /\ left' = [left EXCEPT ![t] = @ \ {c}]
          /\ \/ isEventVisibleTo(c, cur[t]) /\ Send(c, {cur[t]})
             \/ ~isEventVisibleTo(c, cur[t]) /\ UNCHANGED sendVars
    /\ UNCHANGED <<storeVars, roomVars, pc, draft, cur, notice, resume,
                   connVars, budget, faults>>

FanDone(t) ==
    /\ pc[t] = "fan" /\ left[t] = {}
    /\ notice' = [notice EXCEPT ![t] = FALSE]
    /\ \/ /\ notice[t]
          /\ draft' = [draft EXCEPT ![t] = MessageEvent("added", 0, PeerOf[t])]
          /\ Goto(t, "add")
       \/ /\ ~notice[t]
          /\ Goto(t, resume[t])
          /\ UNCHANGED draft
    /\ UNCHANGED <<storeVars, roomVars, sendVars, cur, left, resume, connVars, budget, faults>>

-----------------------------------------------------------------------------
(* The other commands of a connected client *)

Command(k) ==
    /\ pc[k] = "ready" /\ Online(k) /\ budget > 0
    /\ budget' = budget - 1

Broadcast(t, e, next) ==
    /\ draft' = [draft EXCEPT ![t] = e]
    /\ resume' = [resume EXCEPT ![t] = next]
    /\ Goto(t, "add")

SendText(k) ==
    /\ Command(k)
    /\ Broadcast(k, MessageEvent("added", 0, PeerOf[k]), "ready")
    /\ UNCHANGED <<storeVars, roomVars, sendVars, cur, left, notice, connVars, faults>>

(* Only the sender may recall; the store marks the shared message. *)
RecallMessage(k, m) ==
    /\ Command(k)
    /\ store[m].kind \in {"added", "upload"} /\ store[m].by = PeerOf[k]
    /\ recalled' = recalled \cup {m}
    /\ Broadcast(k, MessageEvent("recalled", m, PeerOf[k]), "ready")
    /\ UNCHANGED <<store, uploading, roomVars, sendVars, cur, left, notice, connVars, faults>>

(* A changed label or avatar is announced; an unchanged one only refreshes. *)
UpdateClient(k) ==
    /\ Command(k) /\ NoReaders
    /\ \E renamed \in BOOLEAN :
          notice' = [notice EXCEPT ![k] = SystemMessages /\ renamed]
    /\ resume' = [resume EXCEPT ![k] = "ready"]
    /\ Goto(k, "snap")
    /\ UNCHANGED <<storeVars, roomVars, sendVars, draft, cur, left, connVars, faults>>

(* The browser asks for the page before the oldest seq it was given, down   *)
(* to its join boundary, which is the first hello's Seq it ever stored.     *)
LoadHistory(k) ==
    /\ Command(k)
    /\ hist[k].more /\ hist[k].oldest > 0
    /\ hist' = [hist EXCEPT ![k] = [NoPage EXCEPT
                  !.floor = IF wm[k][2] > 0 THEN wm[k][2] ELSE hello[k],
                  !.ceiling = hist[k].oldest]]
    /\ Goto(k, "select")
    /\ UNCHANGED <<storeVars, roomVars, sendVars, castVars, wm, hello, due, target, faults>>

(* CommandKickClient: GetClient, the host's table, then Session.KickClient. *)
KickHost(k, v) ==
    /\ Command(k) /\ NoReaders
    /\ PeerOf[k] = Desktop /\ v \in clients
    /\ kickedPeer' = kickedPeer \cup {PeerOf[v]}
    /\ target' = [target EXCEPT ![k] = {v}]
    /\ Goto(k, "kick")
    /\ UNCHANGED <<storeVars, clients, kicked, sendVars, castVars, wm, hist, hello, due, faults>>

KickClient(k) ==
    /\ pc[k] = "kick" /\ NoReaders
    /\ \/ /\ ~(target[k] \subseteq clients)
          /\ target' = [target EXCEPT ![k] = {}]
          /\ Goto(k, "ready")
          /\ UNCHANGED <<kicked, draft, resume>>
       \/ /\ target[k] \subseteq clients
          /\ UNCHANGED target
          /\ kicked' = kicked \cup target[k]
          /\ \E v \in target[k] :
                IF SystemMessages
                THEN Broadcast(k, MessageEvent("added", 0, PeerOf[v]), "kickClose")
                ELSE Goto(k, "kickClose") /\ UNCHANGED <<draft, resume>>
    /\ UNCHANGED <<storeVars, clients, kickedPeer, sendVars, cur, left, notice,
                   wm, hist, hello, due, budget, faults>>

(* Mutant: the device is announced as forced offline and left connected. *)
KickCloseForgotten(k) ==
    /\ pc[k] = "kickClose"
    /\ target' = [target EXCEPT ![k] = {}]
    /\ Goto(k, "ready")
    /\ UNCHANGED <<storeVars, roomVars, sendVars, castVars, wm, hist, hello, due, budget, faults>>

KickClose(k) ==
    /\ pc[k] = "kickClose"
    /\ link' = Shut(target[k], "closed")
    /\ target' = [target EXCEPT ![k] = {}]
    /\ Goto(k, "ready")
    /\ UNCHANGED <<storeVars, roomVars, givenVars, castVars, wm, hist, hello, due, budget, faults>>

-----------------------------------------------------------------------------
(* The end of a connection *)

(* The browser or the network goes away while the handler reads; a loss     *)
(* while it is busy shows first as a failing write.                         *)
Lose(k) ==
    /\ pc[k] = "ready" /\ Online(k)
    /\ link' = [link EXCEPT ![k] = "lost"]
    /\ UNCHANGED <<storeVars, roomVars, givenVars, pc, castVars, connVars, budget, faults>>

HasOther(k) == \E c \in clients \ {k} : PeerOf[c] = PeerOf[k]

(* Mutants: the room forgets the device and not the connection, or nothing. *)
UnregisterPeer(k) ==
    /\ pc[k] = "ready" /\ ~Online(k) /\ NoReaders
    /\ clients' = {c \in clients : PeerOf[c] # PeerOf[k]}
    /\ link' = Shut({k}, "closed")
    /\ Goto(k, "gone")
    /\ UNCHANGED <<storeVars, kicked, kickedPeer, givenVars, castVars,
                   connVars, budget, faults>>
UnregisterNothing(k) ==
    /\ pc[k] = "ready" /\ ~Online(k) /\ NoReaders
    /\ link' = Shut({k}, "closed")
    /\ Goto(k, "gone")
    /\ UNCHANGED <<storeVars, roomVars, givenVars, castVars, connVars, budget, faults>>

(* The read loop fails and the deferred Unregister runs.  A connection that *)
(* was superseded is no longer in the room and says nothing.                *)
Unregister(k) ==
    /\ pc[k] = "ready" /\ ~Online(k) /\ NoReaders
    /\ clients' = clients \ {k}
    /\ \/ /\ k \in clients
          /\ link' = Shut({k}, "closed")
          /\ notice' = [notice EXCEPT ![k] = SystemMessages /\ ~HasOther(k)
                          /\ k \notin kicked /\ PeerOf[k] # Desktop]
          /\ resume' = [resume EXCEPT ![k] = "gone"]
          /\ Goto(k, "snap")
       \/ /\ k \notin clients
          /\ Goto(k, "gone")
          /\ UNCHANGED <<link, notice, resume>>
    /\ UNCHANGED <<storeVars, kicked, kickedPeer, givenVars, draft, cur, left,
                   connVars, budget, faults>>

(* A browser that stops reading lets its queue fill; WritePump empties it   *)
(* when it reads again, and closes the client when a write fails, as it     *)
(* does on a connection that is lost.                                       *)
Stall(k) ==
    /\ link[k] = "up" /\ faults > 0
    /\ faults' = faults - 1
    /\ link' = [link EXCEPT ![k] = "full"]
    /\ UNCHANGED <<storeVars, roomVars, givenVars, pc, castVars, connVars, budget>>

WritePump(k) ==
    /\ \/ link[k] = "full" /\ link' = [link EXCEPT ![k] = "up"] /\ UNCHANGED faults
       \/ /\ Alive(k)
          /\ Online(k) => faults > 0
          /\ faults' = IF Online(k) THEN faults - 1 ELSE faults
          /\ link' = Shut({k}, "closed")
    /\ UNCHANGED <<storeVars, roomVars, givenVars, pc, castVars, connVars, budget>>

-----------------------------------------------------------------------------
(* HTTP uploads: announce the file, stream it, mark it complete, say so.    *)

UploadInit(w) ==
    /\ pc[w] = "idle" /\ budget > 0
    /\ budget' = budget - 1
    /\ Broadcast(w, MessageEvent("upload", 0, PeerOf[w]), "stream")
    /\ UNCHANGED <<storeVars, roomVars, sendVars, cur, left, notice, connVars, faults>>

UploadComplete(w) ==
    /\ pc[w] = "stream"
    /\ uploading' = uploading \ {cur[w]}
    /\ Broadcast(w, MessageEvent("updated", cur[w], PeerOf[w]), "gone")
    /\ UNCHANGED <<store, recalled, roomVars, sendVars, cur, left, notice,
                   connVars, budget, faults>>

UploadFail(w) ==
    /\ pc[w] = "stream"
    /\ Goto(w, "gone")
    /\ UNCHANGED <<storeVars, roomVars, sendVars, castVars, connVars, budget, faults>>

-----------------------------------------------------------------------------
Init ==
    /\ store = <<>> /\ uploading = {} /\ recalled = {}
    /\ clients = {} /\ kicked = {} /\ kickedPeer = {}
    /\ link = [k \in Conn |-> "none"]
    /\ pc = [t \in Thread |-> "idle"]
    /\ wm = [k \in Conn |-> <<0, 0>>]
    /\ hist = [k \in Conn |-> NoPage]
    /\ draft = [t \in Thread |-> NoDraft]
    /\ cur = [t \in Thread |-> 0]
    /\ left = [t \in Thread |-> {}]
    /\ notice = [t \in Thread |-> FALSE]
    /\ resume = [t \in Thread |-> "ready"]
    /\ target = [k \in Conn |-> {}]
    /\ hello = [k \in Conn |-> 0]
    /\ due = [k \in Conn |-> 0]
    /\ pushed = [k \in Conn |-> {}]
    /\ seen = [k \in Conn |-> {}]
    /\ budget = MaxCommands /\ faults = MaxFaults

(* The steps a handler goroutine takes once it has begun an operation. *)
HandlerStep(k) ==
    \/ Insert(k) \/ CloseOld(k) \/ Select(k)
    \/ SendPage(k) \/ EndPage(k) \/ Snapshot(k) \/ KickClient(k) \/ KickClose(k)
    \/ Unregister(k)

BroadcastStep(t) == Add(t) \/ FanStart(t) \/ FanSend(t) \/ FanDone(t)

CommandStep(k) ==
    \/ SendText(k) \/ UpdateClient(k) \/ LoadHistory(k)
    \/ \E m \in 1..Len(store) : RecallMessage(k, m)
    \/ \E v \in Conn : KickHost(k, v)

UploadStep(w) == UploadInit(w) \/ UploadComplete(w) \/ UploadFail(w)

(* Every connection has come and gone: nothing is left to happen. *)
Terminated ==
    /\ \A k \in Conn : pc[k] = "gone"
    /\ \A w \in Worker : pc[w] = "gone" \/ (pc[w] = "idle" /\ budget = 0)
    /\ UNCHANGED vars

Next ==
    \/ \E k \in Conn :
          \/ \E w \in Watermarks : Connect(k, w)
          \/ HandlerStep(k) \/ CommandStep(k)
          \/ Lose(k) \/ Stall(k) \/ WritePump(k)
    \/ \E t \in Thread : BroadcastStep(t)
    \/ \E w \in Worker : UploadStep(w)
    \/ Terminated

Spec == Init /\ [][Next]_vars

(* Goroutines that can run do run; nobody is obliged to connect, to send a  *)
(* command, to lose a connection or to finish an upload.                    *)
Fairness ==
    /\ \A k \in Conn : WF_vars(HandlerStep(k))
    /\ \A t \in Thread : WF_vars(BroadcastStep(t))

FairSpec == Spec /\ Fairness

-----------------------------------------------------------------------------
PC == {"idle", "insert", "closeOld", "select", "page",
       "snap", "add", "lock", "fan", "ready", "kick", "kickClose", "stream", "gone"}

(* Type invariant. *)
TypeOK ==
    /\ store \in Seq(Event)
    /\ uploading \subseteq Nat /\ recalled \subseteq Nat
    /\ clients \subseteq Conn /\ kicked \subseteq Conn /\ kickedPeer \subseteq Peer
    /\ link \in [Conn -> {"none", "up", "full", "lost", "closed", "replaced"}]
    /\ pc \in [Thread -> PC]
    /\ wm \in [Conn -> Nat \X Nat]
    /\ hist \in [Conn -> Page]
    /\ draft \in [Thread -> Event]
    /\ cur \in [Thread -> Nat]
    /\ left \in [Thread -> SUBSET Conn]
    /\ notice \in [Thread -> BOOLEAN]
    /\ resume \in [Thread -> {"ready", "stream", "kickClose", "gone"}]
    /\ target \in [Conn -> SUBSET Conn]
    /\ hello \in [Conn -> Nat]
    /\ due \in [Conn -> Nat]
    /\ pushed \in [Conn -> SUBSET Nat]
    /\ seen \in [Conn -> SUBSET Nat]
    /\ budget \in Nat /\ faults \in Nat

(* "At most one live connection per peer is kept in a room" (Register), and *)
(* a connection dropped from the room is closed or about to be: the handler *)
(* that superseded it has not reached CloseReplaced yet.                    *)
SinglePeerConnection ==
    /\ \A c, d \in clients : PeerOf[c] = PeerOf[d] => c = d
    /\ \A c \in Conn : c \notin clients /\ Alive(c) =>
          \/ pc[c] = "insert"
          \/ \E k \in Conn : c \in target[k] /\ pc[k] = "closeOld"

(* A fan-out only ever visits clients that are still in the room: nobody    *)
(* leaves or is replaced between the start of the loop and its last send.   *)
FanoutWithinRoom == \A t \in Thread : left[t] \subseteq clients

(* The replay and the live stream meet without a gap: a message stored after*)
(* the replay cursor has reached a registered connection, or is on its way  *)
(* in a fan-out that has yet to visit it or in the page being sent, or the  *)
(* history_page cursor the client holds still leads to it.  An upload may   *)
(* be withheld; the update that completes it may not.                       *)
Owed(n) ==
    /\ IsMessage(n)
    /\ store[n].kind = "updated" \/ store[store[n].msg].kind = "added"
OnItsWay(k, n) ==
    \/ n \in hist[k].todo
    \/ \E t \in Thread : cur[t] = n /\ (pc[t] = "lock" \/ (pc[t] = "fan" /\ k \in left[t]))
OnOlderPage(k, n) ==
    \/ pc[k] = "select" /\ n < hist[k].ceiling
    \/ hist[k].more /\ n < hist[k].oldest
Replayed(k) ==
    /\ pc[k] \notin {"idle", "insert", "closeOld"}
    /\ pc[k] = "select" => hist[k].ceiling > 0
ReplayMeetsLive ==
    \A k \in clients : Replayed(k) /\ Online(k) =>
        \A n \in 1..Len(store) : Owed(n) /\ n > due[k] =>
            n \in pushed[k] \/ OnItsWay(k, n) \/ OnOlderPage(k, n)

(* A recall catches up with every copy: a client that was given a message   *)
(* before it was recalled is given the recall, or will be by the handler    *)
(* that is announcing it.                                                   *)
RecallComing(k, m) ==
    \/ \E n \in pushed[k] : store[n].kind = "recalled" /\ store[n].msg = m
    \/ \E t \in Thread : pc[t] = "add" /\ draft[t].kind = "recalled" /\ draft[t].msg = m
    \/ \E n \in 1..Len(store) :
          store[n].kind = "recalled" /\ store[n].msg = m /\ OnItsWay(k, n)
RecallReaches ==
    \A k \in clients : Online(k) => \A m \in seen[k] \cap recalled : RecallComing(k, m)

(* A file that is still uploading is known to its sender and to the desktop *)
(* only, by the live stream and by replay alike.                            *)
UploadHidden ==
    \A k \in Conn : \A n \in pushed[k] :
        store[n].msg \in uploading => PeerOf[k] \in {store[n].by, Desktop}

(* A device the host forced offline is closed, or the host's handler is     *)
(* announcing it on the way to the close.                                   *)
KickCloses ==
    \A k \in kicked : Alive(k) =>
        \E d \in Conn : k \in target[d] /\ "kickClose" \in {pc[d], resume[d]}

(* Liveness: a connection that was closed or lost leaves the room.          *)
DeadLeaves == \A k \in Conn : (k \in clients /\ ~Online(k)) ~> (k \notin clients)

(* Liveness: a client that stops reading cannot hold up a broadcast; its    *)
(* full queue costs it the connection, and the loop goes on.                *)
BroadcastReturns == \A t \in Thread : (pc[t] = "lock") ~> (pc[t] \notin {"lock", "fan"})

-----------------------------------------------------------------------------
(* The room ChatSession implements: the device's slot is held by its one    *)
(* client in the room, and a connection has joined once Insert has run.     *)

Occupant(p) == {c \in clients : PeerOf[c] = p}

RoomLog   == [n \in DOMAIN store |-> [msg |-> store[n].msg, by |-> store[n].by]]
RoomSlots == [p \in Peer |-> IF Occupant(p) = {} THEN NoPeer
                             ELSE CHOOSE c \in Occupant(p) : TRUE]
HasJoined == {k \in Conn : pc[k] \notin {"idle", "insert"} /\ link[k] # "none"}
HasEnded  == {k \in Conn : link[k] \in {"closed", "replaced"}}

Room == INSTANCE ChatRoom WITH
    Nobody <- NoPeer, log <- RoomLog, hidden <- uploading, slot <- RoomSlots,
    joined <- HasJoined, ended <- HasEnded, given <- pushed

(* The session implements the room: no interleaving of its goroutines hands *)
(* an event to a connection that may not see it or is over, loses a slot to *)
(* anyone but its own device's newer connection, or rewrites the log.       *)
RoomSpec == Room!Spec

=============================================================================
