------------------------------ MODULE ChatSync ------------------------------
(***************************************************************************)
(* One browser's copy of a chat room: the web client of pkg/chat/v2/web    *)
(* (websocket.ts, reconnectSeq.ts, the history pager of chatStore.ts) and, *)
(* reduced to what one connection sees of it, the session that ChatSession *)
(* models in full.                                                         *)
(*                                                                         *)
(* The browser keeps two sequence numbers in localStorage, which survive a *)
(* page reload, and its messages and history pager in memory, which do     *)
(* not.  Every event that carries a message (added, updated, recalled) is  *)
(* a "message" here; presence and transfer events are "other": they are    *)
(* never replayed, but they do move the watermark.                         *)
(***************************************************************************)
EXTENDS Naturals, Sequences, FiniteSets, FiniteSetsExt

CONSTANT
    Cases  \* the rooms, page sizes and bounds a behaviour may have

ASSUME SyncAssumption ==
    Cases \subseteq
      [PageSize: Nat \ {0},  \* DefaultHistoryPageSize
       Log: Seq({"message", "other"}),  \* what the room holds at the first join
       Overlap: BOOLEAN,     \* may events be stored while another is still fanned
                             \* out or while the browser is being registered
       Notices: BOOLEAN,     \* may the page show a notice of its own while offline
       MaxPosts: Nat,        \* bound: events of other devices
       MaxDrops: Nat,        \* bound: losses of the connection from one load to the next
       MaxReloads: Nat]      \* bound: page reloads

VARIABLES
    given,     \* the case
    log,       \* MessageStore.events, an event's Seq is its index
    flights,   \* events stored and not yet fanned out
    leaving,   \* presence events of departures, to be followed by a notice
    svc,       \* where the connection's handler is: "none" without a connection
    request,   \* the cursors the handler works from
    page,      \* the history page it is sending
    told,      \* the event with which it last announced the browser
    wire,      \* the client's send queue and the socket, in order
    joinSeq, afterSeq,  \* localStorage, 0 when absent
    mem,       \* chatStore.messages, by the seq of the event
    notice,    \* whether chatStore.messages holds a notice of the page itself
    pager,     \* historyHasMore, historyOldestSeq and historyLoading
    met,       \* history variable: whether a hello ever arrived
    boundary,  \* history variable: the Seq of the first hello that did
    early,     \* history variable: what was being fanned out at that hello
    posts, drops, reloads  \* what the bounds count; drops since the last load

server  == <<log, flights, leaving>>
handler == <<svc, request, page, told>>
storage == <<joinSeq, afterSeq>>
memory  == <<mem, notice, pager>>
bounds  == <<given, met, boundary, early, posts, drops, reloads>>
vars == <<server, handler, wire, storage, memory, bounds>>

NoCursors == [after |-> 0, join |-> 0, before |-> 0]
NoPage    == [todo |-> {}, more |-> FALSE, oldest |-> 0]
NoPager   == [more |-> FALSE, oldest |-> 0, loading |-> FALSE]

Packet(type, seq, more) == [type |-> type, seq |-> seq, more |-> more]
IsMessage(n) == log[n] = "message"
InRoom == svc \in {"select", "page", "presence", "notice", "ready"}
Connected == svc # "none"

-----------------------------------------------------------------------------
(* The session *)

(* Another device posts a message, or something else is announced. *)
Store(kind) ==
    /\ log' = Append(log, kind)
    /\ flights' = flights \cup {Len(log) + 1}

Post(kind) ==
    /\ posts < given.MaxPosts
    /\ posts' = posts + 1
    /\ given.Overlap \/ (flights = {} /\ leaving = {} /\ svc \in {"none", "ready"})
    /\ Store(kind)
    /\ UNCHANGED <<leaving, handler, wire, storage, memory, given, met, boundary,
                   early, drops, reloads>>

(* Broadcast's fan-out reaches this client if it is registered by then; two *)
(* broadcasts may overtake each other.                                      *)
Fan(n) ==
    /\ n \in flights
    /\ flights' = flights \ {n}
    /\ wire' = IF InRoom THEN Append(wire, Packet("event", n, FALSE)) ELSE wire
    /\ UNCHANGED <<log, leaving, handler, storage, memory, bounds>>

Hello ==
    /\ svc = "hello"
    /\ svc' = "insert"
    /\ wire' = Append(wire, Packet("hello", Len(log), FALSE))
    /\ early' = IF met THEN early ELSE flights
    /\ UNCHANGED <<server, request, page, told, storage, memory, given, met,
                   boundary, posts, drops, reloads>>

Insert ==
    /\ svc = "insert"
    /\ svc' = "select"
    /\ UNCHANGED <<server, request, page, told, wire, storage, memory, bounds>>

(* Mutant: an older page has no boundary. *)
FloorOfPage(r) ==
    IF r.before > 0 THEN 0
    ELSE IF r.after > 0 THEN Max({r.after, r.join})
    ELSE IF r.join > 0 THEN r.join ELSE Len(log)

(* ResolveReplayStartSeq for a connect, the join boundary for load_history. *)
Floor(r) ==
    IF r.before > 0 THEN r.join
    ELSE IF r.after > 0 THEN Max({r.after, r.join})
    ELSE IF r.join > 0 THEN r.join ELSE Len(log)

Newest(S) == {n \in S : Cardinality({m \in S : m > n}) < given.PageSize}

Select ==
    /\ svc = "select"
    /\ svc' = "page"
    /\ LET all    == {n \in 1..Len(log) : IsMessage(n) /\ n > Floor(request)
                         /\ (request.before > 0 => n < request.before)}
           newest == Newest(all)
       IN page' = [todo |-> newest, more |-> newest # all,
                   oldest |-> IF newest = {} THEN 0 ELSE Min(newest)]
    /\ UNCHANGED <<server, request, told, wire, storage, memory, bounds>>

SendPage ==
    /\ svc = "page" /\ page.todo # {}
    /\ LET n == Min(page.todo) IN
         /\ wire' = Append(wire, Packet("event", n, FALSE))
         /\ page' = [page EXCEPT !.todo = @ \ {n}]
    /\ UNCHANGED <<server, svc, request, told, storage, memory, bounds>>

(* The history_page cursor ends a page. *)
EndPage ==
    /\ svc = "page" /\ page.todo = {}
    /\ svc' = IF request.before = 0 THEN "presence" ELSE "ready"
    /\ page' = NoPage
    /\ wire' = Append(wire, Packet("history_page", page.oldest, page.more))
    /\ UNCHANGED <<server, request, told, storage, memory, bounds>>

(* Register goes on with broadcastPresence and, after that, the notice that *)
(* the device joined or reconnected, which is a message like any other.     *)
Announce(kind, from, to) ==
    /\ svc = from /\ told \notin flights
    /\ svc' = to
    /\ Store(kind)
    /\ told' = Len(log')
    /\ UNCHANGED <<leaving, request, page, wire, storage, memory, bounds>>

(* The notice of a departure follows its presence event. *)
Left(n) ==
    /\ n \in leaving \ flights
    /\ leaving' = leaving \ {n}
    /\ Store("message")
    /\ UNCHANGED <<handler, wire, storage, memory, bounds>>

-----------------------------------------------------------------------------
(* The browser *)

resolveWarmAlways(local, join, after) == after  \* mutant

(* resolveConnectAfterSeq: a cold start asks again from its join boundary.  *)
(* The list it looks at also holds the notices the page wrote itself.       *)
resolveConnectAfterSeq(local, join, after) ==
    IF local = 0 /\ join > 0 THEN join ELSE after

LocalMessageCount == Cardinality(mem) + (IF notice THEN 1 ELSE 0)

(* onopen sends the connect command. *)
Open ==
    /\ ~Connected
    /\ given.Overlap \/ (flights = {} /\ leaving = {})
    /\ svc' = "hello"
    /\ request' = [NoCursors EXCEPT
          !.after = resolveConnectAfterSeq(LocalMessageCount, joinSeq, afterSeq),
          !.join  = joinSeq]
    /\ UNCHANGED <<server, page, told, wire, storage, memory, bounds>>

(* Mutants: the hello moves the watermark; the spinner is never cleared. *)
HandleHelloAsEvent(e) ==
    /\ afterSeq' = IF e.type # "history_page" THEN Max({afterSeq, e.seq}) ELSE afterSeq
    /\ joinSeq'  = IF e.type = "hello" /\ joinSeq = 0 THEN e.seq ELSE joinSeq
    /\ mem' = IF e.type = "event" /\ IsMessage(e.seq) THEN mem \cup {e.seq} ELSE mem
    /\ pager' = IF e.type = "history_page"
                THEN [more |-> e.more, loading |-> FALSE, oldest |-> e.seq] ELSE pager
    /\ UNCHANGED notice
HandleStillLoading(e) ==
    /\ afterSeq' = IF e.type = "event" THEN Max({afterSeq, e.seq}) ELSE afterSeq
    /\ joinSeq'  = IF e.type = "hello" /\ joinSeq = 0 THEN e.seq ELSE joinSeq
    /\ mem' = IF e.type = "event" /\ IsMessage(e.seq) THEN mem \cup {e.seq} ELSE mem
    /\ pager' = IF e.type = "history_page"
                THEN [pager EXCEPT !.more = e.more, !.oldest = e.seq] ELSE pager
    /\ UNCHANGED notice

(* handleEvent.  The watermark only advances; a hello resets the pager, and *)
(* becomes the join boundary when there is none and its Seq is not 0.       *)
HandleEvent(e) ==
    /\ afterSeq' = IF e.type = "event" THEN Max({afterSeq, e.seq}) ELSE afterSeq
    /\ joinSeq'  = IF e.type = "hello" /\ joinSeq = 0 THEN e.seq ELSE joinSeq
    /\ mem' = IF e.type = "event" /\ IsMessage(e.seq) THEN mem \cup {e.seq} ELSE mem
    /\ pager' = CASE e.type = "hello" -> NoPager
                  [] e.type = "history_page" ->
                       [more    |-> e.more, loading |-> FALSE,
                        oldest  |-> IF e.seq > 0 THEN e.seq
                                    ELSE IF e.more THEN pager.oldest ELSE 0]
                  [] OTHER -> pager
    /\ UNCHANGED notice

Deliver ==
    /\ wire # <<>>
    /\ wire' = Tail(wire)
    /\ HandleEvent(Head(wire))
    /\ met' = (met \/ Head(wire).type = "hello")
    /\ boundary' = IF met' /\ ~met THEN Head(wire).seq ELSE boundary
    /\ UNCHANGED <<server, handler, given, early, posts, drops, reloads>>

(* loadOlderHistory, and the load_history command it sends. *)
LoadOlder ==
    /\ svc = "ready" /\ told \notin flights
    /\ ~pager.loading /\ pager.more /\ pager.oldest > 0
    /\ pager' = [pager EXCEPT !.loading = TRUE]
    /\ request' = [after |-> 0, join |-> joinSeq, before |-> pager.oldest]
    /\ svc' = "select"
    /\ UNCHANGED <<server, page, told, wire, storage, mem, notice, bounds>>

(* What was on its way is lost; the session unregisters the client and says *)
(* so, with a presence event and a notice.  A handler that was registering  *)
(* announces the browser to the others first: those are among the Posts.    *)
(* Without a first hello the browser would be as new as before.             *)
Disconnect ==
    /\ Connected /\ met
    /\ svc' = "none" /\ request' = NoCursors /\ page' = NoPage /\ told' = 0
    /\ wire' = <<>>
    /\ \/ /\ InRoom
          /\ Store("other")
          /\ leaving' = leaving \cup {Len(log')}
       \/ /\ ~InRoom
          /\ UNCHANGED server

Drop ==
    /\ drops < given.MaxDrops
    /\ drops' = drops + 1
    /\ Disconnect
    /\ UNCHANGED <<storage, memory, given, met, boundary, early, posts, reloads>>

Reload ==
    /\ reloads < given.MaxReloads
    /\ reloads' = reloads + 1
    /\ Disconnect
    /\ mem' = {} /\ notice' = FALSE /\ pager' = NoPager
    /\ drops' = 0
    /\ UNCHANGED <<storage, given, met, boundary, early, posts>>

(* addSystemMessage: something typed while the page is not connected. *)
Notify ==
    /\ given.Notices /\ ~Connected
    /\ notice' = TRUE
    /\ UNCHANGED <<server, handler, wire, storage, mem, pager, bounds>>

-----------------------------------------------------------------------------
Init ==
    /\ given \in Cases
    /\ log = given.Log
    /\ flights = {} /\ leaving = {}
    /\ svc = "none" /\ request = NoCursors /\ page = NoPage /\ told = 0
    /\ wire = <<>>
    /\ joinSeq = 0 /\ afterSeq = 0
    /\ mem = {} /\ notice = FALSE /\ pager = NoPager
    /\ met = FALSE /\ boundary = 0 /\ early = {} /\ posts = 0 /\ drops = 0 /\ reloads = 0

Settled == svc = "ready" /\ wire = <<>> /\ flights = {} /\ ~pager.loading

(* Everyone may fall silent. *)
Idle == Settled /\ UNCHANGED vars

HandlerStep ==
    \/ Hello \/ Insert \/ Select \/ SendPage \/ EndPage
    \/ Announce("other", "presence", "notice")
    \/ Announce("message", "notice", "ready")

Next ==
    \/ \E kind \in {"message", "other"} : Post(kind)
    \/ \E n \in flights : Fan(n)
    \/ \E n \in leaving : Left(n)
    \/ HandlerStep
    \/ Open \/ Deliver \/ LoadOlder \/ Notify
    \/ Drop \/ Reload
    \/ Idle

Spec == Init /\ [][Next]_vars

-----------------------------------------------------------------------------
(* What the browser should hold: every message since it first joined.       *)
SinceJoin == {n \in 1..Len(log) : IsMessage(n) /\ n > boundary}
Reachable(n) == n \in mem \/ (pager.more /\ n < pager.oldest)

AllReached == Settled => \A n \in SinceJoin : Reachable(n)

(* Once the room is quiet, a connected browser shows every message since it *)
(* first joined, or can still scroll to it: what was on the wire when the   *)
(* connection broke, and what came while it was offline, is replayed.  This *)
(* needs broadcasts that do not overlap each other or the registration.     *)
Complete == ~given.Overlap => AllReached

(* A page reload puts it right: however the live stream was reordered or    *)
(* cut before, the connect that follows brings back everything since the    *)
(* join, however many pages of history that takes, unless it is cut too.    *)
ReloadRestores == reloads > 0 /\ drops = 0 => AllReached

(* No message from before the first hello reaches the browser, by replay,   *)
(* by an older page, or after a reconnect.  What was still being fanned out *)
(* at that moment is the exception: the browser is registered in time for   *)
(* the end of a broadcast that began before its hello.                      *)
NoLeak == mem \subseteq SinceJoin \cup early

(* The spinner of a page of older messages goes away: while the browser     *)
(* waits for one, the handler is preparing it, the cursor that ends it is   *)
(* on the wire, or a hello that resets the pager is or will be.             *)
PageComing == pager.loading =>
    \/ svc \in {"none", "hello"}
    \/ svc \in {"select", "page"} /\ request.before > 0
    \/ \E i \in 1..Len(wire) : wire[i].type \in {"hello", "history_page"}
=============================================================================
