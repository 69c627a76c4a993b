----------------------------- MODULE SendServer -----------------------------
(***************************************************************************)
(* The route /send: pages, downloads of single items, ranges and archives, *)
(* and what the end of a download decides for its device and the server.   *)
(* Each request is a goroutine with a program counter; the steps are cut   *)
(* where the handler releases one lock and takes another.                  *)
(***************************************************************************)
EXTENDS TransferServer

CONSTANT None

ASSUME NoneAssumption == None \notin Device

VARIABLES
  rq,          \* the requests
  activeItem,  \* clientActiveItem
  downloaded,  \* downloadedItems
  cookie,      \* whose browser holds the session cookie of a one-time transfer
  sent,        \* history: the bytes written to each device
  overlapped   \* history: devices that asked while a request of theirs was served

sendVars == <<rq, activeItem, downloaded, cookie, sent, overlapped>>

Req == 1 .. setup.requests             \* numbered as they arrive
Outcome == {"err", "chunk", "full"}
SizeOf(i) == IF i = Zip THEN Size * Cardinality(Paths) ELSE Size
Fresh == [pc |-> "idle", dev |-> None, item |-> Zip, start |-> 0, last |-> 0, pos |-> 0,
          already |-> FALSE, end |-> "err", all |-> FALSE]

SendInit ==
  /\ rq = [r \in 1 .. setup.requests |-> Fresh]
  /\ activeItem = [d \in Device |-> None]
  /\ downloaded = {} /\ cookie = None
  /\ sent = [d \in Device |-> [i \in setup.items \cup {Zip} |-> {}]]
  /\ overlapped = {}

IsMulti == Cardinality(Paths) > 1
InFlight(d) == {r \in Req: rq[r].dev = d}

\* isClientZipModeLocked: the last thing the device asked for was the archive
ZipMode(d) ==
  IF activeItem[d] # None THEN activeItem[d] = Zip
  ELSE \A i \in Paths: progress[d][i] = 0

isClientFinished(d) ==
  \/ IsMulti /\ ZipMode(d) /\ progress[d][Zip] >= SizeOf(Zip)
  \/ HasAllItems(d)

(***************************************************************************)
(* GET without download: the page; it starts the count of its items anew.  *)
(***************************************************************************)
GetPage(d) ==
  /\ Serving /\ setup.mode = "send" /\ setup.restless /\ ~Refused
  /\ \E i \in Paths: progress[d][i] # 0
  /\ progress' = [progress EXCEPT ![d] = [i \in Entry |-> IF i = Zip THEN @[Zip] ELSE 0]]
  /\ UNCHANGED <<setup, status, autoStop, everAuto, seen, client, conns, ignored,
                 stopVars, sendVars>>

\* GET with stop: the device gives up
StopByUser(d) ==
  /\ Serving /\ setup.mode = "send" /\ setup.restless /\ client[d] = "transferring"
  /\ SetClient(d, "failed")
  /\ UNCHANGED <<setup, autoStop, everAuto, seen, conns, progress, sendVars>>
  /\ IF autoStop /\ AllFinished' THEN EndTransfer ELSE UNCHANGED <<status, stopVars>>

\* a free user whose offer is too large: everything ends
RejectLarge(d) ==
  /\ Serving /\ setup.mode = "send" /\ ~Refused /\ setup.quota /\ ~setup.keepAlive
  /\ ~LimitExceeded(d, 2)
  /\ status' = "failed" /\ SignalStop /\ hostStop' = TRUE
  /\ UNCHANGED <<setup, autoStop, everAuto, deviceVars, asked, asleep, broken, waiters, main,
                 sendVars>>

(***************************************************************************)
(* A download.  A device asks from the start, or resumes where it stands,  *)
(* or (ranges) asks for the first bytes only.  It may do so at any time:   *)
(* when its connection breaks it tries again, and the handler of the       *)
(* earlier request has not noticed yet.                                    *)
(***************************************************************************)
Held(d, i) == Cardinality(sent[d][i])          \* a prefix, if it resumed honestly

Begin(r, d, i, from, last) ==
  /\ Serving /\ setup.mode = "send" /\ ~Refused
  /\ rq[r].pc = "idle" /\ \A q \in 1 .. r - 1: rq[q].pc # "idle"
  /\ ~LimitExceeded(d, 2) /\ ~setup.quota
  /\ setup.bare \/ seen[d] # "never"
  /\ i = Zip => setup.zip /\ IsMulti
  /\ setup.ranges \/ last = SizeOf(i) - 1
  /\ from \in {0, Held(d, i)} /\ from <= last /\ last < SizeOf(i)
  /\ status' = "transferring"
  /\ rq' = [rq EXCEPT ![r] = [Fresh EXCEPT !.dev = d, !.item = i, !.start = from,
                                           !.pos = from, !.last = last, !.pc = "look"]]
  /\ overlapped' = IF InFlight(d) = {} THEN overlapped ELSE overlapped \cup {d}
  /\ UNCHANGED <<setup, autoStop, everAuto, deviceVars, stopVars, activeItem, downloaded,
                 cookie, sent>>

\* A one-time transfer of one item is for one browser: the first takes the
\* cookie, another is refused, with the status already set.  The cookie is
\* made once: when that fails the stop is asked for, and anybody is let in.
OneBrowser == ~setup.keepAlive /\ ~IsMulti
NoCookie == "no cookie"

TurnedAway(d) == OneBrowser /\ cookie \notin {None, NoCookie, d}

Look(r) ==
  LET d == rq[r].dev IN
  /\ Serving /\ rq[r].pc = "look"
  /\ IF TurnedAway(d)
     THEN /\ rq' = [rq EXCEPT ![r] = [Fresh EXCEPT !.pc = "done"]]
          /\ UNCHANGED <<cookie, token, broken>>
     ELSE /\ rq' = [rq EXCEPT ![r].pc = "prepare", ![r].already = client[d] = "transferring"]
          /\ \/ /\ cookie' = IF OneBrowser /\ cookie = None THEN d ELSE cookie
                /\ UNCHANGED <<token, broken>>
             \/ /\ OneBrowser /\ cookie = None /\ setup.faulty
                /\ cookie' = NoCookie /\ broken' = TRUE /\ SignalStop
  /\ UNCHANGED <<setup, status, autoStop, everAuto, deviceVars, asked, asleep, hostStop,
                 waiters, main, activeItem, downloaded, sent, overlapped>>

\* only a device that was not transferring has its count set to the start
StartCountNever(r) == UNCHANGED progress                            \* mutant
StartCount(r) ==
  progress' = IF rq[r].already THEN progress
              ELSE [progress EXCEPT ![rq[r].dev] = [j \in Entry |->
                      IF j = rq[r].item THEN rq[r].start ELSE IF j = Zip THEN 0 ELSE @[j]]]

Prepare(r) ==
  LET d == rq[r].dev  i == rq[r].item IN
  /\ Serving /\ rq[r].pc = "prepare"
  /\ activeItem' = [activeItem EXCEPT ![d] = i]
  /\ StartCount(r)
  /\ conns' = [conns EXCEPT ![d] = @ + 1]
  /\ SetClient(d, "transferring")
  /\ rq' = [rq EXCEPT ![r].pc = "stream"]
  /\ UNCHANGED <<setup, status, autoStop, everAuto, seen, stopVars, downloaded, cookie,
                 sent, overlapped>>

\* onWrite, first half: the count
Count(r) ==
  LET d == rq[r].dev  i == rq[r].item IN
  /\ Serving /\ rq[r].pc = "stream" /\ rq[r].pos <= rq[r].last
  /\ progress' = [progress EXCEPT ![d][i] = @ + 1]
  /\ sent' = [sent EXCEPT ![d][i] = @ \cup {rq[r].pos}]
  /\ rq' = [rq EXCEPT ![r].pc = "show", ![r].pos = @ + 1]
  /\ UNCHANGED <<setup, status, autoStop, everAuto, seen, client, conns, ignored, stopVars,
                 activeItem, downloaded, cookie, overlapped>>

\* onWrite, second half: whatever was set meanwhile, the device transfers
Show(r) ==
  /\ Serving /\ rq[r].pc = "show"
  /\ SetClient(rq[r].dev, "transferring") /\ status' = "transferring"
  /\ rq' = [rq EXCEPT ![r].pc = "stream"]
  /\ UNCHANGED <<setup, autoStop, everAuto, seen, conns, progress, stopVars, activeItem,
                 downloaded, cookie, sent, overlapped>>

\* ServeFile returns: the connection broke, a part was sent, or the rest was
EndStream(r) ==
  /\ Serving /\ rq[r].pc = "stream"
  /\ \E o \in Outcome:
       /\ o # "err" => rq[r].pos > rq[r].last
       /\ o = "full" <=> (o # "err" /\ rq[r].last = SizeOf(rq[r].item) - 1)
       /\ rq' = [rq EXCEPT ![r].end = o, ![r].pc = IF o = "full" THEN "mark" ELSE "settle"]
  /\ UNCHANGED <<serverVars, activeItem, downloaded, cookie, sent, overlapped>>

(***************************************************************************)
(* After an interruption or a part.  A device that has everything is       *)
(* complete all the same; one with other requests in flight, or that gave  *)
(* up, is left as it is; otherwise it waits for a retry.  The two paths    *)
(* look at these in different orders.                                      *)
(***************************************************************************)
Settle(r) ==
  LET d == rq[r].dev
      busy == conns[d] - 1 > 0 \/ client[d] = "failed"
      complete == isClientFinished(d) /\ (rq[r].end = "err" \/ ~busy) IN
  /\ Serving /\ rq[r].pc = "settle"
  /\ rq' = [rq EXCEPT ![r].pc = IF complete THEN "mark" ELSE IF busy THEN "leave" ELSE "quiet"]
  /\ IF complete THEN SetClient(d, "completed")
     ELSE IF busy THEN UNCHANGED <<client, ignored>> ELSE SetClient(d, "waiting")
  /\ UNCHANGED <<setup, status, autoStop, everAuto, seen, conns, progress, stopVars,
                 activeItem, downloaded, cookie, sent, overlapped>>

Quieten(d) == status' = IF hasActiveTransferringClients(d) THEN status ELSE "waiting"

Quiet(r) ==
  /\ Serving /\ rq[r].pc = "quiet"
  /\ Quieten(rq[r].dev) /\ rq' = [rq EXCEPT ![r].pc = "leave"]
  /\ UNCHANGED <<setup, autoStop, everAuto, deviceVars, stopVars, activeItem, downloaded,
                 cookie, sent, overlapped>>

\* markItemDownloaded: has everybody everything?
Mark(r) ==
  /\ Serving /\ rq[r].pc = "mark"
  /\ downloaded' = IF rq[r].item = Zip THEN Paths ELSE downloaded \cup {rq[r].item}
  /\ rq' = [rq EXCEPT ![r].pc = "decide",
                      ![r].all = IF \A d \in Device: seen[d] = "never"
                                 THEN downloaded' = Paths ELSE AllFinished]
  /\ UNCHANGED <<serverVars, activeItem, cookie, sent, overlapped>>

Decide(r) ==
  LET d == rq[r].dev  all == rq[r].all IN
  /\ Serving /\ rq[r].pc = "decide"
  /\ IF (all /\ rq[r].end # "err") \/ (rq[r].end = "full" /\ isClientFinished(d))
     THEN SetClient(d, "completed") ELSE UNCHANGED <<client, ignored>>
  /\ IF all /\ (autoStop \/ ~setup.keepAlive) THEN EndTransfer
     ELSE Quieten(d) /\ UNCHANGED stopVars
  /\ rq' = [rq EXCEPT ![r].pc = "leave"]
  /\ UNCHANGED <<setup, autoStop, everAuto, seen, conns, progress, activeItem, downloaded,
                 cookie, sent, overlapped>>

\* the deferred decrement
Leave(r) ==
  /\ Serving /\ rq[r].pc = "leave"
  /\ conns' = [conns EXCEPT ![rq[r].dev] = IF @ > 0 THEN @ - 1 ELSE 0]
  /\ rq' = [rq EXCEPT ![r] = [Fresh EXCEPT !.pc = "done"]]
  /\ UNCHANGED <<setup, status, autoStop, everAuto, seen, client, ignored, progress, stopVars,
                 activeItem, downloaded, cookie, sent, overlapped>>

HandlerStep(r) ==
  Look(r) \/ Prepare(r) \/ Count(r) \/ Show(r) \/ EndStream(r) \/ Settle(r) \/ Quiet(r)
  \/ Mark(r) \/ Decide(r) \/ Leave(r)

SendStep ==
  /\ setup.mode = "send"
  /\ \/ \E d \in Device: GetPage(d) \/ StopByUser(d) \/ RejectLarge(d)
                         \/ (registerClientActivity(d, 2) /\ UNCHANGED sendVars)
     \/ \E r \in Req: HandlerStep(r)
     \/ \E r \in Req, d \in Device, i \in Entry: \E from, last \in 0 .. SizeOf(i) - 1:
          Begin(r, d, i, from, last)
     \/ ServerStep /\ UNCHANGED sendVars

=============================================================================
