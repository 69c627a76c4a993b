--------------------------- MODULE TransferServer ---------------------------
(***************************************************************************)
(* What the send and the receive side of the transfer server share: the    *)
(* global status, what is known of each device, auto-stop, the grace       *)
(* period, and the stop token with its two receivers (Wait and the status  *)
(* ticker).  SendServer and ReceiveServer add the HTTP handlers.           *)
(***************************************************************************)
EXTENDS Naturals, Sequences, FiniteSets, Functions

CONSTANTS
  Device,      \* browsers, by client id
  Setups       \* the configurations and environments to start from

(***************************************************************************)
(* mode: Send or ReceiveTo was called.  items: body.Paths, numbered (none  *)
(* when receiving), each of size units.  requests: so many downloads come. *)
(* batches: how many files each page has sent after 1, 2, ... batches.     *)
(* bare: a device downloads or posts a form without a page that polls.     *)
(* restless: it may reload its page or give up.  zip, ranges: the devices  *)
(* fetch all items as one archive, resume or ask for a part.               *)
(* form: a device posts a form.  stale: it may stop polling for more than  *)
(* 8 s.  lossy: its announcement may be lost and a file may fail to be     *)
(* saved.  faulty: a page may break while it is written out (its browser   *)
(* leaves), the listener may fail, no session id may be had.  host: what   *)
(* the host does (switches auto-stop on or off, stops a device, stops the  *)
(* server).  early: the stop may come before Wait and    *)
(* the first tick.  quota: the free transfers are used up and the offer is *)
(* too large for that.                                                     *)
(***************************************************************************)
Setup == [mode: {"send", "receive"}, keepAlive: BOOLEAN, items: SUBSET (Nat \ {0}),
          size: Nat, requests: Nat, batches: Seq(Nat),
          bare: BOOLEAN, restless: BOOLEAN, zip: BOOLEAN, ranges: BOOLEAN,
          form: BOOLEAN, stale: BOOLEAN, lossy: BOOLEAN, faulty: BOOLEAN,
          host: SUBSET {"on", "off", "kick", "stop"}, early: BOOLEAN, quota: BOOLEAN]

ASSUME SetupAssumption ==
  /\ \A s \in Setups:
       /\ s \in Setup /\ s.size > 0
       /\ (s.items = {} <=> s.mode = "receive") /\ IsFiniteSet(s.items)
       /\ \A b \in DOMAIN s.batches: s.batches[b] > IF b = 1 THEN 0 ELSE s.batches[b - 1]
  /\ IsFiniteSet(Device)

VARIABLES
  setup,       \* the chosen configuration; never changes
  status,      \* s.status.State
  autoStop,    \* s.autoStop
  everAuto,    \* history: auto-stop has been on
  seen,        \* clientLastSeen: "never", "recent" (within 8 s) or "stale"
  client,      \* clientStates[d].State
  conns,       \* clientStates[d].ActiveConnections
  ignored,     \* autoStopIgnoredClients
  progress,    \* clientProgress[d][i], in units; 0 is the archive
  asked,       \* goroutines about to read the status in signalStopAfterStatusGrace
  asleep,      \* those sleeping for the grace period
  token,       \* stopChannel holds a value
  hostStop,    \* history: the host or a refusal asked for the stop
  broken,      \* history: a page or the listener failed and asked for the stop
  waiters,     \* who waits on stopChannel, in order
  main         \* the caller of Wait: "starting", "waiting", "returned"

serverVars == <<setup, status, autoStop, everAuto, seen, client, conns, ignored,
                progress, asked, asleep, token, hostStop, broken, waiters, main>>
stopVars == <<asked, asleep, token, hostStop, broken, waiters, main>>
deviceVars == <<seen, client, conns, ignored, progress>>

Zip == 0                      \* the index -1 of the code
Paths == setup.items
Size == setup.size
Entry == Paths \cup {Zip}

ServerInit ==
  /\ setup \in Setups
  /\ status = "waiting" /\ autoStop = FALSE /\ everAuto = FALSE
  /\ seen = [d \in Device |-> "never"]
  /\ client = [d \in Device |-> "waiting"]
  /\ conns = [d \in Device |-> 0]
  /\ ignored = {}
  /\ progress = [d \in Device |-> [i \in setup.items \cup {Zip} |-> 0]]
  /\ asked = 0 /\ asleep = 0 /\ token = FALSE /\ hostStop = FALSE /\ broken = FALSE
  /\ IF setup.early THEN waiters = <<"ticker">> /\ main = "starting"
                    ELSE waiters = <<"wait", "ticker">> /\ main = "waiting"

Serving == main # "returned"
isTerminalTransferState == status \in {"completed", "stopped", "failed"}
Refused == ~setup.keepAlive /\ isTerminalTransferState

(***************************************************************************)
(* Reading the tables.                                                     *)
(***************************************************************************)
Known == {d \in Device: seen[d] # "never"} \ (IF autoStop THEN ignored ELSE {})
HasAllItems(d) == Paths # {} /\ \A i \in Paths: progress[d][i] >= Size
Finished(d) == client[d] \in {"completed", "failed"} \/ HasAllItems(d)

\* isAllActiveClientsFinished: of all devices ever seen, or of those seen lately
AllFinished ==
  LET active == {d \in Known: seen[d] = "recent"} IN
  /\ Known # {}
  /\ \/ \A d \in Known: Finished(d)
     \/ active # {} /\ \A d \in active: Finished(d)

hasActiveTransferringClients(d) ==
  \E e \in Device \ {d}: client[e] = "transferring" \/ conns[e] > 0

\* a new device is turned away when others hold all the free seats
LimitExceeded(d, seats) ==
  /\ setup.quota /\ ~setup.keepAlive /\ seen[d] # "recent"
  /\ Cardinality({e \in Device \ {d}: seen[e] = "recent"}) >= seats

(***************************************************************************)
(* updateClientStatus: whoever transfers is no longer ignored.             *)
(***************************************************************************)
SetClient(d, state) ==
  /\ client' = [client EXCEPT ![d] = state]
  /\ ignored' = IF state = "transferring" THEN ignored \ {d} ELSE ignored

\* bound: a third goroutine would only drop its token into the same channel
MaxGrace == 2
OneMore(n) == IF n < MaxGrace THEN n + 1 ELSE n

EndTransferOnly == status' = "completed" /\ UNCHANGED stopVars      \* mutant
EndTransfer ==                 \* setStatus completed, recordStatus, go signalStop...
  /\ status' = "completed" /\ asked' = OneMore(asked)
  /\ UNCHANGED <<asleep, token, hostStop, broken, waiters, main>>

SignalStopUnbuffered == UNCHANGED token                             \* mutant
SignalStop == token' = TRUE    \* signalStop: dropped when the channel is full

(***************************************************************************)
(* A page polls its status.                                                *)
(***************************************************************************)
registerClientActivity(d, seats) ==
  /\ Serving /\ ~LimitExceeded(d, seats)
  /\ seen[d] # "recent" /\ seen' = [seen EXCEPT ![d] = "recent"]
  /\ UNCHANGED <<setup, status, autoStop, everAuto, client, conns, ignored, progress>>
  /\ UNCHANGED stopVars

GoStale(d) ==
  /\ Serving /\ setup.stale /\ seen[d] = "recent"
  /\ seen' = [seen EXCEPT ![d] = "stale"]
  /\ UNCHANGED <<setup, status, autoStop, everAuto, client, conns, ignored, progress>>
  /\ UNCHANGED stopVars

(***************************************************************************)
(* The host switches auto-stop.  Switching it on ignores the devices that  *)
(* have finished, then looks whether the others all have.                  *)
(***************************************************************************)
IgnoredNow ==
  {d \in Device: /\ seen[d] # "never"
                 /\ IF Paths # {} THEN HasAllItems(d) ELSE client[d] = "completed"}

SetAutoStop(enabled) ==
  /\ Serving /\ (IF enabled THEN "on" ELSE "off") \in setup.host /\ autoStop # enabled
  /\ autoStop' = enabled /\ everAuto' = (everAuto \/ enabled)
  /\ ignored' = IF enabled THEN IgnoredNow ELSE {}
  /\ UNCHANGED <<setup, seen, client, conns, progress>>
  /\ IF enabled /\ AllFinished' THEN EndTransfer ELSE UNCHANGED <<status, stopVars>>

\* the host stops one device
StopClientTransfer(d) ==
  /\ Serving /\ "kick" \in setup.host /\ seen[d] # "never" /\ client[d] # "stopped"
  /\ client' = [client EXCEPT ![d] = "stopped"]
  /\ UNCHANGED <<setup, status, autoStop, everAuto, seen, conns, ignored, progress>>
  /\ UNCHANGED stopVars

(***************************************************************************)
(* Stopping: the grace period, the token, its two receivers.               *)
(***************************************************************************)
\* the stop button of the QR page (status stopped), Shutdown, an interrupt
HostStops ==
  /\ Serving /\ ~hostStop /\ "stop" \in setup.host
  /\ hostStop' = TRUE /\ SignalStop
  /\ status' \in {status, "stopped"}
  /\ UNCHANGED <<setup, autoStop, everAuto, deviceVars, asked, asleep, broken, waiters, main>>

\* the QR page cannot be written out, or the listener fails: the stop is
\* asked for whatever the server is to do
ServeBreaks ==
  /\ Serving /\ setup.faulty /\ ~broken
  /\ broken' = TRUE /\ SignalStop
  /\ UNCHANGED <<setup, status, autoStop, everAuto, deviceVars, asked, asleep, hostStop,
                 waiters, main>>

GraceAsk ==
  /\ asked > 0 /\ asked' = asked - 1
  /\ IF status = "completed" THEN asleep' = OneMore(asleep) /\ UNCHANGED token
                             ELSE SignalStop /\ UNCHANGED asleep
  /\ UNCHANGED <<setup, status, autoStop, everAuto, deviceVars, hostStop, broken, waiters,
                 main>>

GraceEnds ==
  /\ asleep > 0 /\ asleep' = asleep - 1 /\ SignalStop
  /\ UNCHANGED <<setup, status, autoStop, everAuto, deviceVars, asked, hostStop, broken,
                 waiters, main>>

Wait ==
  /\ main = "starting" /\ main' = "waiting"
  /\ waiters' = Append(waiters, "wait")
  /\ UNCHANGED <<setup, status, autoStop, everAuto, deviceVars, asked, asleep, token,
                 hostStop, broken>>

\* the ticker's select fires on the tick and queues behind Wait again
Tick ==
  /\ waiters # <<>> /\ Head(waiters) = "ticker" /\ ~token
  /\ waiters' = Append(Tail(waiters), "ticker")
  /\ UNCHANGED <<setup, status, autoStop, everAuto, deviceVars, asked, asleep, token,
                 hostStop, broken, main>>

TakeToken ==                   \* the first in line receives
  /\ token /\ waiters # <<>> /\ Serving
  /\ token' = FALSE /\ waiters' = Tail(waiters)
  /\ main' = IF Head(waiters) = "wait" THEN "returned" ELSE main
  /\ UNCHANGED <<setup, status, autoStop, everAuto, deviceVars, asked, asleep, hostStop,
                 broken>>

StopStep == GraceAsk \/ GraceEnds \/ Wait \/ TakeToken

ServerStep ==
  \/ StopStep \/ Tick \/ HostStops \/ ServeBreaks
  \/ \E b \in BOOLEAN: SetAutoStop(b)
  \/ \E d \in Device: GoStale(d) \/ StopClientTransfer(d)

=============================================================================
