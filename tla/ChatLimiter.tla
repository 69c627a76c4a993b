----------------------------- MODULE ChatLimiter -----------------------------
(***************************************************************************)
(* The daily free quota (pkg/server/chat_limiter.go): chat seconds, shares *)
(* and receives of the day, kept in a file and a cache under l.mu, counted *)
(* a second time by the cloud from the deltas it is sent, and dated by the *)
(* network's clock once that is known.  It runs beside the licence, whose  *)
(* paid status every load takes over.                                      *)
(***************************************************************************)
EXTENDS Licence, FiniteSetsExt

CONSTANTS
  FreeSeconds, FreeTransfers,   \* the day's allowance
  Full                          \* 600 seconds: locked

VARIABLES
  usage,      \* cachedUsage
  hasCached,
  saved,      \* chat_usage.json
  net,        \* the network's time: [cached, checking, offset]
  clock,      \* [real, skew]: the true time and what the computer's clock adds
  id,         \* GetDeviceStableID: the device's id, Unassigned before it registers
  cloud,      \* free_daily_usage: a row per device id and day
  syncs,      \* goroutines of SyncUsageToServer
  raising,    \* goroutines of SetClockTampered
  spent,      \* history: what was used, by the day the computer counted it on
  late,       \* history: what the cloud dated on another day than the computer
  budget      \* what the environment may still do

limiterVars ==
  <<usage, hasCached, saved, net, clock, id, cloud, syncs, raising, spent, late, budget>>
allVars == <<licenceVars, limiterVars>>

MaxTime == 3                  \* bound: the hours of the model, two to a day
DateOf(time) == time \div 2
Days == 0 .. DateOf(MaxTime)
Unassigned == 0
Ids == 1 .. 2                 \* bound: the ids the server gives this device
Nil == [seconds |-> 0, share |-> 0, receive |-> 0]
Locked == [seconds |-> Full, share |-> FreeTransfers, receive |-> FreeTransfers]
NoFile == [day |-> 0, count |-> Nil, tampered |-> FALSE, seen |-> 0, there |-> FALSE,
           key |-> Unassigned]
Empty == [seconds |-> 0, transfers |-> 0]
Added(row, delta) ==
  [seconds |-> row.seconds + delta.seconds, transfers |-> row.transfers + delta.transfers]
Capped(n) == IF n > Full + 1 THEN Full + 1 ELSE n    \* bound: the counters

ASSUME LimiterAssumption ==
  /\ FreeSeconds \in Nat \ {0} /\ FreeTransfers \in Nat \ {0} /\ Full \in Nat /\ Full >= FreeSeconds
  /\ \A p \in Plans : p.uses \in
       [{"status", "use", "lose", "fetch", "hour", "adjust", "restart", "id"} -> Nat]

LimiterInit ==
  /\ usage = NoFile /\ hasCached = FALSE /\ saved = NoFile
  /\ net = [cached |-> FALSE, checking |-> FALSE, offset |-> 0]
  /\ clock = [real |-> 1, skew |-> 0]
  /\ id = Unassigned /\ cloud = [i \in Ids |-> [day \in Days |-> Empty]]
  /\ syncs = {} /\ raising = {}
  /\ spent = [day \in Days |-> Empty] /\ late = [day \in Days |-> Empty]
  /\ budget = plan.uses

Init == LicenceInit /\ LimiterInit

LocalTime == clock.real + clock.skew
NetTime == LocalTime + (IF net.cached THEN net.offset ELSE 0)    \* netTimeNow
Today == DateOf(NetTime)
Calibrated == net.cached /\ net.offset = 0       \* within the drift threshold

Can(what) == budget[what] > 0
Spend(what) == budget' = [budget EXCEPT ![what] = @ - 1]

(***************************************************************************)
(* loadUsageLocked.  A cached record of today is the answer; else the file *)
(* is read and a new day starts from nothing.  A clock before the last-seen*)
(* anchor locks the day, and so does a record that was signed with another *)
(* device id, whichever day it is of; only one signed before the device had*)
(* an id is good for every id.  A calibrated clock lifts locks again.      *)
(***************************************************************************)
Hit == hasCached /\ usage.day = Today

FromFileAnyDay ==                                                   \* mutant
  [saved EXCEPT !.day = Today, !.there = TRUE]
FromFile ==
  [saved EXCEPT !.day = Today, !.count = IF saved.there /\ saved.day = Today THEN @ ELSE Nil,
                !.there = TRUE]
RolledBack == saved.there /\ NetTime < saved.seen             \* rollbackDetected
Unverified == saved.there /\ saved.key \notin {Unassigned, id}   \* ~macValid

Judged(flag) ==
  LET u == [FromFile EXCEPT !.tampered = flag, !.seen = NetTime] IN
  IF RolledBack \/ Unverified THEN [u EXCEPT !.tampered = TRUE, !.count = Locked]
  ELSE IF Calibrated
    THEN [u EXCEPT !.tampered = FALSE, !.count = IF @.seconds >= Full THEN Nil ELSE @]
    ELSE u

\* checkLicenseValidity puts the licence's flag on every record it answers.
Load(flag) == IF Hit THEN [usage EXCEPT !.tampered = flag] ELSE Judged(flag)

\* SetClockTampered, which a load starts besides.
Raises(flag) ==
  IF Hit THEN {}
  ELSE IF RolledBack \/ Unverified THEN (IF saved.tampered THEN {} ELSE {TRUE})
  ELSE IF flag /\ Calibrated /\ saved.tampered THEN {FALSE} ELSE {}

Save(record, flag) ==                                         \* saveUsageLocked
  /\ saved' = [record EXCEPT !.seen = NetTime, !.key = id]
  /\ usage' = saved'
  /\ hasCached' = TRUE
  /\ raising' = raising \cup Raises(flag)

JustLoad ==                   \* a load that read the file saves what it changed
  /\ usage' = IF Hit THEN usage ELSE Judged(tampered)
  /\ saved' \in IF Hit THEN {saved}
                ELSE {[Judged(tampered) EXCEPT !.key = id]} \cup ({Judged(tampered)} \cap {saved})
  /\ hasCached' = TRUE
  /\ raising' = raising \cup Raises(tampered)

(***************************************************************************)
(* The operations, each under l.mu.                                        *)
(***************************************************************************)
Free == paid = None           \* GetPaidStatus, as every load sees it
Sync(seconds, transfers) ==
  [at |-> "ask", seconds |-> seconds, transfers |-> transfers, day |-> 0, got |-> Empty,
   id |-> id, sent |-> 0]

GetStatus ==
  /\ Can("status") /\ Spend("status")
  /\ JustLoad
  /\ UNCHANGED <<licenceVars, net, clock, id, cloud, syncs, spent, late>>

Use(field, sync) ==           \* the three Increment functions
  IF ~Free
  THEN JustLoad /\ UNCHANGED <<syncs, spent>>
  ELSE /\ Save([Load(tampered) EXCEPT !.count[field] = Capped(@ + 1)], tampered)
       /\ syncs' = IF id = Unassigned THEN syncs
                    ELSE syncs \cup {[sync EXCEPT !.day = Today, !.sent = budget["use"]]}
       /\ spent' = [spent EXCEPT ![Today] = Added(@, sync)]

Tick ==                       \* the chat's ticker while another device is on
  /\ Can("use") /\ Spend("use")
  /\ Use("seconds", Sync(1, 0))
  /\ UNCHANGED <<licenceVars, net, clock, id, cloud, late>>

IncrementTransfers == Use("share", Sync(0, 1))
IncrementReceiveTransfers == Use("receive", Sync(0, 1))

Transfer ==
  /\ Can("use") /\ Spend("use")
  /\ IncrementTransfers \/ IncrementReceiveTransfers
  /\ UNCHANGED <<licenceVars, net, clock, id, cloud, late>>

Marked(flag) ==               \* the limiter's SetClockTampered
  Save([Load(flag) EXCEPT !.tampered = flag], flag)

SetClockTampered ==           \* started by a load
  \E flag \in raising:
    /\ tampered' = flag
    /\ paid' = IF flag THEN None ELSE paid
    /\ LET u == Load(flag) IN
       saved' = [u EXCEPT !.tampered = flag, !.seen = NetTime, !.key = id]
    /\ usage' = saved' /\ hasCached' = TRUE
    /\ raising' = (raising \ {flag}) \cup Raises(flag)
    /\ UNCHANGED <<plan, file, cache, ready, probed, syncing, task, world>>
    /\ UNCHANGED <<net, clock, id, cloud, syncs, spent, late, budget>>

\* The steps of the licence that call the limiter: SetPaidDetails is the second
\* half of SetPaidStatus (Details), and three more set the flag.
PaidDetails(w) ==
  /\ Details(w)
  /\ Save([Load(tampered) EXCEPT !.tampered = @ /\ task[w].paid = None], tampered)

Clears(w) == At(w, "accept") \/ (At(w, "writeCache") /\ syncing # w)

Reaching(w) ==
  /\ \/ PaidDetails(w)
     \/ TurnedBack(w) /\ Judge(w) /\ Marked(TRUE)
     \/ Clears(w) /\ (Accept(w) \/ WriteCache(w)) /\ Marked(FALSE)
  /\ UNCHANGED <<net, clock, id, cloud, syncs, spent, late, budget>>

(***************************************************************************)
(* SyncUsageToServer and the cloud's side of it (drm.ts): the cloud dates  *)
(* a delta by its own clock when it arrives.                               *)
(***************************************************************************)
Reach(s) ==
  /\ s \in syncs /\ s.at = "ask"
  /\ LET day == DateOf(clock.real)
         row == Added(cloud[s.id][day], s) IN
     /\ cloud' = [cloud EXCEPT ![s.id][day] = row]
     /\ late' = IF s.day = day THEN late ELSE [late EXCEPT ![day] = Added(@, s)]
     /\ syncs' = (syncs \ {s}) \cup {[s EXCEPT !.at = "merge", !.day = day, !.got = row]}
  /\ UNCHANGED <<licenceVars, usage, hasCached, saved, net, clock, id, raising, spent, budget>>

Exceeded(row) == row.seconds >= FreeSeconds \/ row.transfers >= FreeTransfers

Merged(count, row) ==
  [count EXCEPT !.seconds = IF Exceeded(row) THEN Max({@, row.seconds, Full})
                            ELSE Max({@, row.seconds}),
                !.share = Max({@, row.transfers})]

Merge(s) ==                   \* the answer, under l.mu
  /\ s \in syncs /\ s.at = "merge"
  /\ syncs' = syncs \ {s}
  /\ LET u == Load(tampered)
         count == Merged(u.count, s.got) IN
     IF u.day = s.day /\ count # u.count THEN Save([u EXCEPT !.count = count], tampered) ELSE JustLoad
  /\ UNCHANGED <<licenceVars, net, clock, id, cloud, spent, late, budget>>

Lose(s) ==                    \* the request or the answer; nothing is sent again
  /\ s \in syncs /\ Can("lose") /\ Spend("lose")
  /\ syncs' = syncs \ {s}
  /\ UNCHANGED <<licenceVars, usage, hasCached, saved, net, clock, id, cloud, raising, spent, late>>

(***************************************************************************)
(* getNetworkTimeOrStartFetch: started by a load, at most one at a time.   *)
(***************************************************************************)
StartFetch ==
  /\ Can("fetch") /\ Spend("fetch") /\ ~net.checking
  /\ net' = [net EXCEPT !.checking = TRUE]
  /\ UNCHANGED <<licenceVars, usage, hasCached, saved, clock, id, cloud, syncs, raising, spent, late>>

fetchNetworkTime == clock.real    \* of the first of six servers that answers

EndFetch ==
  /\ net.checking
  /\ \/ net' = [cached |-> TRUE, checking |-> FALSE, offset |-> fetchNetworkTime - LocalTime]
     \/ net' = [net EXCEPT !.cached = FALSE, !.checking = FALSE]
  /\ hasCached' = FALSE                                       \* invalidateCache
  /\ UNCHANGED <<licenceVars, usage, saved, clock, id, cloud, syncs, raising, spent, late, budget>>

(***************************************************************************)
(* Time, its adjustment, the device's id, and a restart.  The server names *)
(* the device when it registers and with each certificate; the id is that  *)
(* of the certificate, or else the registered one, and none when both are  *)
(* gone.                                                                   *)
(***************************************************************************)
Hour ==
  /\ clock.real < MaxTime /\ Can("hour") /\ Spend("hour")
  /\ clock' = [clock EXCEPT !.real = @ + 1]
  /\ UNCHANGED <<licenceVars, usage, hasCached, saved, net, id, cloud, syncs, raising, spent, late>>

Adjust ==
  /\ Can("adjust") /\ Spend("adjust")
  /\ clock' = [clock EXCEPT !.skew = IF @ = 0 THEN 0 - 1 ELSE 0]
  /\ UNCHANGED <<licenceVars, usage, hasCached, saved, net, id, cloud, syncs, raising, spent, late>>

Identify ==                   \* SetAuthorityDeviceID, or a certificate that comes or goes
  /\ Can("id") /\ Spend("id")
  /\ \E new \in (Ids \cup {Unassigned}) \ {id}: id' = new
  /\ UNCHANGED <<licenceVars, usage, hasCached, saved, net, clock, cloud, syncs, raising, spent, late>>

Restart ==
  /\ Can("restart") /\ Spend("restart") /\ Quiet
  /\ hasCached' = FALSE /\ usage' = NoFile
  /\ net' = [cached |-> FALSE, checking |-> FALSE, offset |-> 0]
  /\ syncs' = {} /\ raising' = {}
  /\ paid' = None /\ tampered' = FALSE /\ ready' = FALSE /\ probed' = FALSE
  /\ cache' = [code |-> Unread, epoch |-> 0]
  /\ UNCHANGED <<plan, file, syncing, task, world, saved, clock, id, cloud, spent, late>>

LimiterNext ==
  \/ GetStatus \/ Tick \/ Transfer \/ SetClockTampered
  \/ \E s \in syncs: Reach(s) \/ Merge(s) \/ Lose(s)
  \/ StartFetch \/ EndFetch \/ Hour \/ Adjust \/ Identify \/ Restart

\* The steps of the licence that do not reach the limiter.
Apart(w) ==
  ~At(w, "details") /\ ~TurnedBack(w) /\ ~Clears(w) /\ Step(w) /\ UNCHANGED limiterVars

Next ==
  \/ LimiterNext
  \/ \E w \in Worker: Reaching(w) \/ Apart(w)
  \/ World /\ UNCHANGED limiterVars

Spec == Init /\ [][Next]_allVars

(***************************************************************************)
(* Properties.                                                             *)
(***************************************************************************)
\* Nobody is charged for chat seconds that were not used: the day's count is at
\* most what was counted on it and what the cloud dated on it (a delta that
\* arrives after midnight is charged on both days), until the day's allowance is
\* spent and the cloud locks the day; beyond that it is only locked, and only
\* after somebody turned the clock or the device's id was replaced.
Turned == budget["adjust"] < plan.uses["adjust"]
Renamed == budget["id"] + 1 < plan.uses["id"]      \* the first id replaces none
NeverOvercharged ==
  LET owed == Added(spent[usage.day], late[usage.day]) IN
  hasCached => \/ usage.count.seconds <= owed.seconds
               \/ Exceeded(owed)
               \/ usage.count.seconds >= Full /\ (Turned \/ Renamed)

=============================================================================
