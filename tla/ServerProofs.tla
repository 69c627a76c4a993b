----------------------------- MODULE ServerProofs -----------------------------
(***************************************************************************)
(* Three safety properties of the transfer server, for any number of       *)
(* devices, requests, items and batches, and every starting configuration: *)
(* a server that is to stay is ended by no transfer; a device shown as     *)
(* completed was sent every byte, unless its requests overlapped; one that *)
(* has reported that its uploads are done is shown as completed.           *)
(*                                                                         *)
(* KeepAliveStays is not inductive by itself: the places that may end the  *)
(* transfer look at autoStop, so the invariant also has to say that an     *)
(* autoStop that is on was switched on, and that no goroutine is on its    *)
(* way to the stop token.                                                  *)
(***************************************************************************)
EXTENDS Server, FiniteSetTheorems, TLAPS

Kept == setup.keepAlive /\ ~everAuto

StaysInv ==
  /\ autoStop => everAuto
  /\ Kept => status # "completed"
  /\ Kept => asked = 0 /\ asleep = 0
  /\ Kept /\ (token \/ main = "returned") => hostStop \/ broken

\* What no step of a handler touches, and where the steps of the goroutines
\* that end a transfer may take the invariant
EndVars == <<setup, autoStop, everAuto, asked, asleep, token, hostStop, broken, main>>

(***************************************************************************)
(* A step that leaves the stop alone and does not complete the transfer.   *)
(***************************************************************************)
LEMMA QuietStep ==
  ASSUME StaysInv, UNCHANGED EndVars,
         status' = status \/ status' # "completed"
  PROVE  StaysInv'
BY DEF StaysInv, Kept, EndVars

(***************************************************************************)
(* A step that ends the transfer, where the code allows it to.             *)
(***************************************************************************)
LEMMA EndingStep ==
  ASSUME StaysInv, UNCHANGED <<setup, autoStop, everAuto>>,
         ~setup.keepAlive \/ autoStop
  PROVE  StaysInv'
BY DEF StaysInv, Kept

(***************************************************************************)
(* The steps both sides share: the host, auto-stop, and the stop token.    *)
(***************************************************************************)
LEMMA ServerStepStays == ASSUME StaysInv, ServerStep PROVE StaysInv'
<1>1. CASE Tick \/ \E d \in Device : GoStale(d) \/ StopClientTransfer(d)
  BY <1>1, QuietStep DEF Tick, GoStale, StopClientTransfer, EndVars, stopVars
<1>7. CASE Wait
  BY <1>7 DEF Wait, StaysInv, Kept
<1>8. CASE ServeBreaks
  BY <1>8 DEF ServeBreaks, StaysInv, Kept
<1>2. CASE GraceAsk
  BY <1>2 DEF GraceAsk, SignalStop, StaysInv, Kept
<1>3. CASE GraceEnds
  BY <1>3 DEF GraceEnds, SignalStop, StaysInv, Kept
<1>4. CASE TakeToken
  BY <1>4 DEF TakeToken, StaysInv, Kept
<1>5. CASE HostStops
  BY <1>5 DEF HostStops, SignalStop, StaysInv, Kept
<1>6. ASSUME NEW b \in BOOLEAN, SetAutoStop(b) PROVE StaysInv'
  <2>1. CASE b
    BY <1>6, <2>1 DEF SetAutoStop, StaysInv, Kept
  <2>2. CASE ~b
    BY <1>6, <2>2 DEF SetAutoStop, StaysInv, Kept, stopVars
  <2> QED BY <2>1, <2>2
<1> QED BY <1>1, <1>2, <1>3, <1>4, <1>5, <1>6, <1>7, <1>8 DEF ServerStep, StopStep

(***************************************************************************)
(* Downloads: only StopByUser and Decide may end the transfer.             *)
(***************************************************************************)
LEMMA SendStepStays == ASSUME StaysInv, SendStep PROVE StaysInv'
<1>1. ASSUME NEW d \in Device,
             GetPage(d) \/ registerClientActivity(d, 2)
      PROVE StaysInv'
  BY <1>1, QuietStep DEF GetPage, registerClientActivity, EndVars, stopVars
<1>2. ASSUME NEW d \in Device, StopByUser(d) PROVE StaysInv'
  BY <1>2, QuietStep, EndingStep DEF StopByUser, EndVars, stopVars
<1>3. ASSUME NEW d \in Device, RejectLarge(d) PROVE StaysInv'
  BY <1>3, EndingStep DEF RejectLarge
<1>4. ASSUME NEW r \in Req, HandlerStep(r) PROVE StaysInv'
  <2>5. CASE Look(r)
    BY <2>5, QuietStep, EndingStep DEF Look, OneBrowser, EndVars
  <2>1. CASE Prepare(r) \/ Count(r) \/ EndStream(r) \/ Settle(r) \/ Mark(r) \/ Leave(r)
    BY <2>1, QuietStep DEF Prepare, Count, EndStream, Settle, Mark, Leave, EndVars,
                           serverVars, stopVars
  <2>2. CASE Show(r)
    BY <2>2, QuietStep DEF Show, EndVars, stopVars
  <2>3. CASE Quiet(r)
    BY <2>3, QuietStep DEF Quiet, Quieten, EndVars, stopVars
  <2>4. CASE Decide(r)
    BY <2>4, QuietStep, EndingStep DEF Decide, Quieten, EndVars, stopVars
  <2> QED BY <1>4, <2>1, <2>2, <2>3, <2>4, <2>5 DEF HandlerStep
<1>5. ASSUME NEW r \in Req, NEW d \in Device, NEW i \in Entry, NEW from, NEW last,
             Begin(r, d, i, from, last)
      PROVE StaysInv'
  BY <1>5, QuietStep DEF Begin, EndVars, stopVars
<1> QED BY <1>1, <1>2, <1>3, <1>4, <1>5, ServerStepStays DEF SendStep

(***************************************************************************)
(* Uploads: only DecideEnd may end the transfer.                           *)
(***************************************************************************)
LEMMA DecideStays ==
  ASSUME StaysInv, DecideEnd, UNCHANGED <<setup, autoStop, everAuto>>
  PROVE  StaysInv'
BY QuietStep, EndingStep DEF DecideEnd, EndVars, stopVars

LEMMA ReceiveStepStays == ASSUME StaysInv, ReceiveStep PROVE StaysInv'
<1>1. CASE ProgressEvent \/ ProgressShow \/ Save \/ Tell \/ LookAgain
  BY <1>1, QuietStep DEF ProgressEvent, ProgressShow, Save, Tell, LookAgain, EndVars,
                         serverVars, stopVars
<1>2. CASE DecideArrival
  BY <1>2, DecideStays DEF DecideArrival
<1>3. ASSUME NEW d \in Device, DecideDone(d) PROVE StaysInv'
  BY <1>3, DecideStays DEF DecideDone
<1>4. ASSUME NEW d \in Device, FormFile(d) \/ FormFinish(d) PROVE StaysInv'
  BY <1>4, QuietStep DEF FormFile, FormFinish, EndVars, serverVars, stopVars
<1>5. ASSUME NEW d \in Device, registerClientActivity(d, 1) PROVE StaysInv'
  BY <1>5, QuietStep DEF registerClientActivity, EndVars, stopVars
<1>6. ASSUME NEW d \in Device, PageRequest(d) PROVE StaysInv'
  <2>1. CASE OpenPage(d) \/ SkipInit(d) \/ HandOver(d)
    BY <2>1, QuietStep DEF OpenPage, SkipInit, HandOver, EndVars, serverVars, stopVars
  <2>2. CASE InitBatch(d) \/ PostForm(d)
    BY <2>2, QuietStep DEF InitBatch, PostForm, EndVars, stopVars
  <2>3. CASE StopUpload(d) \/ Patch(d) \/ PostDone(d) \/ FormChunk(d)
    BY <2>3, QuietStep DEF StopUpload, Patch, PostDone, FormChunk, EndVars, stopVars
  <2>4. CASE RefuseUpload(d) \/ FormTooLarge(d)
    BY <2>4, QuietStep DEF RefuseUpload, FormTooLarge, EndVars, stopVars
  <2>5. CASE PageBreaks(d)
    BY <2>5 DEF PageBreaks, StaysInv, Kept
  <2> QED BY <1>6, <2>1, <2>2, <2>3, <2>4, <2>5 DEF PageRequest
<1> QED BY <1>1, <1>2, <1>3, <1>4, <1>5, <1>6, ServerStepStays DEF ReceiveStep, Running

(***************************************************************************)
(* The invariant holds, whatever Setups and Device are.                    *)
(***************************************************************************)
THEOREM StaysInvariant == Spec => []StaysInv
<1>1. Init => StaysInv
  BY DEF Init, ServerInit, StaysInv, Kept
<1>2. StaysInv /\ [Next]_vars => StaysInv'
  <2> SUFFICES ASSUME StaysInv, [Next]_vars PROVE StaysInv'
    OBVIOUS
  <2>1. CASE Next
    BY <2>1, SendStepStays, ReceiveStepStays DEF Next
  <2>2. CASE UNCHANGED vars
    BY <2>2, QuietStep DEF vars, serverVars, EndVars
  <2> QED BY <2>1, <2>2
<1> QED BY <1>1, <1>2, PTL DEF Spec

(***************************************************************************)
(* While a server is to stay and auto-stop was never on, no transfer ends  *)
(* it: it is not shown as completed, no goroutine is on its way to the     *)
(* stop token, and a stop that was asked for, or carried out, was asked    *)
(* for by the host or by a page or a listener that broke.                  *)
(***************************************************************************)
THEOREM KeptAlive == Spec => []KeepAliveStays
<1>1. StaysInv => KeepAliveStays
  BY DEF StaysInv, Kept, KeepAliveStays
<1> QED BY <1>1, StaysInvariant, PTL

-----------------------------------------------------------------------------
(***************************************************************************)
(* What a device has been sent, when one item is offered and no parts are  *)
(* asked for.  The bytes written to a device are a beginning of the item,  *)
(* and its count never runs ahead of them until they are all there.  A     *)
(* request that has been let in counts from where it started; only one     *)
(* that finds its device transferring goes on from an older count, and     *)
(* then the device has everything already.  All this is said of devices    *)
(* that never asked while an earlier request of theirs was served: of the  *)
(* others nothing is known but the types, and they disturb nobody else.    *)
(***************************************************************************)
Single == setup.mode = "send" /\ ~setup.ranges /\ ~IsMulti

LEMMA SetupFacts ==
  ASSUME setup \in Setups
  PROVE  /\ Size \in Nat \ {0} /\ Paths \subseteq Nat \ {0} /\ IsFiniteSet(Paths)
         /\ setup.mode = "send" => Paths # {}
BY SetupAssumption DEF Setup, Size, Paths

LEMMA OneItem == setup \in Setups /\ Single => \E p: Paths = {p}
<1> SUFFICES ASSUME setup \in Setups, Single PROVE \E p: Paths = {p}
  OBVIOUS
<1>1. IsFiniteSet(Paths) /\ Paths # {} /\ ~(Cardinality(Paths) > 1)
  BY SetupFacts DEF Single, IsMulti
<1>2. Cardinality(Paths) \in Nat /\ Cardinality(Paths) # 0
  BY <1>1, FS_CardinalityType, FS_EmptySet
<1>3. Cardinality(Paths) = 1
  BY <1>1, <1>2
<1> QED BY <1>1, <1>3, FS_Singleton

Early == {"look", "prepare"}
Sending == {"stream", "show"}
Holding == {"stream", "show", "settle", "quiet", "mark", "decide", "leave"}
ReqPC == {"idle", "done"} \cup Early \cup Holding
ReqType == [pc: ReqPC, dev: Device \cup {None}, item: Entry, start: Nat, last: Nat, pos: Nat,
            already: BOOLEAN, end: Outcome, all: BOOLEAN]

SentType ==
  /\ setup \in Setups /\ rq \in [Req -> ReqType] /\ sent \in [Device -> [Entry -> SUBSET Nat]]
  /\ progress \in [Device -> [Entry -> Nat]] /\ conns \in [Device -> Nat]
  /\ client \in [Device -> {"waiting", "transferring", "completed", "failed", "stopped"}]
  /\ overlapped \subseteq Device

Full(d, i) == sent[d][i] = 0 .. Size - 1
Holds(d) == \E r \in Req: rq[r].dev = d /\ rq[r].pc \in Holding

DeviceSound(d) ==
  /\ \A i \in Paths: \E h \in 0 .. Size:
       sent[d][i] = 0 .. h - 1 /\ (h = Size \/ progress[d][i] <= h)
  /\ client[d] = "completed" => \A i \in Paths: Full(d, i)
  /\ client[d] = "transferring" =>
       \/ \A i \in Paths: Full(d, i)
       \/ \E r \in Req: rq[r].dev = d /\ rq[r].pc \in Sending \cup {"settle"}
  /\ conns[d] = IF Holds(d) THEN 1 ELSE 0

RequestTyped(r) ==
  /\ rq[r].pc \in {"idle", "done"} => rq[r].dev = None
  /\ rq[r].pc \in Early \cup Holding =>
       rq[r].dev \in Device /\ rq[r].item \in Paths /\ rq[r].last = Size - 1

RequestSound(r) ==
  LET d == rq[r].dev  i == rq[r].item IN
  /\ rq[r].pc \in Early => rq[r].start = rq[r].pos /\ rq[r].start < Size
                           /\ 0 .. rq[r].start - 1 \subseteq sent[d][i]
  /\ rq[r].pc = "prepare" /\ rq[r].already => Full(d, i)
  /\ rq[r].pc \in Sending => /\ rq[r].pos <= Size /\ 0 .. rq[r].pos - 1 \subseteq sent[d][i]
                             /\ Full(d, i) \/ progress[d][i] <= rq[r].pos
  /\ rq[r].pc = "settle" => rq[r].end = "err"
  /\ rq[r].pc \in {"mark", "decide"} => Full(d, i)

SentInv == Single =>
  /\ SentType
  /\ \A r \in Req: RequestTyped(r)
  /\ \A r, q \in Req: rq[r].dev = rq[q].dev /\ rq[r].dev \notin overlapped \cup {None} => r = q
  /\ \A d \in Device: d \in overlapped \/ DeviceSound(d)
  /\ \A r \in Req: rq[r].dev \in overlapped \/ RequestSound(r)

(***************************************************************************)
(* A step of one request changes nothing of other devices.                 *)
(***************************************************************************)
LEMMA OneRequest ==
  ASSUME SentType, SentType', UNCHANGED setup, Single, SentInv,
         NEW r \in Req, NEW d \in Device,
         rq[r].dev \in {d, None} /\ rq[r]'.dev \in {d, None},
         overlapped' \in {overlapped, overlapped \cup {d}},
         d \in overlapped' \/ rq[r].dev = d \/ \A q \in Req: rq[q].dev # d,
         \A q \in Req \ {r}: rq[q]' = rq[q],
         \A e \in Device \ {d}:
           client[e]' = client[e] /\ conns[e]' = conns[e] /\ sent[e]' = sent[e] /\ progress[e]' = progress[e],
         RequestTyped(r)',
         d \in overlapped' \/ (RequestSound(r)' /\ DeviceSound(d)')
  PROVE  SentInv'
<1>0. Req' = Req /\ Paths' = Paths /\ Size' = Size
  BY DEF Req, Paths, Size
<1>1. /\ \A q \in Req: RequestTyped(q)
      /\ \A e, q \in Req: rq[e].dev = rq[q].dev /\ rq[e].dev \notin overlapped \cup {None} => e = q
      /\ \A e \in Device: e \in overlapped \/ DeviceSound(e)
      /\ \A q \in Req: rq[q].dev \in overlapped \/ RequestSound(q)
  BY DEF SentInv
<1>n. None \notin Device
  BY NoneAssumption
<1>o. overlapped \subseteq overlapped' /\ \A e: e # d /\ e \in overlapped' => e \in overlapped
  OBVIOUS
<1>2. ASSUME NEW e \in Req, NEW q \in Req, rq[e]'.dev = rq[q]'.dev, rq[e]'.dev \notin overlapped' \cup {None}
      PROVE  e = q
  BY <1>1, <1>2, <1>n, <1>o
<1>t. ASSUME NEW q \in Req PROVE RequestTyped(q)'
  <2>1. CASE q = r
    BY <2>1
  <2>2. CASE q # r
    BY <1>0, <1>1, <2>2 DEF RequestTyped
  <2> QED BY <2>1, <2>2
<1>3. ASSUME NEW q \in Req, rq[q]'.dev \notin overlapped' PROVE RequestSound(q)'
  <2>1. CASE q = r
    <3>1. CASE d \in overlapped'
      <4>1. rq[r]'.dev = None
        BY <1>3, <2>1, <3>1
      <4>2. rq[r]'.pc \notin Early \cup Holding
        BY <1>0, <1>n, <4>1 DEF RequestTyped
      <4>3. rq[q]'.pc \notin Sending \cup {"prepare", "settle", "mark", "decide"}
        BY <2>1, <4>2 DEF Early, Sending, Holding
      <4> QED BY <2>1, <4>2, <4>3 DEF RequestSound
    <3> QED BY <2>1, <3>1
  <2>2. CASE q # r
    <3>1. rq[q]' = rq[q] /\ RequestSound(q)
      BY <1>1, <1>3, <1>o, <2>2
    <3>2. CASE rq[q].pc \in Early \cup Holding
      <4>1. rq[q].dev \in Device
        BY <1>1, <3>1, <3>2 DEF RequestTyped
      <4>2. rq[q].dev # d
        BY <1>1, <1>3, <1>n, <1>o, <2>2, <3>1, <4>1
      <4> QED BY <1>0, <3>1, <3>2, <4>1, <4>2 DEF RequestSound, Full
    <3>3. CASE rq[q].pc \notin Early \cup Holding
      BY <1>0, <3>1, <3>3 DEF RequestSound, Early, Sending, Holding
    <3> QED BY <3>2, <3>3
  <2> QED BY <2>1, <2>2
<1>4. ASSUME NEW e \in Device, e \notin overlapped' PROVE DeviceSound(e)'
  <2>1. CASE e = d
    BY <1>4, <2>1
  <2>2. CASE e # d
    <3>1. \A q \in Req: (rq[q].dev = e => q # r) /\ (rq[q]'.dev = e => q # r)
      BY <1>n, <2>2
    <3>2. \A q \in Req: rq[q].dev = e \/ rq[q]'.dev = e => rq[q]' = rq[q]
      BY <3>1
    <3>3. Holds(e)' = Holds(e)
      BY <1>0, <3>2 DEF Holds
    <3>4. (\E q \in Req: rq[q].dev = e /\ rq[q].pc \in Sending \cup {"settle"})
            => \E q \in Req: rq[q]'.dev = e /\ rq[q]'.pc \in Sending \cup {"settle"}
      BY <3>2
    <3>5. DeviceSound(e)
      BY <1>1, <1>4, <1>o
    <3> QED BY <1>0, <2>2, <3>3, <3>4, <3>5 DEF DeviceSound, Full
  <2> QED BY <2>1, <2>2
<1> QED BY <1>0, <1>2, <1>t, <1>3, <1>4 DEF SentInv

(***************************************************************************)
(* A step that touches no request: it may give up on a device, or forget   *)
(* what the device has counted.                                            *)
(***************************************************************************)
LEMMA NoRequest ==
  ASSUME Single, SentInv, UNCHANGED <<setup, rq, sent, conns, overlapped>>, SentType',
         \A e \in Device: client'[e] = client[e] \/ client'[e] \notin {"completed", "transferring"},
         \A e \in Device: \A i \in Paths: progress'[e][i] = progress[e][i] \/ progress'[e][i] = 0
  PROVE  SentInv'
<1>0. Req' = Req /\ Paths' = Paths /\ Size' = Size 
  BY DEF Req, Paths, Size
<1>1. /\ \A q \in Req: RequestTyped(q)
      /\ \A r, q \in Req: rq[r].dev = rq[q].dev /\ rq[r].dev \notin overlapped \cup {None} => r = q
      /\ \A e \in Device: e \in overlapped \/ DeviceSound(e)
      /\ \A q \in Req: rq[q].dev \in overlapped \/ RequestSound(q)
      /\ SentType
  BY DEF SentInv
<1>2. ASSUME NEW e \in Device, e \notin overlapped PROVE DeviceSound(e)'
  <2>d. DeviceSound(e)
    BY <1>1, <1>2
  <2>1. \A i \in Paths: \E h \in 0 .. Size: sent[e][i] = 0 .. h - 1 /\ (h = Size \/ progress'[e][i] <= h)
    BY <1>1, <2>d DEF DeviceSound
  <2>2. Holds(e)' = Holds(e)
    BY <1>0 DEF Holds
  <2> QED BY <1>0, <1>1, <2>d, <2>1, <2>2 DEF DeviceSound, Full
<1>3. ASSUME NEW q \in Req, rq[q].dev \notin overlapped PROVE RequestSound(q)'
  <2>r. RequestSound(q)
    BY <1>1, <1>3
  <2>1. rq[q].pc \in Sending => Full(rq[q].dev, rq[q].item) \/ progress'[rq[q].dev][rq[q].item] <= rq[q].pos
    <3> SUFFICES ASSUME rq[q].pc \in Sending
                 PROVE  Full(rq[q].dev, rq[q].item) \/ progress'[rq[q].dev][rq[q].item] <= rq[q].pos
      OBVIOUS
    <3>1. rq[q].dev \in Device /\ rq[q].item \in Paths /\ rq[q].pos \in Nat
      BY <1>1 DEF RequestTyped, Sending, Holding, SentType, ReqType
    <3> QED BY <1>1, <2>r, <3>1 DEF RequestSound
  <2> QED BY <1>0, <2>r, <2>1 DEF RequestSound, Full
<1>4. \A q \in Req: RequestTyped(q)'
  BY <1>0, <1>1 DEF RequestTyped
<1> QED BY <1>0, <1>1, <1>2, <1>3, <1>4 DEF SentInv

(***************************************************************************)
(* Who counts as finished, and what a handler's device is like.            *)
(***************************************************************************)
LEMMA FinishedIsSent ==
  ASSUME SentType, Single, NEW d \in Device, DeviceSound(d), isClientFinished(d)
  PROVE  \A i \in Paths: Full(d, i)
<1>1. \A i \in Paths: progress[d][i] >= Size
  BY DEF isClientFinished, HasAllItems, Single
<1>2. Size \in Nat
  BY SetupFacts DEF SentType
<1>3. \A i \in Paths: progress[d][i] \in Nat
  BY DEF SentType, Entry
<1> QED BY <1>1, <1>2, <1>3 DEF DeviceSound, Full

LEMMA SentFacts ==
  ASSUME SentInv, Single, NEW r \in Req, rq[r].pc \in Early \cup Holding, rq[r].dev \notin overlapped
  PROVE  /\ SentType /\ DeviceSound(rq[r].dev) /\ RequestSound(r) /\ rq[r] \in ReqType
         /\ rq[r].dev \in Device /\ rq[r].item \in Paths /\ Paths = {rq[r].item}
         /\ rq[r].item \in Entry /\ Size \in Nat \ {0} /\ Zip \notin Paths /\ rq[r].last = Size - 1
         /\ Entry = {rq[r].item, Zip} /\ SizeOf(rq[r].item) = Size
         /\ \A q \in Req \ {r}: rq[q].dev # rq[r].dev
<1>1. /\ SentType /\ RequestSound(r) /\ RequestTyped(r) /\ rq[r] \in ReqType
      /\ \A e \in Device: e \in overlapped \/ DeviceSound(e)
      /\ \A e, q \in Req: rq[e].dev = rq[q].dev /\ rq[e].dev \notin overlapped \cup {None} => e = q
  BY DEF SentInv, SentType
<1>2. rq[r].dev \in Device /\ rq[r].item \in Paths /\ rq[r].last = Size - 1
  BY <1>1 DEF RequestTyped
<1>3. Paths = {rq[r].item} /\ Size \in Nat \ {0} /\ Zip \notin Paths
  BY <1>1, <1>2, OneItem, SetupFacts DEF SentType, Zip
<1> QED BY <1>1, <1>2, <1>3, NoneAssumption DEF Entry, SizeOf

(* A request that has counted a chunk.                                      *)
LEMMA CountedIs ==
  ASSUME NEW q \in ReqType
  PROVE  LET x == [q EXCEPT !.pc = "show", !.pos = @ + 1] IN
         /\ x \in ReqType /\ x.dev = q.dev /\ x.item = q.item /\ x.last = q.last
         /\ x.pc = "show" /\ x.pos = q.pos + 1
<1>1. "show" \in ReqPC /\ q.pos + 1 \in Nat
  BY DEF ReqType, ReqPC, Holding
<1> QED BY <1>1 DEF ReqType

LEMMA HandlerSent ==
  ASSUME Single, SentInv, NEW r \in Req, HandlerStep(r), rq[r].dev \notin overlapped
  PROVE  SentInv'
<1>0. rq[r].pc \in Early \cup Holding
  BY DEF HandlerStep, Look, Prepare, Count, Show, EndStream, Settle, Quiet, Mark, Decide, Leave, Early, Holding
<1>p. PICK d \in Device, i \in Paths: rq[r].dev = d /\ rq[r].item = i
  BY <1>0, SentFacts
<1>1. /\ SentType /\ DeviceSound(d) /\ RequestSound(r) /\ rq[r] \in ReqType /\ Paths = {i}
      /\ i \in Entry /\ Size \in Nat \ {0} /\ i # Zip /\ Zip \notin Paths /\ rq[r].last = Size - 1
      /\ Entry = {i, Zip} /\ SizeOf(i) = Size
      /\ \A q \in Req \ {r}: rq[q].dev # d
  BY <1>0, <1>p, SentFacts
<1>2. /\ rq \in [Req -> ReqType] /\ sent \in [Device -> [Entry -> SUBSET Nat]]
      /\ progress \in [Device -> [Entry -> Nat]] /\ conns \in [Device -> Nat]
      /\ client \in [Device -> {"waiting", "transferring", "completed", "failed", "stopped"}]
      /\ setup \in Setups /\ overlapped \subseteq Device
  BY <1>1 DEF SentType
<1>u. UNCHANGED overlapped
  BY DEF HandlerStep, Look, Prepare, Count, Show, EndStream, Settle, Quiet, Mark, Decide, Leave
<1>3. Holds(d) <=> rq[r].pc \in Holding
  BY <1>1, <1>p DEF Holds
<1>n. None \notin Device
  BY NoneAssumption
<1>r. /\ rq[r].pc \in Early => rq[r].start = rq[r].pos /\ rq[r].start < Size
                               /\ 0 .. rq[r].start - 1 \subseteq sent[d][i]
      /\ rq[r].pc = "prepare" /\ rq[r].already => Full(d, i)
      /\ rq[r].pc \in Sending => /\ rq[r].pos <= Size /\ 0 .. rq[r].pos - 1 \subseteq sent[d][i]
                                 /\ Full(d, i) \/ progress[d][i] <= rq[r].pos
      /\ rq[r].pc = "settle" => rq[r].end = "err"
      /\ rq[r].pc \in {"mark", "decide"} => Full(d, i)
  BY <1>1, <1>p DEF RequestSound
<1>d. PICK h \in 0 .. Size: sent[d][i] = 0 .. h - 1 /\ (h = Size \/ progress[d][i] <= h)
  BY <1>1, <1>p DEF DeviceSound
<1>f. /\ client[d] = "completed" => Full(d, i)
      /\ client[d] = "transferring" => Full(d, i) \/ rq[r].pc \in Sending \cup {"settle"}
      /\ conns[d] = IF rq[r].pc \in Holding THEN 1 ELSE 0
  BY <1>1, <1>3, <1>p DEF DeviceSound
\* a step of the request alone
<1>a. ASSUME UNCHANGED setup, NEW x \in ReqType, rq' = [rq EXCEPT ![r] = x], x.dev \in {d, None},
             NEW c \in {"waiting", "transferring", "completed", "failed", "stopped"}, client' = [client EXCEPT ![d] = c],
             NEW k \in Nat, conns' = [conns EXCEPT ![d] = k],
             NEW s \in SUBSET Nat, sent' = [sent EXCEPT ![d][i] = s],
             NEW pr \in [Entry -> Nat], progress' = [progress EXCEPT ![d] = pr],
             \E g \in 0 .. Size: s = 0 .. g - 1 /\ (g = Size \/ pr[i] <= g),
             c = "completed" => s = 0 .. Size - 1,
             c = "transferring" => s = 0 .. Size - 1 \/ (x.dev = d /\ x.pc \in Sending \cup {"settle"}),
             k = IF x.dev = d /\ x.pc \in Holding THEN 1 ELSE 0,
             x.dev = None => x.pc = "done",
             x.dev = d => /\ x.item = i /\ x.last = Size - 1 /\ x.pc \notin {"idle", "done"}
                          /\ x.pc \in Early => x.start = x.pos /\ x.start < Size /\ 0 .. x.start - 1 \subseteq s
                          /\ x.pc = "prepare" /\ x.already => s = 0 .. Size - 1
                          /\ x.pc \in Sending => /\ x.pos <= Size /\ 0 .. x.pos - 1 \subseteq s
                                                 /\ s = 0 .. Size - 1 \/ pr[i] <= x.pos
                          /\ x.pc = "settle" => x.end = "err"
                          /\ x.pc \in {"mark", "decide"} => s = 0 .. Size - 1
      PROVE  SentInv'
  <2>0. Req' = Req /\ Paths' = Paths /\ Size' = Size /\ Entry' = Entry
    BY <1>a DEF Req, Paths, Size, Entry
  <2>1. /\ rq'[r] = x /\ \A q \in Req \ {r}: rq'[q] = rq[q]
        /\ client'[d] = c /\ conns'[d] = k /\ sent'[d][i] = s /\ progress'[d] = pr
        /\ \A e \in Device \ {d}: client'[e] = client[e] /\ conns'[e] = conns[e] /\ sent'[e] = sent[e]
                                  /\ progress'[e] = progress[e]
    BY <1>1, <1>2, <1>a
  <2>2. SentType'
    <3>1. rq' \in [Req -> ReqType] /\ client' \in [Device -> {"waiting", "transferring", "completed", "failed", "stopped"}]
          /\ conns' \in [Device -> Nat] /\ progress' \in [Device -> [Entry -> Nat]]
      BY <1>2, <1>a
    <3>2. sent' \in [Device -> [Entry -> SUBSET Nat]]
      BY <1>1, <1>2, <1>a
    <3>3. ReqType' = ReqType
      BY <2>0 DEF ReqType
    <3> QED BY <1>2, <1>a, <1>u, <2>0, <3>1, <3>2, <3>3 DEF SentType
  <2>5. RequestTyped(r)'
    <3>1. CASE x.dev = d
      <4>1. x.dev = d /\ x.item = i /\ x.last = Size - 1 /\ x.pc \notin {"idle", "done"}
        BY <1>a, <3>1
      <4> QED BY <1>1, <2>0, <2>1, <4>1 DEF RequestTyped
    <3>2. CASE x.dev = None
      BY <1>a, <2>1, <3>2 DEF RequestTyped, Early, Holding
    <3> QED BY <1>a, <3>1, <3>2
  <2>3. RequestSound(r)'
    <3>1. CASE x.dev = d
      BY <1>1, <1>n, <1>a, <2>0, <2>1, <3>1 DEF RequestSound, Full
    <3>2. CASE x.dev = None
      BY <1>a, <2>1, <3>2 DEF RequestSound, Early, Holding, Sending
    <3> QED BY <1>a, <3>1, <3>2
  <2>4. DeviceSound(d)'
    <3>1. Holds(d)' <=> x.dev = d /\ x.pc \in Holding
      BY <1>1, <2>0, <2>1 DEF Holds
    <3>2. x.dev = d /\ x.pc \in Sending \cup {"settle"}
            => \E q \in Req: rq'[q].dev = d /\ rq'[q].pc \in Sending \cup {"settle"}
      BY <2>1
    <3> QED BY <1>1, <1>a, <2>0, <2>1, <3>1, <3>2 DEF DeviceSound, Full
  <2> QED BY <1>1, <1>a, <1>p, <1>u, <2>1, <2>2, <2>3, <2>4, <2>5, OneRequest
<1>s. /\ conns = [conns EXCEPT ![d] = conns[d]] /\ sent = [sent EXCEPT ![d][i] = sent[d][i]]
      /\ progress = [progress EXCEPT ![d] = progress[d]] /\ client = [client EXCEPT ![d] = client[d]]
      /\ conns[d] \in Nat /\ sent[d][i] \in SUBSET Nat /\ progress[d] \in [Entry -> Nat]
  <2>1. /\ conns = [conns EXCEPT ![d] = conns[d]] /\ progress = [progress EXCEPT ![d] = progress[d]]
        /\ client = [client EXCEPT ![d] = client[d]]
    BY <1>2
  <2>2. sent = [sent EXCEPT ![d] = [sent[d] EXCEPT ![i] = sent[d][i]]]
    <3>1. sent[d] \in [Entry -> SUBSET Nat]
      BY <1>2
    <3>2. [sent[d] EXCEPT ![i] = sent[d][i]] = sent[d]
      BY <3>1
    <3> QED BY <1>2, <3>2
  <2>3. conns[d] \in Nat /\ progress[d] \in [Entry -> Nat] /\ sent[d][i] \in SUBSET Nat
    <3>1. conns[d] \in Nat /\ progress[d] \in [Entry -> Nat] /\ sent[d] \in [Entry -> SUBSET Nat]
      BY <1>2
    <3> QED BY <1>1, <3>1
  <2> QED BY <2>1, <2>2, <2>3
<1>b. ASSUME UNCHANGED <<setup, conns, sent, progress>>, NEW x \in ReqType, rq' = [rq EXCEPT ![r] = x], x.dev = d,
             x.item = i, x.last = Size - 1, x.pc \notin {"idle", "done"}, rq[r].pc \in Holding <=> x.pc \in Holding,
             NEW c \in {"waiting", "transferring", "completed", "failed", "stopped"}, client' = [client EXCEPT ![d] = c],
             c = "completed" => Full(d, i),
             c = "transferring" => Full(d, i) \/ x.pc \in Sending \cup {"settle"},
             x.pc \in Early => x.start = x.pos /\ x.start < Size /\ 0 .. x.start - 1 \subseteq sent[d][i],
             x.pc = "prepare" /\ x.already => Full(d, i),
             x.pc \in Sending => /\ x.pos <= Size /\ 0 .. x.pos - 1 \subseteq sent[d][i]
                                 /\ Full(d, i) \/ progress[d][i] <= x.pos,
             x.pc = "settle" => x.end = "err",
             x.pc \in {"mark", "decide"} => Full(d, i)
      PROVE  SentInv'
  <2>1. /\ conns' = [conns EXCEPT ![d] = conns[d]] /\ sent' = [sent EXCEPT ![d][i] = sent[d][i]]
        /\ progress' = [progress EXCEPT ![d] = progress[d]]
        /\ conns[d] \in Nat /\ sent[d][i] \in SUBSET Nat /\ progress[d] \in [Entry -> Nat]
    BY <1>s, <1>b
  <2>2. \E g \in 0 .. Size: sent[d][i] = 0 .. g - 1 /\ (g = Size \/ progress[d][i] <= g)
    BY <1>d
  <2>3. conns[d] = IF x.dev = d /\ x.pc \in Holding THEN 1 ELSE 0
    BY <1>f, <1>b
  <2>4. /\ UNCHANGED setup /\ x \in ReqType /\ rq' = [rq EXCEPT ![r] = x] /\ x.dev = d /\ x.dev # None
        /\ c \in {"waiting", "transferring", "completed", "failed", "stopped"} /\ client' = [client EXCEPT ![d] = c]
        /\ x.item = i /\ x.last = Size - 1 /\ x.pc \notin {"idle", "done"}
        /\ x.pc = "settle" => x.end = "err"
    BY <1>b, <1>n
  <2>5. /\ c = "completed" => sent[d][i] = 0 .. Size - 1
        /\ c = "transferring" => sent[d][i] = 0 .. Size - 1 \/ (x.dev = d /\ x.pc \in Sending \cup {"settle"})
        /\ x.pc \in Early => x.start = x.pos /\ x.start < Size /\ 0 .. x.start - 1 \subseteq sent[d][i]
        /\ x.pc = "prepare" /\ x.already => sent[d][i] = 0 .. Size - 1
        /\ x.pc \in Sending => /\ x.pos <= Size /\ 0 .. x.pos - 1 \subseteq sent[d][i]
                               /\ sent[d][i] = 0 .. Size - 1 \/ progress[d][i] <= x.pos
        /\ x.pc \in {"mark", "decide"} => sent[d][i] = 0 .. Size - 1
    BY <1>b, <2>4 DEF Full
  <2> DEFINE s == sent[d][i]
             pr == progress[d]
             k == conns[d]
  <2>6. /\ k \in Nat /\ s \in SUBSET Nat /\ pr \in [Entry -> Nat]
        /\ conns' = [conns EXCEPT ![d] = k] /\ sent' = [sent EXCEPT ![d][i] = s] /\ progress' = [progress EXCEPT ![d] = pr]
        /\ \E g \in 0 .. Size: s = 0 .. g - 1 /\ (g = Size \/ pr[i] <= g)
        /\ k = IF x.dev = d /\ x.pc \in Holding THEN 1 ELSE 0
        /\ c = "completed" => s = 0 .. Size - 1
        /\ c = "transferring" => s = 0 .. Size - 1 \/ (x.dev = d /\ x.pc \in Sending \cup {"settle"})
        /\ x.pc \in Early => x.start = x.pos /\ x.start < Size /\ 0 .. x.start - 1 \subseteq s
        /\ x.pc = "prepare" /\ x.already => s = 0 .. Size - 1
        /\ x.pc \in Sending => /\ x.pos <= Size /\ 0 .. x.pos - 1 \subseteq s
                               /\ s = 0 .. Size - 1 \/ pr[i] <= x.pos
        /\ x.pc \in {"mark", "decide"} => s = 0 .. Size - 1
    BY <2>1, <2>2, <2>3, <2>5
  <2> HIDE DEF s, pr, k
  <2> QED BY <1>a, <2>4, <2>6
<1>c. client' = client => client' = [client EXCEPT ![d] = client[d]]
  BY <1>2
<1>e. ASSUME UNCHANGED <<setup, sent, progress, client>>, rq[r].pc \in {"look", "leave"},
             conns' = [conns EXCEPT ![d] = 0], rq' = [rq EXCEPT ![r] = [Fresh EXCEPT !.pc = "done"]]
      PROVE  SentInv'
  <2> DEFINE x == [Fresh EXCEPT !.pc = "done"]
  <2>2. x \in ReqType /\ x.dev = None /\ x.pc = "done"
    BY DEF Fresh, ReqType, ReqPC, Entry, Outcome
  <2>4. /\ sent' = [sent EXCEPT ![d][i] = sent[d][i]] /\ progress' = [progress EXCEPT ![d] = progress[d]]
        /\ sent[d][i] \in SUBSET Nat /\ progress[d] \in [Entry -> Nat] /\ client' = [client EXCEPT ![d] = client[d]]
    BY <1>e, <1>s
  <2>5. \E g \in 0 .. Size: sent[d][i] = 0 .. g - 1 /\ (g = Size \/ progress[d][i] <= g)
    BY <1>d
  <2>6. client[d] \in {"completed", "transferring"} => sent[d][i] = 0 .. Size - 1
    BY <1>e, <1>f DEF Sending, Full
  <2>7. rq' = [rq EXCEPT ![r] = x]
    BY <1>e
  <2> HIDE DEF x
  <2> QED BY <1>2, <1>a, <1>e, <1>n, <2>2, <2>4, <2>5, <2>6, <2>7
<1>4. CASE Look(r)
  <2>1. rq[r].pc = "look" /\ UNCHANGED <<setup, conns, sent, progress, client>>
    BY <1>4 DEF Look, deviceVars
  <2>2. CASE rq' = [rq EXCEPT ![r] = [Fresh EXCEPT !.pc = "done"]]
    <3>1. conns[d] = 0
      BY <1>f, <2>1 DEF Holding
    <3>2. conns' = [conns EXCEPT ![d] = 0]
      BY <1>2, <2>1, <3>1
    <3> QED BY <1>e, <2>1, <2>2, <3>2
  <2>3. CASE rq' = [rq EXCEPT ![r].pc = "prepare", ![r].already = client[d] = "transferring"]
    <3> DEFINE x == [rq[r] EXCEPT !.pc = "prepare", !.already = client[d] = "transferring"]
    <3>1. /\ x \in ReqType /\ x.dev = d /\ x.item = i /\ x.last = Size - 1 /\ x.pc = "prepare" /\ rq' = [rq EXCEPT ![r] = x]
          /\ x.already = (client[d] = "transferring") /\ x.start = rq[r].start /\ x.pos = rq[r].pos
      BY <1>1, <1>2, <1>p, <2>3 DEF ReqType, ReqPC, Early
    <3> HIDE DEF x
    <3> QED BY <1>2, <1>b, <1>c, <1>f, <1>r, <2>1, <3>1 DEF Early, Holding, Sending
  <2> QED BY <1>4, <1>p, <2>2, <2>3 DEF Look
<1>5. CASE Prepare(r)
  <2>1. /\ rq[r].pc = "prepare" /\ UNCHANGED <<setup, sent>>
        /\ conns' = [conns EXCEPT ![d] = @ + 1] /\ client' = [client EXCEPT ![d] = "transferring"]
        /\ rq' = [rq EXCEPT ![r].pc = "stream"]
        /\ progress' = IF rq[r].already THEN progress
                       ELSE [progress EXCEPT ![d] = [j \in Entry |-> IF j = i THEN rq[r].start
                                                                     ELSE IF j = Zip THEN 0 ELSE @[j]]]
    BY <1>5, <1>p DEF Prepare, SetClient, StartCount
  <2> DEFINE x == [rq[r] EXCEPT !.pc = "stream"]
             pr == IF rq[r].already THEN progress[d] ELSE [j \in Entry |-> IF j = i THEN rq[r].start ELSE 0]
  <2>2. /\ x \in ReqType /\ x.dev = d /\ x.item = i /\ x.last = Size - 1 /\ x.pc = "stream" /\ rq' = [rq EXCEPT ![r] = x]
        /\ x.pos = rq[r].pos /\ rq[r].pos \in Nat /\ rq[r].start \in Nat
    BY <1>1, <1>2, <1>p, <2>1 DEF ReqType, ReqPC, Holding
  <2>3. pr \in [Entry -> Nat] /\ progress' = [progress EXCEPT ![d] = pr]
        /\ pr[i] = IF rq[r].already THEN progress[d][i] ELSE rq[r].start
    <3>1. CASE rq[r].already
      BY <1>1, <1>2, <2>1, <3>1
    <3>2. CASE ~rq[r].already
      <4>1. pr = [j \in Entry |-> IF j = i THEN rq[r].start ELSE 0]
        BY <3>2
      <4>2. progress' = [progress EXCEPT ![d] = [j \in Entry |-> IF j = i THEN rq[r].start
                                                                ELSE IF j = Zip THEN 0 ELSE progress[d][j]]]
        BY <2>1, <3>2
      <4>3. \A j \in Entry: j = i \/ j = Zip
        BY <1>1
      <4>4. [j \in Entry |-> IF j = i THEN rq[r].start ELSE IF j = Zip THEN 0 ELSE progress[d][j]]
              = [j \in Entry |-> IF j = i THEN rq[r].start ELSE 0]
        BY <4>3
      <4>5. [j \in Entry |-> IF j = i THEN rq[r].start ELSE 0] \in [Entry -> Nat]
        BY <2>2
      <4> HIDE DEF pr
      <4>6. pr[i] = rq[r].start
        BY <1>1, <4>1
      <4> QED BY <3>2, <4>1, <4>2, <4>4, <4>5, <4>6
    <3> QED BY <3>1, <3>2
  <2>a. conns[d] = 0
    BY <1>f, <2>1 DEF Holding
  <2>4. conns' = [conns EXCEPT ![d] = 1]
    BY <2>1, <2>a
  <2>5. sent' = [sent EXCEPT ![d][i] = sent[d][i]] /\ sent[d][i] \in SUBSET Nat
    BY <1>s, <2>1
  <2>6. \E g \in 0 .. Size: sent[d][i] = 0 .. g - 1 /\ (g = Size \/ pr[i] <= g)
    <3>1. rq[r].start <= h
      BY <1>1, <1>d, <1>r, <2>1, <2>2 DEF Early
    <3> QED BY <1>d, <2>3, <3>1
  <2>7. rq[r].already => sent[d][i] = 0 .. Size - 1
    BY <1>r, <2>1 DEF Full
  <2>8. rq[r].start = rq[r].pos /\ rq[r].start < Size /\ 0 .. rq[r].start - 1 \subseteq sent[d][i]
    BY <1>r, <2>1 DEF Early
  <2> HIDE DEF x, pr
  <2>9. x.pos <= Size /\ 0 .. x.pos - 1 \subseteq sent[d][i] /\ (sent[d][i] = 0 .. Size - 1 \/ pr[i] <= x.pos)
    BY <1>1, <2>2, <2>3, <2>7, <2>8
  <2>10. x.pc \in Sending /\ x.pc \in Holding /\ x.pc \notin Early
    BY <2>2 DEF Sending, Holding, Early
  <2> DEFINE s == sent[d][i]
  <2>11. /\ s \in SUBSET Nat /\ sent' = [sent EXCEPT ![d][i] = s]
         /\ \E g \in 0 .. Size: s = 0 .. g - 1 /\ (g = Size \/ pr[i] <= g)
         /\ x.pos <= Size /\ 0 .. x.pos - 1 \subseteq s /\ (s = 0 .. Size - 1 \/ pr[i] <= x.pos)
    BY <2>5, <2>6, <2>9
  <2>12. PICK c \in {"waiting", "transferring", "completed", "failed", "stopped"}, k \in Nat:
           /\ c = "transferring" /\ client' = [client EXCEPT ![d] = c]
           /\ k = 1 /\ conns' = [conns EXCEPT ![d] = k]
    BY <2>1, <2>4
  <2> HIDE DEF s
  <2>13. /\ x.dev \in {d, None} /\ x.dev # None /\ c # "completed"
         /\ k = IF x.dev = d /\ x.pc \in Holding THEN 1 ELSE 0
         /\ x.dev = d /\ x.pc \in Sending \cup {"settle"} /\ x.pc \notin Early
         /\ x \in ReqType /\ x.item = i /\ x.last = Size - 1 /\ rq' = [rq EXCEPT ![r] = x]
         /\ UNCHANGED setup /\ pr \in [Entry -> Nat] /\ progress' = [progress EXCEPT ![d] = pr]
         /\ x.pc \notin {"idle", "done"} /\ x.pc # "prepare" /\ x.pc # "settle" /\ x.pc \notin {"mark", "decide"}
    BY <1>n, <2>1, <2>2, <2>3, <2>10, <2>12
  <2> QED BY <1>a, <2>11, <2>12, <2>13
<1>6. CASE Count(r)
  <2>1. /\ rq[r].pc = "stream" /\ rq[r].pos <= rq[r].last /\ UNCHANGED <<setup, conns, client>>
        /\ progress' = [progress EXCEPT ![d][i] = @ + 1]
        /\ sent' = [sent EXCEPT ![d][i] = @ \cup {rq[r].pos}]
        /\ rq' = [rq EXCEPT ![r].pc = "show", ![r].pos = @ + 1]
    BY <1>6, <1>p DEF Count
  <2> DEFINE x == [rq[r] EXCEPT !.pc = "show", !.pos = @ + 1]
             pr == [progress[d] EXCEPT ![i] = @ + 1]
             s == sent[d][i] \cup {rq[r].pos}
  <2>2. /\ x \in ReqType /\ x.dev = d /\ x.item = i /\ x.last = Size - 1 /\ x.pc = "show" /\ rq' = [rq EXCEPT ![r] = x]
        /\ x.pos = rq[r].pos + 1 /\ rq[r].pos \in Nat /\ rq[r].pos < Size
    <3>1. rq[r] \in ReqType /\ rq[r].pos \in Nat
      BY <1>1, <1>p DEF ReqType
    <3>2. rq[r].dev = d /\ rq[r].item = i /\ rq[r].last = Size - 1 /\ rq[r].pos < Size
      BY <1>1, <1>2, <1>p, <2>1, <3>1 DEF Holding
    <3>3. x \in ReqType /\ x.dev = rq[r].dev /\ x.item = rq[r].item /\ x.last = rq[r].last
          /\ x.pc = "show" /\ x.pos = rq[r].pos + 1
      BY <3>1, CountedIs
    <3>4. rq' = [rq EXCEPT ![r] = x]
      BY <2>1
    <3> QED BY <3>1, <3>2, <3>3, <3>4
  <2>3. /\ pr \in [Entry -> Nat] /\ progress' = [progress EXCEPT ![d] = pr]
        /\ pr[i] = progress[d][i] + 1 /\ progress[d][i] \in Nat
    BY <1>1, <1>2, <2>1
  <2>4. s \in SUBSET Nat /\ sent' = [sent EXCEPT ![d][i] = s]
    BY <1>1, <1>2, <2>1, <2>2
  <2>5. 0 .. rq[r].pos - 1 \subseteq sent[d][i] /\ (Full(d, i) \/ progress[d][i] <= rq[r].pos)
    BY <1>r, <2>1 DEF Sending
  <2>6. PICK g \in 0 .. Size: s = 0 .. g - 1 /\ (g = Size \/ pr[i] <= g) /\ (Full(d, i) => g = Size) /\ rq[r].pos < g
    <3>1. rq[r].pos <= h
      BY <1>1, <1>d, <2>2, <2>5
    <3>2. CASE rq[r].pos = h
      <4>1. s = 0 .. h /\ h + 1 \in 0 .. Size
        BY <1>1, <1>d, <2>2, <3>2
      <4>2. ~Full(d, i)
        <5>1. h \notin sent[d][i] /\ h \in 0 .. Size - 1
          BY <1>1, <1>d, <2>2, <3>2
        <5> QED BY <5>1 DEF Full
      <4> QED BY <1>1, <1>d, <2>2, <2>3, <2>5, <3>2, <4>1, <4>2
    <3>3. CASE rq[r].pos < h
      <4>1. s = 0 .. h - 1
        BY <1>1, <1>d, <2>2, <3>3
      <4>2. Full(d, i) => h = Size
        <5>1. SUFFICES ASSUME Full(d, i), h < Size PROVE FALSE
          BY <1>1
        <5>2. h \in sent[d][i] /\ h \notin sent[d][i]
          BY <1>1, <1>d, <5>1 DEF Full
        <5> QED BY <5>2
      <4>3. h = Size \/ pr[i] <= h
        BY <1>1, <1>d, <2>2, <2>3, <2>5, <3>3, <4>2
      <4> QED BY <3>3, <4>1, <4>2, <4>3
    <3> QED BY <1>d, <2>2, <3>1, <3>2, <3>3
  <2> HIDE DEF x, pr, s
  <2>7. x.pos <= Size /\ 0 .. x.pos - 1 \subseteq s /\ (s = 0 .. Size - 1 \/ pr[i] <= x.pos)
    <3>1. x.pos <= Size
      BY <1>1, <2>2
    <3>2. 0 .. x.pos - 1 \subseteq 0 .. g - 1
      BY <1>1, <2>2, <2>6
    <3>3. s = 0 .. Size - 1 \/ pr[i] <= x.pos
      <4>1. CASE Full(d, i)
        BY <2>6, <4>1
      <4>2. CASE progress[d][i] <= rq[r].pos
        <5>1. pr[i] = progress[d][i] + 1 /\ x.pos = rq[r].pos + 1 /\ progress[d][i] \in Nat /\ rq[r].pos \in Nat
          BY <2>2, <2>3
        <5> QED BY <4>2, <5>1
      <4> QED BY <2>5, <4>1, <4>2
    <3> QED BY <2>6, <3>1, <3>2, <3>3
  <2>8. client' = [client EXCEPT ![d] = client[d]] /\ conns' = [conns EXCEPT ![d] = 1]
    BY <1>2, <1>f, <2>1 DEF Holding
  <2>9. client[d] = "completed" => s = 0 .. Size - 1
    BY <1>f, <2>6
  <2>10. x.pc \in Sending /\ x.pc \in Holding /\ x.pc \notin Early
    BY <2>2 DEF Sending, Holding, Early
  <2>11. \E g1 \in 0 .. Size: s = 0 .. g1 - 1 /\ (g1 = Size \/ pr[i] <= g1)
    BY <2>6
  <2> QED BY <1>2, <1>a, <1>n, <2>1, <2>2, <2>3, <2>4, <2>7, <2>8, <2>9, <2>10, <2>11
<1>7. CASE Show(r)
  <2>1. /\ rq[r].pc = "show" /\ UNCHANGED <<setup, conns, sent, progress>>
        /\ client' = [client EXCEPT ![d] = "transferring"] /\ rq' = [rq EXCEPT ![r].pc = "stream"]
    BY <1>7, <1>p DEF Show, SetClient
  <2> DEFINE x == [rq[r] EXCEPT !.pc = "stream"]
  <2>2. /\ x \in ReqType /\ x.dev = d /\ x.item = i /\ x.last = Size - 1 /\ x.pc = "stream" /\ rq' = [rq EXCEPT ![r] = x]
        /\ x.pos = rq[r].pos
    BY <1>1, <1>2, <1>p, <2>1 DEF ReqType, ReqPC, Holding
  <2> HIDE DEF x
  <2> QED BY <1>b, <1>r, <2>1, <2>2 DEF Early, Holding, Sending
<1>8. CASE EndStream(r)
  <2>1. rq[r].pc = "stream" /\ UNCHANGED <<setup, conns, sent, progress, client>>
    BY <1>8 DEF EndStream, serverVars
  <2>2. PICK o \in Outcome:
          /\ o # "err" => rq[r].pos > rq[r].last
          /\ o = "full" <=> (o # "err" /\ rq[r].last = Size - 1)
          /\ rq' = [rq EXCEPT ![r].end = o, ![r].pc = IF o = "full" THEN "mark" ELSE "settle"]
    BY <1>8, <1>1, <1>p DEF EndStream
  <2> DEFINE x == [rq[r] EXCEPT !.end = o, !.pc = IF o = "full" THEN "mark" ELSE "settle"]
  <2>3. /\ x \in ReqType /\ x.dev = d /\ x.item = i /\ x.last = Size - 1 /\ rq' = [rq EXCEPT ![r] = x]
        /\ x.pc = (IF o = "full" THEN "mark" ELSE "settle") /\ x.end = o
    BY <1>1, <1>2, <1>p, <2>2 DEF ReqType, ReqPC, Holding
  <2>4. o \in {"err", "full"}
    BY <1>1, <2>2 DEF Outcome
  <2>5. o = "full" => Full(d, i)
    <3> SUFFICES ASSUME o = "full" PROVE Full(d, i)
      OBVIOUS
    <3>1. rq[r].pos \in Nat /\ rq[r].pos >= Size /\ 0 .. rq[r].pos - 1 \subseteq sent[d][i]
      BY <1>1, <1>r, <2>1, <2>2 DEF ReqType, Sending
    <3>2. Size - 1 \in sent[d][i]
      BY <1>1, <3>1
    <3>3. h = Size
      BY <1>1, <1>d, <3>2
    <3> QED BY <1>d, <3>3 DEF Full
  <2> HIDE DEF x
  <2> QED BY <1>2, <1>b, <1>c, <1>f, <2>1, <2>3, <2>4, <2>5 DEF Early, Holding, Sending
<1>9. CASE Settle(r)
  <2>1. rq[r].pc = "settle" /\ UNCHANGED <<setup, conns, sent, progress>> /\ rq[r].end = "err" /\ conns[d] = 1
    BY <1>9, <1>f, <1>r DEF Settle, Holding
  <2>2. /\ conns[d] - 1 > 0 \/ client[d] = "failed" <=> client[d] = "failed"
        /\ isClientFinished(d) => Full(d, i)
    BY <1>1, <1>p, <2>1, FinishedIsSent
  <2>3. PICK pc \in {"mark", "leave", "quiet"}, c \in {"waiting", "failed", "completed"}:
          /\ rq' = [rq EXCEPT ![r].pc = pc] /\ client' = [client EXCEPT ![d] = c]
          /\ pc = "mark" \/ c = "completed" => Full(d, i)
    <3>1. CASE isClientFinished(d)
      BY <1>9, <1>p, <2>1, <2>2, <3>1 DEF Settle, SetClient
    <3>2. CASE ~isClientFinished(d) /\ client[d] = "failed"
      BY <1>9, <1>p, <1>c, <2>1, <2>2, <3>2 DEF Settle
    <3>3. CASE ~isClientFinished(d) /\ client[d] # "failed"
      BY <1>9, <1>p, <2>1, <2>2, <3>3 DEF Settle, SetClient
    <3> QED BY <3>1, <3>2, <3>3
  <2> DEFINE x == [rq[r] EXCEPT !.pc = pc]
  <2>4. x \in ReqType /\ x.dev = d /\ x.item = i /\ x.last = Size - 1 /\ x.pc = pc /\ rq' = [rq EXCEPT ![r] = x]
    BY <1>1, <1>2, <1>p, <2>3 DEF ReqType, ReqPC, Holding
  <2> HIDE DEF x
  <2> QED BY <1>b, <2>1, <2>3, <2>4 DEF Early, Holding, Sending
<1>10. CASE Quiet(r) \/ Mark(r)
  <2>1. /\ rq[r].pc \in {"quiet", "mark"} /\ UNCHANGED <<setup, conns, sent, progress, client>>
    BY <1>10 DEF Quiet, Mark, serverVars, deviceVars
  <2>2. PICK x \in ReqType: /\ x.dev = d /\ x.item = i /\ x.last = Size - 1 /\ x.pc \in {"leave", "decide"}
                            /\ rq' = [rq EXCEPT ![r] = x] /\ (x.pc = "decide" => rq[r].pc = "mark")
    <3>1. CASE Quiet(r)
      <4>1. rq' = [rq EXCEPT ![r] = [rq[r] EXCEPT !.pc = "leave"]]
        BY <3>1 DEF Quiet
      <4>2. [rq[r] EXCEPT !.pc = "leave"] \in ReqType
        BY <1>1 DEF ReqType, ReqPC, Holding
      <4> QED BY <1>1, <1>p, <4>1, <4>2 DEF ReqType
    <3>2. CASE Mark(r)
      <4>1. PICK all \in BOOLEAN: rq' = [rq EXCEPT ![r] = [rq[r] EXCEPT !.pc = "decide", !.all = all]]
        BY <1>2, <3>2 DEF Mark, AllFinished
      <4>2. [rq[r] EXCEPT !.pc = "decide", !.all = all] \in ReqType
        BY <1>1 DEF ReqType, ReqPC, Holding
      <4> QED BY <1>1, <1>p, <3>2, <4>1, <4>2 DEF ReqType, Mark
    <3> QED BY <1>10, <3>1, <3>2
  <2>3. rq[r].pc = "mark" => Full(d, i)
    BY <1>r
  <2> QED BY <1>2, <1>b, <1>c, <1>f, <2>1, <2>2, <2>3 DEF Early, Holding, Sending
<1>11. CASE Decide(r)
  <2>1. /\ rq[r].pc = "decide" /\ UNCHANGED <<setup, conns, sent, progress>> /\ rq' = [rq EXCEPT ![r].pc = "leave"]
        /\ client' = [client EXCEPT ![d] = "completed"] \/ UNCHANGED client
    BY <1>11, <1>p DEF Decide, SetClient
  <2>2. Full(d, i)
    BY <1>r, <2>1
  <2> DEFINE x == [rq[r] EXCEPT !.pc = "leave"]
  <2>3. x \in ReqType /\ x.dev = d /\ x.item = i /\ x.last = Size - 1 /\ x.pc = "leave" /\ rq' = [rq EXCEPT ![r] = x]
    BY <1>1, <1>2, <1>p, <2>1 DEF ReqType, ReqPC, Holding
  <2> HIDE DEF x
  <2> QED BY <1>2, <1>b, <1>c, <2>1, <2>2, <2>3 DEF Early, Holding, Sending
<1>12. CASE Leave(r)
  <2>1. /\ rq[r].pc = "leave" /\ UNCHANGED <<setup, sent, progress, client>>
        /\ conns' = [conns EXCEPT ![d] = IF @ > 0 THEN @ - 1 ELSE 0]
        /\ rq' = [rq EXCEPT ![r] = [Fresh EXCEPT !.pc = "done"]]
    BY <1>12, <1>p DEF Leave
  <2>a. conns[d] = 1
    BY <1>f, <2>1 DEF Holding
  <2>3. conns' = [conns EXCEPT ![d] = 0]
    BY <2>1, <2>a
  <2> QED BY <1>e, <2>1, <2>3
<1> QED BY <1>4, <1>5, <1>6, <1>7, <1>8, <1>9, <1>10, <1>11, <1>12 DEF HandlerStep

(***************************************************************************)
(* A request of a device whose requests have overlapped.                   *)
(***************************************************************************)
ClientState == {"waiting", "transferring", "completed", "failed", "stopped"}

LEMMA HandlerStray ==
  ASSUME Single, SentInv, NEW r \in Req, HandlerStep(r), rq[r].dev \in overlapped
  PROVE  SentInv'
<1>0. rq[r].pc \in Early \cup Holding
  BY DEF HandlerStep, Look, Prepare, Count, Show, EndStream, Settle, Quiet, Mark, Decide, Leave, Early, Holding
<1>u. UNCHANGED <<setup, overlapped>>
  BY DEF HandlerStep, Look, Prepare, Count, Show, EndStream, Settle, Quiet, Mark, Decide, Leave, serverVars
<1>1. SentType /\ RequestTyped(r)
  BY DEF SentInv
<1>2. /\ rq \in [Req -> ReqType] /\ sent \in [Device -> [Entry -> SUBSET Nat]] /\ rq[r] \in ReqType
      /\ progress \in [Device -> [Entry -> Nat]] /\ conns \in [Device -> Nat] /\ client \in [Device -> ClientState]
      /\ setup \in Setups /\ overlapped \subseteq Device
  BY <1>1 DEF SentType, ClientState
<1>p. PICK d \in Device, i \in Paths: rq[r].dev = d /\ rq[r].item = i /\ rq[r].last = Size - 1 /\ d \in overlapped
  BY <1>0, <1>1 DEF RequestTyped
<1>3. i \in Entry /\ rq[r].pos \in Nat /\ rq[r].start \in Nat
  BY <1>2 DEF Entry, ReqType
<1>a. ASSUME NEW x \in ReqType, rq' = [rq EXCEPT ![r] = x],
             \/ x.dev = None /\ x.pc = "done"
             \/ x.dev = d /\ x.item = i /\ x.last = Size - 1 /\ x.pc \in Early \cup Holding,
             NEW c \in ClientState, client' = [client EXCEPT ![d] = c],
             NEW k \in Nat, conns' = [conns EXCEPT ![d] = k],
             NEW s \in [Entry -> SUBSET Nat], sent' = [sent EXCEPT ![d] = s],
             NEW pr \in [Entry -> Nat], progress' = [progress EXCEPT ![d] = pr]
      PROVE  SentInv'
  <2>0. Req' = Req /\ Paths' = Paths /\ Size' = Size /\ Entry' = Entry /\ ReqType' = ReqType
    BY <1>u DEF Req, Paths, Size, Entry, ReqType
  <2>1. /\ rq'[r] = x /\ \A q \in Req \ {r}: rq'[q] = rq[q]
        /\ \A e \in Device \ {d}: client'[e] = client[e] /\ conns'[e] = conns[e] /\ sent'[e] = sent[e]
                                  /\ progress'[e] = progress[e]
    BY <1>2, <1>a
  <2>2. SentType'
    <3>1. rq' \in [Req -> ReqType] /\ client' \in [Device -> ClientState] /\ conns' \in [Device -> Nat]
      BY <1>2, <1>a
    <3>2. progress' \in [Device -> [Entry -> Nat]] /\ sent' \in [Device -> [Entry -> SUBSET Nat]]
      BY <1>2, <1>a
    <3> QED BY <1>2, <1>u, <2>0, <3>1, <3>2 DEF SentType, ClientState
  <2>3. RequestTyped(r)'
    BY <1>a, <2>0, <2>1 DEF RequestTyped, Early, Holding
  <2> QED BY <1>1, <1>a, <1>p, <1>u, <2>1, <2>2, <2>3, OneRequest
<1>s. /\ client' = client => client' = [client EXCEPT ![d] = client[d]] /\ client[d] \in ClientState
      /\ conns' = conns => conns' = [conns EXCEPT ![d] = conns[d]] /\ conns[d] \in Nat
      /\ sent' = sent => sent' = [sent EXCEPT ![d] = sent[d]] /\ sent[d] \in [Entry -> SUBSET Nat]
      /\ progress' = progress => progress' = [progress EXCEPT ![d] = progress[d]] /\ progress[d] \in [Entry -> Nat]
  BY <1>2
\* only the request and the state of its device change
<1>b. ASSUME UNCHANGED <<conns, sent, progress>>, NEW x \in ReqType, rq' = [rq EXCEPT ![r] = x],
             \/ x.dev = None /\ x.pc = "done"
             \/ x.dev = d /\ x.item = i /\ x.last = Size - 1 /\ x.pc \in Early \cup Holding,
             client' = client \/ \E c \in ClientState: client' = [client EXCEPT ![d] = c]
      PROVE  SentInv'
  <2>1. PICK c \in ClientState: client' = [client EXCEPT ![d] = c]
    BY <1>b, <1>s
  <2> QED BY <1>a, <1>b, <1>s, <2>1
<1>4. CASE Look(r)
  <2>1. UNCHANGED <<conns, sent, progress, client>>
    BY <1>4 DEF Look, deviceVars
  <2>2. CASE rq' = [rq EXCEPT ![r] = [Fresh EXCEPT !.pc = "done"]]
    <3>1. [Fresh EXCEPT !.pc = "done"] \in ReqType /\ [Fresh EXCEPT !.pc = "done"].dev = None
          /\ [Fresh EXCEPT !.pc = "done"].pc = "done"
      BY DEF Fresh, ReqType, ReqPC, Entry, Outcome
    <3> QED BY <1>b, <2>1, <2>2, <3>1
  <2>3. CASE rq' = [rq EXCEPT ![r].pc = "prepare", ![r].already = client[d] = "transferring"]
    <3> DEFINE x == [rq[r] EXCEPT !.pc = "prepare", !.already = client[d] = "transferring"]
    <3>1. x \in ReqType /\ x.dev = d /\ x.item = i /\ x.last = Size - 1 /\ x.pc = "prepare" /\ rq' = [rq EXCEPT ![r] = x]
      BY <1>2, <1>p, <2>3 DEF ReqType, ReqPC, Early
    <3> HIDE DEF x
    <3> QED BY <1>b, <2>1, <3>1 DEF Early
  <2> QED BY <1>4, <1>p, <2>2, <2>3 DEF Look
<1>5. CASE Prepare(r)
  <2>1. /\ UNCHANGED sent /\ rq' = [rq EXCEPT ![r].pc = "stream"]
        /\ conns' = [conns EXCEPT ![d] = @ + 1] /\ client' = [client EXCEPT ![d] = "transferring"]
        /\ \/ progress' = progress
           \/ progress' = [progress EXCEPT ![d] = [j \in Entry |-> IF j = i THEN rq[r].start
                                                                  ELSE IF j = Zip THEN 0 ELSE progress[d][j]]]
    BY <1>5, <1>p DEF Prepare, SetClient, StartCount
  <2> DEFINE x == [rq[r] EXCEPT !.pc = "stream"]
  <2>2. x \in ReqType /\ x.dev = d /\ x.item = i /\ x.last = Size - 1 /\ x.pc = "stream" /\ rq' = [rq EXCEPT ![r] = x]
    BY <1>2, <1>p, <2>1 DEF ReqType, ReqPC, Holding
  <2>3. PICK pr \in [Entry -> Nat]: progress' = [progress EXCEPT ![d] = pr]
    <3>1. progress[d] \in [Entry -> Nat]
      BY <1>2
    <3>2. [j \in Entry |-> IF j = i THEN rq[r].start ELSE IF j = Zip THEN 0 ELSE progress[d][j]] \in [Entry -> Nat]
      BY <1>3, <3>1
    <3> QED BY <1>s, <2>1, <3>2
  <2>4. PICK k \in Nat: conns' = [conns EXCEPT ![d] = k]
    <3>1. conns' = [conns EXCEPT ![d] = conns[d] + 1] /\ conns[d] + 1 \in Nat
      BY <1>2, <2>1
    <3> QED BY <3>1
  <2>5. "transferring" \in ClientState
    BY DEF ClientState
  <2> HIDE DEF x
  <2> QED BY <1>a, <1>s, <2>1, <2>2, <2>3, <2>4, <2>5 DEF Holding
<1>6. CASE Count(r)
  <2>1. /\ UNCHANGED <<conns, client>> /\ progress' = [progress EXCEPT ![d][i] = @ + 1]
        /\ sent' = [sent EXCEPT ![d][i] = @ \cup {rq[r].pos}]
        /\ rq' = [rq EXCEPT ![r].pc = "show", ![r].pos = @ + 1]
    BY <1>6, <1>p DEF Count
  <2> DEFINE x == [rq[r] EXCEPT !.pc = "show", !.pos = @ + 1]
             pr == [progress[d] EXCEPT ![i] = @ + 1]
             s == [sent[d] EXCEPT ![i] = @ \cup {rq[r].pos}]
  <2>2. x \in ReqType /\ x.dev = d /\ x.item = i /\ x.last = Size - 1 /\ x.pc = "show" /\ rq' = [rq EXCEPT ![r] = x]
    BY <1>2, <1>3, <1>p, <2>1 DEF ReqType, ReqPC, Holding
  <2>3. pr \in [Entry -> Nat] /\ progress' = [progress EXCEPT ![d] = pr]
    BY <1>2, <1>3, <2>1
  <2>4. s \in [Entry -> SUBSET Nat] /\ sent' = [sent EXCEPT ![d] = s]
    BY <1>2, <1>3, <2>1
  <2> HIDE DEF x, pr, s
  <2> QED BY <1>a, <1>s, <2>1, <2>2, <2>3, <2>4 DEF Holding
<1>7. CASE EndStream(r)
  <2>1. PICK o \in Outcome: rq' = [rq EXCEPT ![r].end = o, ![r].pc = IF o = "full" THEN "mark" ELSE "settle"]
    BY <1>7 DEF EndStream
  <2> DEFINE x == [rq[r] EXCEPT !.end = o, !.pc = IF o = "full" THEN "mark" ELSE "settle"]
  <2>2. /\ x \in ReqType /\ x.dev = d /\ x.item = i /\ x.last = Size - 1 /\ rq' = [rq EXCEPT ![r] = x]
        /\ x.pc \in {"mark", "settle"}
    BY <1>2, <1>p, <2>1 DEF ReqType, ReqPC, Holding
  <2> HIDE DEF x
  <2> QED BY <1>7, <1>b, <2>2 DEF EndStream, serverVars, Holding
<1>8. CASE Mark(r)
  <2>1. PICK all \in BOOLEAN: rq' = [rq EXCEPT ![r] = [rq[r] EXCEPT !.pc = "decide", !.all = all]]
    BY <1>2, <1>8 DEF Mark, AllFinished
  <2> DEFINE x == [rq[r] EXCEPT !.pc = "decide", !.all = all]
  <2>2. x \in ReqType /\ x.dev = d /\ x.item = i /\ x.last = Size - 1 /\ rq' = [rq EXCEPT ![r] = x] /\ x.pc = "decide"
    BY <1>2, <1>p, <2>1 DEF ReqType, ReqPC, Holding
  <2> HIDE DEF x
  <2> QED BY <1>8, <1>b, <2>2 DEF Mark, serverVars, Holding
<1>9. CASE Show(r) \/ Settle(r) \/ Quiet(r) \/ Decide(r)
  <2>1. PICK pc \in {"stream", "mark", "leave", "quiet"}: rq' = [rq EXCEPT ![r].pc = pc]
    BY <1>9 DEF Show, Settle, Quiet, Decide
  <2> DEFINE x == [rq[r] EXCEPT !.pc = pc]
  <2>2. x \in ReqType /\ x.dev = d /\ x.item = i /\ x.last = Size - 1 /\ rq' = [rq EXCEPT ![r] = x]
        /\ x.pc \in Early \cup Holding
    BY <1>2, <1>p, <2>1 DEF ReqType, ReqPC, Holding
  <2>3. UNCHANGED <<conns, sent, progress>>
    BY <1>9 DEF Show, Settle, Quiet, Decide, deviceVars
  <2>4. client' = client \/ \E c \in ClientState: client' = [client EXCEPT ![d] = c]
    BY <1>9, <1>p DEF Show, Settle, Quiet, Decide, deviceVars, SetClient, ClientState
  <2> HIDE DEF x
  <2> QED BY <1>b, <2>2, <2>3, <2>4
<1>10. CASE Leave(r)
  <2>1. /\ UNCHANGED <<sent, progress, client>> /\ rq' = [rq EXCEPT ![r] = [Fresh EXCEPT !.pc = "done"]]
        /\ conns' = [conns EXCEPT ![d] = IF conns[d] > 0 THEN conns[d] - 1 ELSE 0]
    BY <1>10, <1>p DEF Leave
  <2>2. [Fresh EXCEPT !.pc = "done"] \in ReqType /\ [Fresh EXCEPT !.pc = "done"].dev = None
        /\ [Fresh EXCEPT !.pc = "done"].pc = "done"
    BY DEF Fresh, ReqType, ReqPC, Entry, Outcome
  <2>3. PICK k \in Nat: conns' = [conns EXCEPT ![d] = k]
    <3>1. (IF conns[d] > 0 THEN conns[d] - 1 ELSE 0) \in Nat
      BY <1>2
    <3> QED BY <2>1, <3>1
  <2> QED BY <1>a, <1>s, <2>1, <2>2, <2>3
<1> QED BY <1>4, <1>5, <1>6, <1>7, <1>8, <1>9, <1>10 DEF HandlerStep

(***************************************************************************)
(* A request that comes in: when its device has no other one, it starts    *)
(* where the device stands or from the beginning.                          *)
(***************************************************************************)
LEMMA BeginSent ==
  ASSUME Single, SentInv, NEW r \in Req, NEW d \in Device, NEW i \in Entry, NEW from, NEW last,
         from \in Nat, Begin(r, d, i, from, last)
  PROVE  SentInv'
<1>1. /\ SentType /\ RequestTyped(r)
  BY DEF SentInv
<1>2. /\ rq \in [Req -> ReqType] /\ sent \in [Device -> [Entry -> SUBSET Nat]]
      /\ progress \in [Device -> [Entry -> Nat]] /\ conns \in [Device -> Nat]
      /\ client \in [Device -> {"waiting", "transferring", "completed", "failed", "stopped"}]
      /\ setup \in Setups /\ overlapped \subseteq Device
  BY <1>1 DEF SentType
<1>3. /\ UNCHANGED <<setup, client, conns, progress, sent>>
      /\ rq[r].pc = "idle"
      /\ rq' = [rq EXCEPT ![r] = [Fresh EXCEPT !.dev = d, !.item = i, !.start = from,
                                               !.pos = from, !.last = last, !.pc = "look"]]
      /\ i # Zip /\ last = SizeOf(i) - 1 /\ from \in {0, Held(d, i)} /\ from <= last
      /\ overlapped' = IF InFlight(d) = {} THEN overlapped ELSE overlapped \cup {d}
  BY DEF Begin, deviceVars, Single
<1>4. i \in Paths /\ SizeOf(i) = Size /\ Size \in Nat \ {0} /\ last = Size - 1 /\ from < Size
  <2>1. i \in Paths /\ SizeOf(i) = Size /\ Size \in Nat \ {0}
    BY <1>2, <1>3, SetupFacts DEF Entry, SizeOf
  <2> QED BY <1>3, <2>1
<1>5. rq[r].dev = None
  BY <1>1, <1>3 DEF RequestTyped
<1>6. d \notin overlapped' => d \notin overlapped /\ \A q \in Req: rq[q].dev # d
  BY <1>3 DEF InFlight
<1> DEFINE x == [Fresh EXCEPT !.dev = d, !.item = i, !.start = from, !.pos = from, !.last = last, !.pc = "look"]
<1>7. /\ x \in ReqType /\ rq' = [rq EXCEPT ![r] = x]
      /\ x.dev = d /\ x.item = i /\ x.start = from /\ x.pos = from /\ x.last = last /\ x.pc = "look"
  <2>1. Fresh \in ReqType
    BY DEF Fresh, ReqType, ReqPC, Entry, Outcome
  <2>2. last \in Nat /\ "look" \in ReqPC
    BY <1>4 DEF ReqPC, Early
  <2> QED BY <1>3, <2>1, <2>2 DEF ReqType
<1> HIDE DEF x
<1>8. Req' = Req /\ Paths' = Paths /\ Size' = Size /\ Entry' = Entry /\ ReqType' = ReqType
  BY <1>3 DEF Req, Paths, Size, Entry, ReqType
<1>9. rq'[r] = x /\ \A q \in Req \ {r}: rq'[q] = rq[q]
  BY <1>2, <1>7
<1>10. SentType'
  <2>1. rq' \in [Req -> ReqType] /\ overlapped' \subseteq Device
    BY <1>2, <1>3, <1>7
  <2> QED BY <1>2, <1>3, <1>8, <2>1 DEF SentType
<1>t. RequestTyped(r)'
  BY <1>3, <1>4, <1>7, <1>8, <1>9 DEF RequestTyped
<1>11. ASSUME d \notin overlapped' PROVE RequestSound(r)' /\ DeviceSound(d)'
  <2>d. DeviceSound(d) /\ \A q \in Req: rq[q].dev # d
    BY <1>6, <1>11 DEF SentInv
  <2>1. 0 .. from - 1 \subseteq sent[d][i]
    <3>1. PICK h \in 0 .. Size: sent[d][i] = 0 .. h - 1
      BY <2>d, <1>4 DEF DeviceSound
    <3>2. Cardinality(0 .. h - 1) = h
      BY <3>1, <1>4, FS_Interval
    <3>3. from = 0 \/ from = h
      BY <1>3, <3>1, <3>2 DEF Held
    <3> QED BY <1>4, <3>1, <3>3
  <2>2. RequestSound(r)'
    BY <1>3, <1>4, <1>7, <1>8, <1>9, <2>1 DEF RequestSound, Early, Holding, Sending
  <2>3. Holds(d)' <=> Holds(d)
    BY <1>3, <1>7, <1>8, <1>9, <2>d DEF Holds, Holding
  <2> QED BY <1>3, <1>8, <2>d, <2>2, <2>3 DEF DeviceSound, Full
<1> QED BY <1>1, <1>3, <1>5, <1>6, <1>7, <1>9, <1>10, <1>t, <1>11, OneRequest

(***************************************************************************)
(* The other steps: pages, the host, the stop token.                       *)
(***************************************************************************)
LEMMA OtherSent ==
  ASSUME Single, SentInv, UNCHANGED <<setup, rq, sent, conns, overlapped>>,
         \/ UNCHANGED <<client, progress>>
         \/ \E d \in Device: GetPage(d) \/ StopByUser(d) \/ StopClientTransfer(d)
  PROVE  SentInv'
<1>1. /\ SentType /\ setup \in Setups /\ progress \in [Device -> [Entry -> Nat]]
      /\ client \in [Device -> {"waiting", "transferring", "completed", "failed", "stopped"}]
      /\ overlapped \subseteq Device
  BY DEF SentInv, SentType
<1>2. ASSUME progress' \in [Device -> [Entry -> Nat]],
             client' \in [Device -> {"waiting", "transferring", "completed", "failed", "stopped"}]
      PROVE  SentType'
  <2>1. Req' = Req /\ Entry' = Entry
    BY DEF Req, Entry, Paths
  <2>2. ReqType' = ReqType
    BY <2>1 DEF ReqType
  <2> QED BY <1>1, <1>2, <2>1, <2>2 DEF SentType
<1>3. CASE UNCHANGED <<client, progress>>
  BY <1>1, <1>2, <1>3, NoRequest
<1>4. ASSUME NEW d \in Device, StopByUser(d) \/ StopClientTransfer(d) PROVE SentInv'
  <2>1. PICK c \in {"failed", "stopped"}: client' = [client EXCEPT ![d] = c] /\ UNCHANGED progress
    BY <1>4 DEF StopByUser, StopClientTransfer, SetClient
  <2> QED BY <1>1, <1>2, <2>1, NoRequest
<1>5. ASSUME NEW d \in Device, GetPage(d) PROVE SentInv'
  <2>1. /\ UNCHANGED client
        /\ progress' = [progress EXCEPT ![d] = [i \in Entry |-> IF i = Zip THEN progress[d][Zip] ELSE 0]]
    BY <1>5 DEF GetPage
  <2>2. [i \in Entry |-> IF i = Zip THEN progress[d][Zip] ELSE 0] \in [Entry -> Nat]
    <3>1. Zip \in Entry /\ progress[d] \in [Entry -> Nat]
      BY <1>1 DEF Entry
    <3> QED BY <3>1
  <2>3. progress' \in [Device -> [Entry -> Nat]]
    BY <1>1, <2>1, <2>2
  <2>4. \A i \in Paths: i \in Entry /\ i # Zip
    BY <1>1, SetupFacts DEF Entry, Zip
  <2>5. \A e \in Device: \A i \in Paths: progress'[e][i] = progress[e][i] \/ progress'[e][i] = 0
    BY <1>1, <2>1, <2>2, <2>4
  <2> QED BY <1>1, <1>2, <2>1, <2>3, <2>5, NoRequest
<1> QED BY <1>3, <1>4, <1>5

LEMMA SendSent == ASSUME Single, SentInv, SendStep PROVE SentInv'
<1>1. ASSUME NEW d \in Device,
             GetPage(d) \/ StopByUser(d) \/ RejectLarge(d) \/ (registerClientActivity(d, 2) /\ UNCHANGED sendVars)
      PROVE  SentInv'
  <2>1. UNCHANGED <<setup, rq, sent, conns, overlapped>>
    BY <1>1 DEF GetPage, StopByUser, RejectLarge, registerClientActivity, deviceVars, sendVars
  <2>2. CASE RejectLarge(d) \/ registerClientActivity(d, 2)
    BY <2>1, <2>2, OtherSent DEF RejectLarge, registerClientActivity, deviceVars
  <2> QED BY <1>1, <2>1, <2>2, OtherSent
<1>2. ASSUME NEW r \in Req, NEW d \in Device, NEW i \in Entry, NEW from \in 0 .. SizeOf(i) - 1,
             NEW last \in 0 .. SizeOf(i) - 1, Begin(r, d, i, from, last)
      PROVE  SentInv'
  BY <1>2, BeginSent
<1>3. ASSUME ServerStep, UNCHANGED sendVars PROVE SentInv'
  <2>1. UNCHANGED <<setup, rq, sent, conns, overlapped>>
    BY <1>3 DEF ServerStep, StopStep, GraceAsk, GraceEnds, Wait, TakeToken, Tick, HostStops, SetAutoStop, GoStale,
                ServeBreaks, StopClientTransfer, deviceVars, sendVars
  <2>2. ASSUME ~\E d \in Device: StopClientTransfer(d) PROVE UNCHANGED <<client, progress>>
    BY <1>3, <2>2 DEF ServerStep, StopStep, GraceAsk, GraceEnds, Wait, TakeToken, Tick, HostStops, SetAutoStop, GoStale,
                      ServeBreaks, deviceVars
  <2> QED BY <2>1, <2>2, OtherSent
<1> QED BY <1>1, <1>2, <1>3, HandlerSent, HandlerStray DEF SendStep

(***************************************************************************)
(* The configuration is chosen once, and a server that sends never takes a *)
(* step of the other route.                                                *)
(***************************************************************************)
LEMMA SetupStays == [Next]_vars => UNCHANGED setup
<1>1. ServerStep => UNCHANGED setup
  BY DEF ServerStep, StopStep, GraceAsk, GraceEnds, Wait, TakeToken, Tick, HostStops, SetAutoStop, GoStale,
         ServeBreaks, StopClientTransfer
<1>2. SendStep => UNCHANGED setup
  <2>1. ASSUME NEW r \in Req, HandlerStep(r) PROVE UNCHANGED setup
    BY <2>1 DEF HandlerStep, Look, Prepare, Count, Show, EndStream, Settle, Quiet, Mark, Decide, Leave, serverVars
  <2>2. ASSUME NEW d \in Device, GetPage(d) \/ StopByUser(d) \/ RejectLarge(d) \/ registerClientActivity(d, 2)
        PROVE  UNCHANGED setup
    BY <2>2 DEF GetPage, StopByUser, RejectLarge, registerClientActivity
  <2>3. ASSUME NEW r, NEW d, NEW i, NEW from, NEW last, Begin(r, d, i, from, last) PROVE UNCHANGED setup
    BY <2>3 DEF Begin
  <2> QED BY <1>1, <2>1, <2>2, <2>3 DEF SendStep
<1>3. ReceiveStep => UNCHANGED setup
  <2>1. Running => UNCHANGED setup
    BY DEF Running, ProgressEvent, ProgressShow, Save, Tell, LookAgain, DecideArrival, DecideDone, FormFile, FormFinish,
           serverVars
  <2>2. ASSUME NEW d \in Device, PageRequest(d) PROVE UNCHANGED setup
    BY <2>2 DEF PageRequest, OpenPage, InitBatch, SkipInit, Patch, HandOver, PostDone, StopUpload, RefuseUpload,
                PostForm, FormChunk, FormTooLarge, PageBreaks, serverVars
  <2> QED BY <1>1, <2>1, <2>2 DEF ReceiveStep, registerClientActivity
<1> QED BY <1>2, <1>3 DEF Next, vars, serverVars

LEMMA ReceiveReceives == ReceiveStep => setup.mode = "receive"
<1>1. Running => setup.mode = "receive"
  BY DEF Running, ProgressEvent, ProgressShow, Save, Tell, LookAgain, DecideArrival, DecideDone, FormFile, FormFinish,
         Receiving
<1>2. ASSUME NEW d \in Device, PageRequest(d) PROVE setup.mode = "receive"
  BY <1>2 DEF PageRequest, OpenPage, InitBatch, SkipInit, Patch, HandOver, PostDone, StopUpload, RefuseUpload,
              PostForm, FormChunk, FormTooLarge, PageBreaks, Receiving
<1> QED BY <1>1, <1>2 DEF ReceiveStep, Receiving

LEMMA SentInitially == Init => SentInv
<1> SUFFICES ASSUME Init, Single PROVE SentInv
  BY DEF SentInv
<1>1. /\ setup \in Setups /\ rq = [r \in Req |-> Fresh]
      /\ sent = [d \in Device |-> [i \in Entry |-> {}]] /\ progress = [d \in Device |-> [i \in Entry |-> 0]]
      /\ conns = [d \in Device |-> 0] /\ client = [d \in Device |-> "waiting"] /\ overlapped = {}
  BY DEF Init, ServerInit, SendInit, Req, Entry, Paths
<1>2. Fresh \in ReqType /\ Fresh.pc = "idle" /\ Fresh.dev = None
  BY DEF Fresh, ReqType, ReqPC, Entry, Outcome
<1>3. SentType
  BY <1>1, <1>2 DEF SentType
<1>4. \A r \in Req: RequestTyped(r) /\ RequestSound(r) /\ rq[r].dev = None
  BY <1>1, <1>2 DEF RequestTyped, RequestSound, Early, Holding, Sending
<1>5. ASSUME NEW d \in Device PROVE DeviceSound(d)
  <2>1. ~Holds(d)
    BY <1>4, NoneAssumption DEF Holds
  <2>2. Size \in Nat
    BY <1>1, SetupFacts
  <2>3. \A i \in Paths: sent[d][i] = {} /\ progress[d][i] = 0
    BY <1>1 DEF Entry
  <2>4. 0 .. 0 - 1 = {} /\ 0 \in 0 .. Size
    BY <2>2
  <2>5. conns[d] = 0 /\ client[d] = "waiting"
    BY <1>1
  <2>6. ASSUME NEW i \in Paths
        PROVE  \E h \in 0 .. Size: sent[d][i] = 0 .. h - 1 /\ (h = Size \/ progress[d][i] <= h)
    <3>1. sent[d][i] = 0 .. 0 - 1 /\ progress[d][i] <= 0
      BY <2>3, <2>4
    <3> QED BY <2>4, <3>1
  <2> QED BY <2>1, <2>5, <2>6 DEF DeviceSound
<1> QED BY <1>3, <1>4, <1>5 DEF SentInv

(***************************************************************************)
(* The invariant holds, whatever Setups and Device are, and however many   *)
(* requests come while others are served.                                  *)
(***************************************************************************)
THEOREM SentInvariant == Spec => []SentInv
<1>1. SentInv /\ [Next]_vars => SentInv'
  <2> SUFFICES ASSUME SentInv, [Next]_vars PROVE SentInv'
    OBVIOUS
  <2>1. UNCHANGED setup
    BY SetupStays
  <2>2. Single' <=> Single
    BY <2>1 DEF Single, IsMulti, Paths
  <2>3. CASE ~Single
    BY <2>2, <2>3 DEF SentInv
  <2>4. CASE Single
    <3>1. ~ReceiveStep
      BY <2>4, ReceiveReceives DEF Single
    <3>2. CASE UNCHANGED vars
      BY <2>4, <3>2, OtherSent DEF vars, serverVars, sendVars
    <3> QED BY <2>4, <3>1, <3>2, SendSent DEF Next
  <2> QED BY <2>3, <2>4
<1> QED BY <1>1, SentInitially, PTL DEF Spec

(***************************************************************************)
(* A device that is shown as completed has been sent every byte of the one *)
(* item that is offered, however its downloads broke off, were resumed or  *)
(* started anew, and for any number of devices, requests and bytes, unless *)
(* it asked again while a request of its own was being served.             *)
(***************************************************************************)
THEOREM CompletedAreSent == Spec => []CompletedMeansSent
<1>1. SentInv => CompletedMeansSent
  <2> SUFFICES ASSUME SentInv, Single, NEW d \in Device, client[d] = "completed", d \notin overlapped, NEW i \in Paths
               PROVE  sent[d][i] = 0 .. SizeOf(i) - 1
    BY DEF CompletedMeansSent, AllSent, Single
  <2>1. Full(d, i) /\ setup \in Setups
    BY DEF SentInv, DeviceSound, SentType
  <2>2. SizeOf(i) = Size
    BY <2>1, SetupFacts DEF SizeOf, Zip
  <2> QED BY <2>1, <2>2 DEF Full
<1> QED BY <1>1, SentInvariant, PTL

-----------------------------------------------------------------------------
(***************************************************************************)
(* What is known of a device that uploads.  The files that its page has    *)
(* handed over are saved, all but the one the completion goroutine works   *)
(* on, and nothing is listed beyond the batch the page is at.  So the file *)
(* that is told last finds all listed files saved, whatever was listed in  *)
(* between, and a page that is through has completed its device or will.   *)
(***************************************************************************)
Uploads == setup.mode = "receive" /\ ~setup.form /\ ~setup.lossy /\ "kick" \notin setup.host

PagePC == {"idle", "open", "send", "hand", "last", "decide", "gone"}

UploadType ==
  /\ setup \in Setups
  /\ page \in [Device -> [pc: PagePC, batch: Nat, cur: Nat]]
  /\ file \in [Device -> [File -> {"none", "waiting", "transferring", "completed"}]]
  /\ saved \in [Device -> SUBSET Nat] /\ declared \in [Device -> BOOLEAN]
  /\ client \in [Device -> {"waiting", "transferring", "completed", "failed", "stopped"}]
  /\ arrival \in [pc: {"idle", "save", "tell", "look", "decide"}, dev: Device \cup {Idle.dev}, n: Nat]
  /\ arrival.pc # "idle" => arrival.dev \in Device

Pending(d) == IF arrival.dev = d /\ arrival.pc \in {"save", "tell"} THEN {arrival.n} ELSE {}

PageSound(d) ==
  LET b == page[d].batch  c == page[d].cur IN
  /\ b <= Len(Batches)
  /\ \A n \in File: file[d][n] # "none" => n <= LastOf(b)
  /\ \A e \in news: e[1] = d => e[2] <= LastOf(b)
  /\ \A n \in Pending(d): n <= LastOf(b)
  /\ page[d].pc \in {"open", "send", "hand"} =>
       0 < b /\ c <= LastOf(b) /\ 1 .. c - 1 \subseteq saved[d] \cup Pending(d)
  /\ page[d].pc \in {"idle", "last", "decide"} =>
       /\ c = LastOf(b) /\ 1 .. c \subseteq saved[d] \cup Pending(d)
       /\ declared[d] /\ Pending(d) = {} => client[d] = "completed"

UploadInv == Uploads =>
  /\ UploadType
  /\ \A e \in news: e[1] \in Device /\ e[2] \in Nat
  /\ \A d \in Device: PageSound(d)

LEMMA LastFacts ==
  ASSUME setup \in Setups
  PROVE  /\ Batches \in Seq(Nat) /\ Len(Batches) \in Nat
         /\ \A b \in 0 .. Len(Batches): LastOf(b) \in Nat
         /\ \A b \in 0 .. Len(Batches): b < Len(Batches) => LastOf(b) < LastOf(b + 1)
<1>1. Batches \in Seq(Nat)
  BY SetupAssumption DEF Setup, Batches
<1>2. Len(Batches) \in Nat /\ DOMAIN Batches = 1 .. Len(Batches)
  BY <1>1
<1>3. \A b \in DOMAIN Batches: Batches[b] > IF b = 1 THEN 0 ELSE Batches[b - 1]
  BY SetupAssumption DEF Batches
<1>4. ASSUME NEW b \in 0 .. Len(Batches) PROVE LastOf(b) \in Nat
  <2>1. CASE b = 0
    BY <2>1 DEF LastOf
  <2>2. CASE b # 0
    <3>1. b \in 1 .. Len(Batches)
      BY <1>2, <2>2
    <3>2. Batches[b] \in Nat
      BY <1>1, <3>1
    <3> QED BY <2>2, <3>2 DEF LastOf
  <2> QED BY <2>1, <2>2
<1>5. ASSUME NEW b \in 0 .. Len(Batches), b < Len(Batches) PROVE LastOf(b) < LastOf(b + 1)
  <2>1. b + 1 \in DOMAIN Batches /\ b + 1 # 0 /\ (b + 1) - 1 = b
    BY <1>2, <1>5
  <2>2. Batches[b + 1] > IF b + 1 = 1 THEN 0 ELSE Batches[b]
    BY <1>3, <2>1
  <2>3. (b + 1 = 1) <=> (b = 0)
    OBVIOUS
  <2> QED BY <1>2, <2>1, <2>2, <2>3 DEF LastOf
<1> QED BY <1>1, <1>2, <1>4, <1>5

(***************************************************************************)
(* A step for one device changes nothing of the others.                    *)
(***************************************************************************)
LEMMA OneUpload ==
  ASSUME Uploads, UploadInv, UNCHANGED setup, UploadType', NEW d \in Device,
         \A e \in Device \ {d}:
           /\ page'[e] = page[e] /\ file'[e] = file[e] /\ saved'[e] = saved[e]
           /\ declared'[e] = declared[e] /\ client'[e] = client[e] /\ Pending(e)' = Pending(e),
         \A e \in news': e \in news \/ (e[1] = d /\ e[2] \in Nat),
         PageSound(d)'
  PROVE  UploadInv'
<1>1. Batches' = Batches /\ File' = File /\ \A b: LastOf(b)' = LastOf(b)
  BY DEF Batches, File, Last, LastOf
<1>2. /\ \A e \in Device: PageSound(e)
      /\ \A e \in news: e[1] \in Device /\ e[2] \in Nat
  BY DEF UploadInv
<1>3. ASSUME NEW e \in Device, e # d PROVE PageSound(e)'
  BY <1>1, <1>2, <1>3 DEF PageSound
<1> QED BY <1>2, <1>3 DEF UploadInv

(***************************************************************************)
(* A step that touches no upload.                                          *)
(***************************************************************************)
LEMMA NoUpload ==
  ASSUME Uploads, UploadInv, UNCHANGED <<setup, page, file, saved, declared, client, news>>,
         arrival' \in [pc: {"idle", "save", "tell", "look", "decide"}, dev: Device \cup {Idle.dev}, n: Nat],
         arrival'.pc # "idle" => arrival'.dev \in Device,
         \A e \in Device: Pending(e)' = Pending(e)
  PROVE  UploadInv'
<1>1. Batches' = Batches /\ File' = File /\ Idle' = Idle /\ \A b: LastOf(b)' = LastOf(b)
  BY DEF Batches, File, Last, LastOf, Idle
<1>2. /\ \A e \in Device: PageSound(e)
      /\ \A e \in news: e[1] \in Device /\ e[2] \in Nat
      /\ UploadType
  BY DEF UploadInv
<1>3. UploadType'
  BY <1>1, <1>2 DEF UploadType
<1>4. ASSUME NEW e \in Device PROVE PageSound(e)'
  BY <1>1, <1>2, <1>4 DEF PageSound
<1> QED BY <1>2, <1>3, <1>4 DEF UploadInv

LEMMA UploadFacts ==
  ASSUME Uploads, UploadInv, NEW d \in Device
  PROVE  /\ UploadType /\ PageSound(d) /\ page[d] \in [pc: PagePC, batch: Nat, cur: Nat]
         /\ file[d] \in [File -> {"none", "waiting", "transferring", "completed"}]
         /\ saved[d] \in SUBSET Nat /\ declared[d] \in BOOLEAN
         /\ Batches \in Seq(Nat) /\ Len(Batches) \in Nat
         /\ page[d].batch \in 0 .. Len(Batches) /\ LastOf(page[d].batch) \in Nat
         /\ page[d].batch < Len(Batches) => /\ LastOf(page[d].batch + 1) \in Nat
                                            /\ LastOf(page[d].batch) < LastOf(page[d].batch + 1)
<1>1. UploadType /\ PageSound(d)
  BY DEF UploadInv
<1>2. setup \in Setups /\ page[d] \in [pc: PagePC, batch: Nat, cur: Nat]
  BY <1>1 DEF UploadType
<1>3. page[d].batch \in 0 .. Len(Batches)
  BY <1>1, <1>2, LastFacts DEF PageSound
<1>4. page[d].batch < Len(Batches) => page[d].batch + 1 \in 0 .. Len(Batches)
  BY <1>2, <1>3, LastFacts
<1> QED BY <1>1, <1>2, <1>3, <1>4, LastFacts DEF UploadType

(***************************************************************************)
(* What a page asks for.                                                   *)
(***************************************************************************)
LEMMA PageUploads ==
  ASSUME Uploads, UploadInv, NEW d \in Device, PageRequest(d)
  PROVE  UploadInv'
<1>1. /\ UploadType /\ PageSound(d) /\ page[d] \in [pc: PagePC, batch: Nat, cur: Nat]
      /\ file[d] \in [File -> {"none", "waiting", "transferring", "completed"}]
      /\ saved[d] \in SUBSET Nat /\ declared[d] \in BOOLEAN
      /\ Batches \in Seq(Nat) /\ Len(Batches) \in Nat
      /\ page[d].batch \in 0 .. Len(Batches) /\ LastOf(page[d].batch) \in Nat
      /\ page[d].batch < Len(Batches) => /\ LastOf(page[d].batch + 1) \in Nat
                                         /\ LastOf(page[d].batch) < LastOf(page[d].batch + 1)
  BY UploadFacts
<1>2. /\ setup \in Setups /\ page \in [Device -> [pc: PagePC, batch: Nat, cur: Nat]]
      /\ file \in [Device -> [File -> {"none", "waiting", "transferring", "completed"}]]
      /\ saved \in [Device -> SUBSET Nat] /\ declared \in [Device -> BOOLEAN]
      /\ client \in [Device -> {"waiting", "transferring", "completed", "failed", "stopped"}]
      /\ arrival \in [pc: {"idle", "save", "tell", "look", "decide"}, dev: Device \cup {Idle.dev}, n: Nat]
      /\ arrival.pc # "idle" => arrival.dev \in Device
  BY <1>1 DEF UploadType
<1>s. UNCHANGED setup => /\ Batches' = Batches /\ File' = File /\ Idle' = Idle
                         /\ \A b: LastOf(b)' = LastOf(b)
  BY DEF Batches, File, Last, LastOf, Idle
<1>p. PagePC' = PagePC
  BY DEF PagePC
\* a page moves on and nothing is handed over
<1>a. ASSUME UNCHANGED <<setup, saved, arrival>>, NEW x \in [pc: PagePC, batch: Nat, cur: Nat], page' = [page EXCEPT ![d] = x],
             NEW fs \in [File -> {"none", "waiting", "transferring", "completed"}], file' = [file EXCEPT ![d] = fs],
             NEW dec \in BOOLEAN, declared' = [declared EXCEPT ![d] = dec],
             NEW c \in {"waiting", "transferring", "completed", "failed", "stopped"}, client' = [client EXCEPT ![d] = c],
             \A e \in news': e \in news \/ (e[1] = d /\ e[2] \in Nat /\ e[2] <= LastOf(x.batch)),
             x.batch = page[d].batch \/ (x.batch = page[d].batch + 1 /\ page[d].batch < Len(Batches)),
             \A n \in File: fs[n] # "none" => file[d][n] # "none" \/ n <= LastOf(x.batch),
             x.pc \in {"open", "send", "hand"} =>
               0 < x.batch /\ x.cur <= LastOf(x.batch) /\ 1 .. x.cur - 1 \subseteq saved[d] \cup Pending(d),
             x.pc \in {"idle", "last", "decide"} =>
               /\ x.cur = LastOf(x.batch) /\ 1 .. x.cur \subseteq saved[d] \cup Pending(d)
               /\ dec /\ Pending(d) = {} => c = "completed"
      PROVE  UploadInv'
  <2>1. /\ page'[d] = x /\ file'[d] = fs /\ declared'[d] = dec /\ client'[d] = c /\ saved'[d] = saved[d]
        /\ \A e \in Device \ {d}: page'[e] = page[e] /\ file'[e] = file[e] /\ saved'[e] = saved[e]
                                  /\ declared'[e] = declared[e] /\ client'[e] = client[e]
    BY <1>2, <1>a
  <2>2. \A e \in Device: Pending(e)' = Pending(e)
    BY <1>a DEF Pending
  <2>3. UploadType'
    BY <1>2, <1>a, <1>s, <1>p DEF UploadType
  <2>4. LastOf(page[d].batch) <= LastOf(x.batch) /\ x.batch <= Len(Batches)
    BY <1>1, <1>a
  <2>5. PageSound(d)'
    <3>1. \A n \in File: fs[n] # "none" => n <= LastOf(x.batch)
      <4> SUFFICES ASSUME NEW n \in File, fs[n] # "none", file[d][n] # "none" PROVE n <= LastOf(x.batch)
        BY <1>a
      <4>1. n \in Nat /\ n <= LastOf(page[d].batch) /\ LastOf(x.batch) \in Nat
        BY <1>1, <1>a DEF PageSound, File
      <4> QED BY <1>1, <2>4, <4>1
    <3>2. \A e \in news': e[1] = d => e[2] <= LastOf(x.batch)
      <4> SUFFICES ASSUME NEW e \in news, e[1] = d PROVE e[2] <= LastOf(x.batch)
        BY <1>a
      <4>1. e[2] \in Nat /\ e[2] <= LastOf(page[d].batch) /\ LastOf(x.batch) \in Nat
        BY <1>1, <1>a DEF PageSound, UploadInv
      <4> QED BY <1>1, <2>4, <4>1
    <3>3. \A n \in Pending(d): n <= LastOf(x.batch)
      <4>1. \A n \in Pending(d): n \in Nat /\ n <= LastOf(page[d].batch)
        BY <1>1, <1>2 DEF PageSound, Pending
      <4>2. LastOf(x.batch) \in Nat
        BY <1>1, <1>a
      <4> QED BY <1>1, <2>4, <4>1, <4>2
    <3> QED BY <1>a, <1>s, <2>1, <2>2, <2>4, <3>1, <3>2, <3>3 DEF PageSound
  <2> QED BY <1>a, <2>1, <2>2, <2>3, <2>5, OneUpload
<1>b. /\ page[d].pc \in {"open", "send", "hand"} =>
          0 < page[d].batch /\ page[d].cur <= LastOf(page[d].batch) /\ 1 .. page[d].cur - 1 \subseteq saved[d] \cup Pending(d)
      /\ page[d].pc \in {"idle", "last", "decide"} =>
          /\ page[d].cur = LastOf(page[d].batch) /\ 1 .. page[d].cur \subseteq saved[d] \cup Pending(d)
          /\ declared[d] /\ Pending(d) = {} => client[d] = "completed"
  BY <1>1 DEF PageSound
<1>c. /\ file = [file EXCEPT ![d] = file[d]] /\ declared = [declared EXCEPT ![d] = declared[d]]
      /\ client = [client EXCEPT ![d] = client[d]] /\ page = [page EXCEPT ![d] = page[d]]
      /\ client[d] \in {"waiting", "transferring", "completed", "failed", "stopped"}
  BY <1>2
\* the common case: the page alone, or it and the state of its device
<1>d. ASSUME UNCHANGED <<setup, saved, arrival, file, declared>>,
             NEW x \in [pc: PagePC, batch: Nat, cur: Nat], page' = [page EXCEPT ![d] = x],
             NEW c \in {"waiting", "transferring", "completed", "failed", "stopped"}, client' = [client EXCEPT ![d] = c],
             \A e \in news': e \in news \/ (e[1] = d /\ e[2] \in Nat /\ e[2] <= LastOf(x.batch)),
             x.batch = page[d].batch \/ (x.batch = page[d].batch + 1 /\ page[d].batch < Len(Batches)),
             x.pc \in {"open", "send", "hand"} =>
               0 < x.batch /\ x.cur <= LastOf(x.batch) /\ 1 .. x.cur - 1 \subseteq saved[d] \cup Pending(d),
             x.pc \in {"idle", "last", "decide"} =>
               /\ x.cur = LastOf(x.batch) /\ 1 .. x.cur \subseteq saved[d] \cup Pending(d)
               /\ declared[d] /\ Pending(d) = {} => c = "completed"
      PROVE  UploadInv'
  <2>1. PICK fs \in [File -> {"none", "waiting", "transferring", "completed"}], dec \in BOOLEAN:
          /\ file' = [file EXCEPT ![d] = fs] /\ declared' = [declared EXCEPT ![d] = dec]
          /\ \A n \in File: fs[n] # "none" => file[d][n] # "none"
          /\ dec <=> declared[d]
    BY <1>1, <1>c, <1>d
  <2> QED BY <1>a, <1>d, <2>1
<1>e. UNCHANGED client => \E c \in {"waiting", "transferring", "completed", "failed", "stopped"}:
                            c = client[d] /\ client' = [client EXCEPT ![d] = c]
  BY <1>c
<1>3. CASE OpenPage(d)
  <2>1. /\ page[d].pc = "idle" /\ page[d].batch < Len(Batches)
        /\ page' = [page EXCEPT ![d] = [pc |-> "open", batch |-> page[d].batch + 1, cur |-> page[d].cur + 1]]
        /\ UNCHANGED <<setup, saved, arrival, file, declared, client, news>>
    BY <1>3 DEF OpenPage, serverVars, fileVars, libraryVars
  <2> DEFINE x == [pc |-> "open", batch |-> page[d].batch + 1, cur |-> page[d].cur + 1]
  <2>2. x \in [pc: PagePC, batch: Nat, cur: Nat] /\ x.pc = "open" /\ x.batch = page[d].batch + 1 /\ x.cur = page[d].cur + 1
    BY <1>1 DEF PagePC
  <2>3. 0 < x.batch /\ x.cur <= LastOf(x.batch) /\ 1 .. x.cur - 1 \subseteq saved[d] \cup Pending(d)
    <3>1. page[d].cur = LastOf(page[d].batch) /\ page[d].cur \in Nat /\ x.cur - 1 = page[d].cur
      BY <1>1, <1>b, <2>1, <2>2
    <3>2. LastOf(page[d].batch) < LastOf(x.batch) /\ LastOf(x.batch) \in Nat
      BY <1>1, <2>1, <2>2
    <3> QED BY <1>1, <1>b, <2>1, <2>2, <3>1, <3>2
  <2>4. page' = [page EXCEPT ![d] = x]
    BY <2>1
  <2> HIDE DEF x
  <2>5. PICK c \in {"waiting", "transferring", "completed", "failed", "stopped"}: client' = [client EXCEPT ![d] = c]
    BY <1>e, <2>1
  <2> QED BY <1>1, <1>d, <2>1, <2>2, <2>3, <2>4, <2>5
<1>4. CASE InitBatch(d)
  <2>1. /\ page[d].pc = "open" /\ page' = [page EXCEPT ![d].pc = "send"]
        /\ declared' = [declared EXCEPT ![d] = TRUE] /\ client' = [client EXCEPT ![d] = "transferring"]
        /\ file' = [file EXCEPT ![d] = [n \in File |->
                IF n \in page[d].cur .. LastOf(page[d].batch) THEN "waiting" ELSE file[d][n]]]
        /\ UNCHANGED <<setup, saved, arrival, news>>
    BY <1>4 DEF InitBatch, Turn, SetClient, libraryVars
  <2> DEFINE x == [page[d] EXCEPT !.pc = "send"]
             fs == [n \in File |-> IF n \in page[d].cur .. LastOf(page[d].batch) THEN "waiting" ELSE file[d][n]]
  <2>2. /\ x \in [pc: PagePC, batch: Nat, cur: Nat] /\ x.pc = "send" /\ x.batch = page[d].batch /\ x.cur = page[d].cur
        /\ page' = [page EXCEPT ![d] = x]
    BY <1>1, <2>1 DEF PagePC
  <2>3. fs \in [File -> {"none", "waiting", "transferring", "completed"}] /\ file' = [file EXCEPT ![d] = fs]
    BY <1>1, <2>1
  <2>4. \A n \in File: fs[n] # "none" => file[d][n] # "none" \/ n <= LastOf(x.batch)
    BY <1>1, <2>2
  <2> HIDE DEF x, fs
  <2> QED BY <1>1, <1>a, <1>b, <2>1, <2>2, <2>3, <2>4
<1>5. CASE SkipInit(d)
  <2>1. page[d].pc = "open" /\ page' = [page EXCEPT ![d].pc = "send"]
        /\ UNCHANGED <<setup, saved, arrival, file, declared, client, news>>
    BY <1>5 DEF SkipInit, Turn, serverVars, fileVars, libraryVars
  <2> DEFINE x == [page[d] EXCEPT !.pc = "send"]
  <2>2. /\ x \in [pc: PagePC, batch: Nat, cur: Nat] /\ x.pc = "send" /\ x.batch = page[d].batch /\ x.cur = page[d].cur
        /\ page' = [page EXCEPT ![d] = x]
    BY <1>1, <2>1 DEF PagePC
  <2> HIDE DEF x
  <2>5. PICK c \in {"waiting", "transferring", "completed", "failed", "stopped"}: client' = [client EXCEPT ![d] = c]
    BY <1>e, <2>1
  <2> QED BY <1>1, <1>d, <1>b, <2>1, <2>2, <2>5
<1>6. CASE StopUpload(d) \/ RefuseUpload(d)
  <2>1. /\ page[d].pc \in {"send", "form"} /\ UNCHANGED <<setup, saved, arrival, file, declared, news>>
        /\ UNCHANGED page \/ page' = [page EXCEPT ![d].pc = "gone"]
        /\ UNCHANGED client \/ client' = [client EXCEPT ![d] = "failed"]
    BY <1>6 DEF StopUpload, RefuseUpload, Turn, SetClient, deviceVars, fileVars, libraryVars
  <2>2. PICK x \in [pc: PagePC, batch: Nat, cur: Nat]:
           x.pc \in {"send", "gone"} /\ x.batch = page[d].batch /\ x.cur = page[d].cur /\ page' = [page EXCEPT ![d] = x]
    <3>1. page[d].pc = "send"
      BY <1>1, <2>1 DEF PagePC
    <3>2. CASE UNCHANGED page
      BY <1>1, <1>c, <3>1, <3>2
    <3>3. CASE page' = [page EXCEPT ![d].pc = "gone"]
      <4>1. page' = [page EXCEPT ![d] = [page[d] EXCEPT !.pc = "gone"]]
        BY <3>3
      <4>2. [page[d] EXCEPT !.pc = "gone"] \in [pc: PagePC, batch: Nat, cur: Nat]
        BY <1>1 DEF PagePC
      <4> QED BY <1>1, <4>1, <4>2
    <3> QED BY <2>1, <3>2, <3>3
  <2>3. PICK c \in {"waiting", "transferring", "completed", "failed", "stopped"}: client' = [client EXCEPT ![d] = c]
    BY <1>c, <2>1
  <2>4. page[d].pc = "send"
    BY <1>1, <2>1 DEF PagePC
  <2> QED BY <1>1, <1>d, <1>b, <2>1, <2>2, <2>3, <2>4
<1>7. CASE Patch(d)
  <2>1. /\ page[d].pc = "send" /\ UNCHANGED <<setup, saved, arrival, file, declared, client>>
        /\ \A e \in news': e \in news \/ (e[1] = d /\ e[2] = page[d].cur)
        /\ UNCHANGED page \/ page' = [page EXCEPT ![d].pc = "hand"]
    BY <1>7 DEF Patch, Turn, fileVars
  <2>2. PICK x \in [pc: PagePC, batch: Nat, cur: Nat]:
           x.pc \in {"send", "hand"} /\ x.batch = page[d].batch /\ x.cur = page[d].cur /\ page' = [page EXCEPT ![d] = x]
    <3>2. CASE UNCHANGED page
      BY <1>1, <1>c, <2>1, <3>2
    <3>3. CASE page' = [page EXCEPT ![d].pc = "hand"]
      <4>1. page' = [page EXCEPT ![d] = [page[d] EXCEPT !.pc = "hand"]]
        BY <3>3
      <4>2. [page[d] EXCEPT !.pc = "hand"] \in [pc: PagePC, batch: Nat, cur: Nat]
        BY <1>1 DEF PagePC
      <4> QED BY <1>1, <4>1, <4>2
    <3> QED BY <2>1, <3>2, <3>3
  <2>3. \A e \in news': e \in news \/ (e[1] = d /\ e[2] \in Nat /\ e[2] <= LastOf(x.batch))
    BY <1>1, <1>b, <2>1, <2>2
  <2>5. PICK c \in {"waiting", "transferring", "completed", "failed", "stopped"}: client' = [client EXCEPT ![d] = c]
    BY <1>e, <2>1
  <2> QED BY <1>1, <1>d, <1>b, <2>1, <2>2, <2>3, <2>5
<1>8. CASE HandOver(d)
  <2>1. /\ page[d].pc = "hand" /\ arrival.pc = "idle"
        /\ arrival' = [pc |-> "save", dev |-> d, n |-> page[d].cur]
        /\ page' = [page EXCEPT ![d] = IF page[d].cur < LastOf(page[d].batch)
                                       THEN [page[d] EXCEPT !.pc = "send", !.cur = page[d].cur + 1]
                                       ELSE [page[d] EXCEPT !.pc = "last"]]
        /\ UNCHANGED <<setup, saved, file, declared, client, news>>
    BY <1>8 DEF HandOver, Turn, serverVars, fileVars, libraryVars
  <2> DEFINE x == IF page[d].cur < LastOf(page[d].batch)
                  THEN [page[d] EXCEPT !.pc = "send", !.cur = page[d].cur + 1] ELSE [page[d] EXCEPT !.pc = "last"]
  <2>2. /\ x \in [pc: PagePC, batch: Nat, cur: Nat] /\ x.batch = page[d].batch
        /\ page[d].cur < LastOf(page[d].batch) => x.pc = "send" /\ x.cur = page[d].cur + 1
        /\ ~(page[d].cur < LastOf(page[d].batch)) => x.pc = "last" /\ x.cur = page[d].cur
    <3>1. CASE page[d].cur < LastOf(page[d].batch)
      <4>1. x = [page[d] EXCEPT !.pc = "send", !.cur = page[d].cur + 1]
        BY <3>1
      <4>2. page[d].cur + 1 \in Nat /\ "send" \in PagePC
        BY <1>1 DEF PagePC
      <4> HIDE DEF x
      <4> QED BY <1>1, <3>1, <4>1, <4>2
    <3>2. CASE ~(page[d].cur < LastOf(page[d].batch))
      BY <1>1, <3>2 DEF PagePC
    <3> QED BY <3>1, <3>2
  <2>3. page' = [page EXCEPT ![d] = x]
    BY <2>1
  <2>4. /\ Pending(d)' = {page[d].cur} /\ Pending(d) = {}
        /\ \A e \in Device \ {d}: Pending(e)' = Pending(e)
    BY <1>2, <2>1 DEF Pending
  <2>5. 1 .. page[d].cur \subseteq saved[d] \cup Pending(d)' /\ page[d].cur \in Nat /\ page[d].cur <= LastOf(page[d].batch)
    BY <1>1, <1>b, <2>1, <2>4
  <2> HIDE DEF x
  <2>6. /\ page'[d] = x /\ file'[d] = file[d] /\ declared'[d] = declared[d] /\ client'[d] = client[d] /\ saved'[d] = saved[d]
        /\ \A e \in Device \ {d}: page'[e] = page[e] /\ file'[e] = file[e] /\ saved'[e] = saved[e]
                                  /\ declared'[e] = declared[e] /\ client'[e] = client[e]
    BY <1>2, <2>1, <2>2, <2>3
  <2>7. UploadType'
    <3>1. arrival' \in [pc: {"idle", "save", "tell", "look", "decide"}, dev: Device \cup {Idle.dev}, n: Nat]
          /\ arrival'.dev \in Device
      BY <2>1, <2>5
    <3>2. page' \in [Device -> [pc: PagePC, batch: Nat, cur: Nat]]
      BY <1>2, <2>2, <2>3
    <3>3. arrival' \in [pc: {"idle", "save", "tell", "look", "decide"}, dev: Device \cup {Idle'.dev}, n: Nat]
      BY <1>s, <2>1, <3>1
    <3> QED BY <1>2, <1>s, <1>p, <2>1, <3>1, <3>2, <3>3 DEF UploadType
  <2>8. PageSound(d)'
    <3>1. page[d].cur < LastOf(page[d].batch) =>
            x.pc = "send" /\ x.cur <= LastOf(x.batch) /\ 1 .. x.cur - 1 \subseteq saved'[d] \cup Pending(d)'
      BY <1>1, <2>2, <2>5, <2>6
    <3>2. ~(page[d].cur < LastOf(page[d].batch)) =>
            /\ x.pc = "last" /\ x.cur = LastOf(x.batch) /\ 1 .. x.cur \subseteq saved'[d] \cup Pending(d)'
            /\ Pending(d)' # {}
      BY <1>1, <2>2, <2>4, <2>5, <2>6
    <3>3. \A n \in Pending(d)': n <= LastOf(x.batch)
      BY <2>2, <2>4, <2>5
    <3> QED BY <3>3,  <1>1, <1>b, <1>s, <2>1, <2>2, <2>6, <3>1, <3>2 DEF PageSound
  <2> QED BY <2>1, <2>4, <2>6, <2>7, <2>8, OneUpload
<1>9. CASE PostDone(d)
  <2>1. page[d].pc = "last" /\ UNCHANGED <<setup, saved, arrival, declared, news>>
    BY <1>9 DEF PostDone, libraryVars
  <2>2. CASE Refused \/ LimitExceeded(d, 1)
    <3>1. PICK pc \in {"idle", "gone"}: page' = [page EXCEPT ![d].pc = pc] /\ UNCHANGED <<client, file>>
      BY <1>9, <2>2 DEF PostDone, Turn
    <3> DEFINE x == [page[d] EXCEPT !.pc = pc]
    <3>2. /\ x \in [pc: PagePC, batch: Nat, cur: Nat] /\ x.pc = pc /\ x.batch = page[d].batch /\ x.cur = page[d].cur
          /\ page' = [page EXCEPT ![d] = x]
      BY <1>1, <3>1 DEF PagePC
    <3> HIDE DEF x
    <3>3. PICK c \in {"waiting", "transferring", "completed", "failed", "stopped"}:
            c = client[d] /\ client' = [client EXCEPT ![d] = c]
      BY <1>e, <3>1
    <3> QED BY <1>1, <1>d, <1>b, <2>1, <3>1, <3>2, <3>3
  <2>3. CASE ~(Refused \/ LimitExceeded(d, 1))
    <3>1. /\ page' = [page EXCEPT ![d].pc = "decide"] /\ client' = [client EXCEPT ![d] = "completed"]
          /\ file' = [file EXCEPT ![d] = [n \in File |-> IF n \in Listed(d) THEN "completed" ELSE "none"]]
      BY <1>9, <2>3 DEF PostDone, Turn, SetClient
    <3> DEFINE x == [page[d] EXCEPT !.pc = "decide"]
               fs == [n \in File |-> IF n \in Listed(d) THEN "completed" ELSE "none"]
    <3>2. /\ x \in [pc: PagePC, batch: Nat, cur: Nat] /\ x.pc = "decide" /\ x.batch = page[d].batch /\ x.cur = page[d].cur
          /\ page' = [page EXCEPT ![d] = x]
      BY <1>1, <3>1 DEF PagePC
    <3>3. /\ fs \in [File -> {"none", "waiting", "transferring", "completed"}] /\ file' = [file EXCEPT ![d] = fs]
          /\ \A n \in File: fs[n] # "none" => file[d][n] # "none"
      BY <3>1 DEF Listed
    <3> HIDE DEF x, fs
    <3>4. PICK dec \in BOOLEAN: declared' = [declared EXCEPT ![d] = dec]
      BY <1>1, <1>c, <2>1
    <3>5. PICK c \in {"waiting", "transferring", "completed", "failed", "stopped"}:
            c = "completed" /\ client' = [client EXCEPT ![d] = c]
      BY <3>1
    <3>6. /\ x.cur = LastOf(x.batch) /\ 1 .. x.cur \subseteq saved[d] \cup Pending(d)
          /\ x.pc \notin {"open", "send", "hand"} /\ x.batch = page[d].batch
          /\ \A n \in File: fs[n] # "none" => file[d][n] # "none" \/ n <= LastOf(x.batch)
      BY <1>b, <2>1, <3>2, <3>3
    <3>7. UNCHANGED <<setup, saved, arrival>> /\ \A e \in news': e \in news
      BY <2>1
    <3> QED BY <1>a, <3>2, <3>3, <3>4, <3>5, <3>6, <3>7
  <2> QED BY <2>2, <2>3
<1>10. CASE PostForm(d) \/ FormChunk(d) \/ FormTooLarge(d)
  <2>1. setup.form \/ page[d].pc = "form"
    BY <1>10 DEF PostForm, FormChunk, FormTooLarge
  <2> QED BY <1>1, <2>1 DEF Uploads, PagePC
<1>11. CASE PageBreaks(d)
  BY <1>1, <1>2, <1>11, NoUpload DEF PageBreaks, receiveVars, deviceVars, Pending
<1> QED BY <1>3, <1>4, <1>5, <1>6, <1>7, <1>8, <1>9, <1>10, <1>11 DEF PageRequest

(***************************************************************************)
(* What the server goes on with.  Tell is where the invariant is used:     *)
(* when the page is through, all that is listed was handed over, and all   *)
(* that was handed over is saved with this file.                           *)
(***************************************************************************)
LEMMA TellUploads == ASSUME Uploads, UploadInv, Tell PROVE UploadInv'
<1>p. PICK d \in Device, m \in Nat: d = arrival.dev /\ m = arrival.n /\ arrival.pc = "tell"
  BY DEF Tell, UploadInv, UploadType
<1>1. /\ UploadType /\ PageSound(d) /\ page[d] \in [pc: PagePC, batch: Nat, cur: Nat]
      /\ file[d] \in [File -> {"none", "waiting", "transferring", "completed"}]
      /\ saved[d] \in SUBSET Nat /\ declared[d] \in BOOLEAN
      /\ LastOf(page[d].batch) \in Nat
  BY UploadFacts
<1>2. /\ setup \in Setups /\ page \in [Device -> [pc: PagePC, batch: Nat, cur: Nat]]
      /\ file \in [Device -> [File -> {"none", "waiting", "transferring", "completed"}]]
      /\ saved \in [Device -> SUBSET Nat] /\ declared \in [Device -> BOOLEAN]
      /\ client \in [Device -> {"waiting", "transferring", "completed", "failed", "stopped"}]
      /\ arrival \in [pc: {"idle", "save", "tell", "look", "decide"}, dev: Device \cup {Idle.dev}, n: Nat]
      /\ arrival.pc # "idle" => arrival.dev \in Device
  BY <1>1 DEF UploadType
<1>3. /\ UNCHANGED <<setup, page, declared, news>>
      /\ file' = [file EXCEPT ![d][m] = "completed"]
      /\ saved' = [saved EXCEPT ![d] = @ \cup {m}]
      /\ client' = [client EXCEPT ![d] = AfterSave(d, m)]
      /\ arrival' = [arrival EXCEPT !.pc = "look"]
  BY <1>p DEF Tell, SetClient
<1>s. /\ Batches' = Batches /\ File' = File /\ Idle' = Idle /\ PagePC' = PagePC
      /\ \A b: LastOf(b)' = LastOf(b)
  BY <1>3 DEF Batches, File, Last, LastOf, Idle, PagePC
<1>4. /\ saved'[d] = saved[d] \cup {m} /\ page'[d] = page[d] /\ declared'[d] = declared[d]
      /\ \A n \in File: file'[d][n] = IF n = m THEN "completed" ELSE file[d][n]
      /\ client'[d] = AfterSave(d, m)
      /\ \A e \in Device \ {d}: page'[e] = page[e] /\ file'[e] = file[e] /\ saved'[e] = saved[e]
                                /\ declared'[e] = declared[e] /\ client'[e] = client[e]
  BY <1>1, <1>2, <1>3
<1>5. Pending(d) = {m} /\ Pending(d)' = {} /\ \A e \in Device \ {d}: Pending(e)' = Pending(e)
  BY <1>2, <1>3, <1>p DEF Pending
<1>6. AfterSave(d, m) \in {"waiting", "transferring", "completed"}
  BY <1>1 DEF AfterSave
<1>7. UploadType'
  <2>1. file' \in [Device -> [File -> {"none", "waiting", "transferring", "completed"}]]
    BY <1>2, <1>3
  <2>2. saved' \in [Device -> SUBSET Nat]
    BY <1>2, <1>3
  <2>3. client' \in [Device -> {"waiting", "transferring", "completed", "failed", "stopped"}]
    BY <1>2, <1>3, <1>6
  <2>4. arrival' \in [pc: {"idle", "save", "tell", "look", "decide"}, dev: Device \cup {Idle.dev}, n: Nat]
        /\ arrival'.dev = d
    BY <1>2, <1>3, <1>p
  <2> QED BY <1>2, <1>3, <1>s, <2>1, <2>2, <2>3, <2>4 DEF UploadType
<1>8. ASSUME page[d].pc \in {"idle", "last", "decide"}, declared[d] PROVE client'[d] = "completed"
  <2>1. m \in File => file'[d][m] # "none"
    BY <1>4
  <2>2. {k \in File: file'[d][k] # "none"} \subseteq saved'[d]
    <3> SUFFICES ASSUME NEW k \in File, file'[d][k] # "none", k # m PROVE k \in saved'[d]
      BY <1>4
    <3>1. file[d][k] # "none" /\ k \in Nat /\ 1 <= k
      BY <1>4 DEF File
    <3>2. k <= page[d].cur /\ page[d].cur \in Nat
      BY <1>1, <1>8, <3>1 DEF PageSound
    <3>3. k \in saved[d] \cup Pending(d)
      BY <1>1, <1>8, <3>1, <3>2 DEF PageSound
    <3> QED BY <1>4, <1>5, <3>3
  <2>3. AfterSave(d, m) = "completed"
    BY <1>8, <2>2 DEF AfterSave
  <2> QED BY <1>4, <2>3
<1>9. PageSound(d)'
  <2>1. m \in File => m <= LastOf(page[d].batch)
    BY <1>1, <1>5 DEF PageSound
  <2> QED BY <1>1, <1>3, <1>4, <1>5, <1>8, <1>s, <2>1 DEF PageSound
<1> QED BY <1>3, <1>4, <1>5, <1>7, <1>9, OneUpload

LEMMA EventUploads == ASSUME Uploads, UploadInv, ProgressEvent PROVE UploadInv'
<1>p. PICK e \in news:
        /\ UNCHANGED <<setup, page, saved, declared, arrival>> /\ news' = news \ {e}
        /\ IF file[e[1]][e[2]] = "completed" THEN UNCHANGED <<file, client>>
           ELSE /\ file' = [file EXCEPT ![e[1]][e[2]] = "transferring"]
                /\ client' = [client EXCEPT ![e[1]] = IF @ = "completed" THEN @ ELSE "transferring"]
  BY DEF ProgressEvent
<1>d. PICK d \in Device, m \in Nat: d = e[1] /\ m = e[2]
  BY DEF UploadInv
<1>1. /\ UploadType /\ PageSound(d)
      /\ file[d] \in [File -> {"none", "waiting", "transferring", "completed"}]
  BY UploadFacts
<1>2. /\ file \in [Device -> [File -> {"none", "waiting", "transferring", "completed"}]]
      /\ client \in [Device -> {"waiting", "transferring", "completed", "failed", "stopped"}]
  BY <1>1 DEF UploadType
<1>s. /\ Batches' = Batches /\ File' = File /\ Idle' = Idle /\ PagePC' = PagePC
      /\ (\A b: LastOf(b)' = LastOf(b)) /\ \A x \in Device: Pending(x)' = Pending(x)
  BY <1>p DEF Batches, File, Last, LastOf, Idle, PagePC, Pending
<1>3. /\ file' \in [Device -> [File -> {"none", "waiting", "transferring", "completed"}]]
      /\ client' \in [Device -> {"waiting", "transferring", "completed", "failed", "stopped"}]
      /\ \A x \in Device \ {d}: file'[x] = file[x] /\ client'[x] = client[x]
      /\ \A n \in File: file'[d][n] # "none" => file[d][n] # "none" \/ n = m
      /\ client[d] = "completed" => client'[d] = "completed"
  <2>1. CASE UNCHANGED <<file, client>>
    BY <1>2, <2>1
  <2>2. CASE /\ file' = [file EXCEPT ![d][m] = "transferring"]
             /\ client' = [client EXCEPT ![d] = IF client[d] = "completed" THEN client[d] ELSE "transferring"]
    BY <1>1, <1>2, <2>2
  <2> QED BY <1>p, <1>d, <2>1, <2>2
<1>4. UploadType'
  BY <1>1, <1>3, <1>p, <1>s DEF UploadType
<1>5. m <= LastOf(page[d].batch)
  BY <1>1, <1>d DEF PageSound
<1>6. PageSound(d)'
  BY <1>1, <1>3, <1>5, <1>p, <1>s DEF PageSound
<1>7. \A x \in news': x \in news
  BY <1>p
<1> QED BY <1>3, <1>4, <1>6, <1>7, <1>p, <1>s, OneUpload

LEMMA RunningUploads == ASSUME Uploads, UploadInv, Running PROVE UploadInv'
<1>1. /\ UploadType /\ Idle.pc = "idle" /\ Idle.n = 0
      /\ arrival \in [pc: {"idle", "save", "tell", "look", "decide"}, dev: Device \cup {Idle.dev}, n: Nat]
      /\ arrival.pc # "idle" => arrival.dev \in Device
      /\ page \in [Device -> [pc: PagePC, batch: Nat, cur: Nat]]
  BY DEF UploadInv, UploadType, Idle
<1>2. CASE ProgressShow
  BY <1>1, <1>2, NoUpload DEF ProgressShow, deviceVars, fileVars, libraryVars, Pending
<1>3. CASE Save \/ LookAgain \/ DecideArrival
  <2>1. UNCHANGED <<setup, page, file, saved, declared, client, news>>
    BY <1>3 DEF Save, LookAgain, DecideArrival, serverVars, deviceVars, fileVars, libraryVars
  <2>2. \/ arrival.pc = "save" /\ arrival' = [arrival EXCEPT !.pc = "tell"]
        \/ arrival.pc = "look" /\ arrival' = [arrival EXCEPT !.pc = "decide"]
        \/ arrival.pc \in {"look", "decide"} /\ arrival' = Idle
    BY <1>3 DEF Save, LookAgain, DecideArrival, Uploads
  <2>3. /\ arrival' \in [pc: {"idle", "save", "tell", "look", "decide"}, dev: Device \cup {Idle.dev}, n: Nat]
        /\ arrival'.pc # "idle" => arrival'.dev \in Device
    BY <1>1, <2>2 DEF Idle
  <2>4. \A e \in Device: Pending(e)' = Pending(e)
    BY <1>1, <2>2 DEF Pending
  <2> QED BY <2>1, <2>3, <2>4, NoUpload
<1>4. ASSUME NEW d \in Device, DecideDone(d) PROVE UploadInv'
  <2>1. /\ page[d].pc = "decide" /\ page' = [page EXCEPT ![d].pc = "idle"]
        /\ UNCHANGED <<setup, saved, arrival, file, declared, client, news>>
    BY <1>4 DEF DecideDone, Turn, deviceVars, fileVars, libraryVars
  <2>2. /\ page'[d].pc = "idle" /\ page'[d].batch = page[d].batch /\ page'[d].cur = page[d].cur
        /\ page' \in [Device -> [pc: PagePC, batch: Nat, cur: Nat]]
        /\ \A e \in Device \ {d}: page'[e] = page[e]
    BY <1>1, <2>1 DEF PagePC
  <2>3. /\ Batches' = Batches /\ File' = File /\ Idle' = Idle /\ PagePC' = PagePC
        /\ (\A b: LastOf(b)' = LastOf(b)) /\ \A e \in Device: Pending(e)' = Pending(e)
    BY <2>1 DEF Batches, File, Last, LastOf, Idle, PagePC, Pending
  <2>4. UploadType'
    BY <1>1, <2>1, <2>2, <2>3 DEF UploadType
  <2>5. PageSound(d)
    BY DEF UploadInv
  <2>6. PageSound(d)'
    BY <2>1, <2>2, <2>3, <2>5 DEF PageSound
  <2> QED BY <2>1, <2>2, <2>3, <2>4, <2>6, OneUpload
<1>5. ASSUME NEW d \in Device, FormFile(d) \/ FormFinish(d) PROVE UploadInv'
  <2>1. page[d].pc \in {"form", "finish"}
    BY <1>5 DEF FormFile, FormFinish
  <2> QED BY <1>1, <2>1 DEF PagePC
<1> QED BY <1>2, <1>3, <1>4, <1>5, EventUploads, TellUploads DEF Running

LEMMA ReceiveUploads == ASSUME Uploads, UploadInv, ReceiveStep PROVE UploadInv'
<1>1. /\ arrival \in [pc: {"idle", "save", "tell", "look", "decide"}, dev: Device \cup {Idle.dev}, n: Nat]
      /\ arrival.pc # "idle" => arrival.dev \in Device
  BY DEF UploadInv, UploadType
<1>2. ASSUME UNCHANGED <<setup, client>>, UNCHANGED receiveVars PROVE UploadInv'
  BY <1>1, <1>2, NoUpload DEF receiveVars, Pending
<1>3. ASSUME NEW d \in Device, registerClientActivity(d, 1), UNCHANGED receiveVars PROVE UploadInv'
  BY <1>2, <1>3 DEF registerClientActivity
<1>4. ASSUME ServerStep, UNCHANGED receiveVars PROVE UploadInv'
  <2>1. UNCHANGED <<setup, client>>
    BY <1>4 DEF ServerStep, StopStep, GraceAsk, GraceEnds, Wait, TakeToken, Tick, HostStops, SetAutoStop, GoStale,
                ServeBreaks, StopClientTransfer, deviceVars, Uploads
  <2> QED BY <1>2, <1>4, <2>1
<1> QED BY <1>3, <1>4, RunningUploads, PageUploads DEF ReceiveStep

LEMMA UploadInitially == Init => UploadInv
<1> SUFFICES ASSUME Init PROVE UploadInv
  OBVIOUS
<1>1. /\ setup \in Setups /\ page = [d \in Device |-> [pc |-> "idle", batch |-> 0, cur |-> 0]]
      /\ declared = [d \in Device |-> FALSE] /\ file = [d \in Device |-> [n \in File |-> "none"]]
      /\ saved = [d \in Device |-> {}] /\ client = [d \in Device |-> "waiting"]
      /\ news = {} /\ arrival = Idle
  BY DEF Init, ServerInit, ReceiveInit
<1>2. UploadType
  BY <1>1 DEF UploadType, PagePC, Idle
<1>3. Len(Batches) \in Nat
  BY <1>1, LastFacts
<1>4. ASSUME NEW d \in Device PROVE PageSound(d)
  <2>1. Pending(d) = {} /\ LastOf(0) = 0
    BY <1>1 DEF Pending, Idle, LastOf
  <2>2. page[d].pc = "idle" /\ page[d].batch = 0 /\ page[d].cur = 0 /\ ~declared[d] /\ \A n \in File: file[d][n] = "none"
    BY <1>1
  <2>3. 1 .. 0 = {}
    OBVIOUS
  <2> QED BY <1>1, <1>3, <2>1, <2>2, <2>3 DEF PageSound
<1> QED BY <1>1, <1>2, <1>4 DEF UploadInv

THEOREM UploadInvariant == Spec => []UploadInv
<1>1. UploadInv /\ [Next]_vars => UploadInv'
  <2> SUFFICES ASSUME UploadInv, [Next]_vars PROVE UploadInv'
    OBVIOUS
  <2>1. UNCHANGED setup
    BY SetupStays
  <2>2. Uploads' <=> Uploads
    BY <2>1 DEF Uploads
  <2>3. CASE ~Uploads
    BY <2>2, <2>3 DEF UploadInv
  <2>4. CASE Uploads
    <3>1. ~SendStep
      BY <2>4 DEF SendStep, Uploads
    <3>2. CASE UNCHANGED vars
      <4>1. /\ arrival \in [pc: {"idle", "save", "tell", "look", "decide"}, dev: Device \cup {Idle.dev}, n: Nat]
            /\ arrival.pc # "idle" => arrival.dev \in Device
        BY <2>4 DEF UploadInv, UploadType
      <4> QED BY <2>4, <3>2, <4>1, NoUpload DEF vars, serverVars, receiveVars, Pending
    <3> QED BY <2>4, <3>1, <3>2, ReceiveUploads DEF Next
  <2> QED BY <2>3, <2>4
<1> QED BY <1>1, UploadInitially, PTL DEF Spec

(***************************************************************************)
(* A device whose page has reported that it is done is shown as completed  *)
(* once the completion goroutine rests, in whatever order the report, the  *)
(* announcements, late progress events and arrivals of any number of       *)
(* devices, batches and files were handled.                                *)
(***************************************************************************)
THEOREM SettlesCompleted == Spec => []SettlesComplete
<1>1. UploadInv => SettlesComplete
  BY DEF UploadInv, Uploads, PageSound, Pending, SettlesComplete
<1> QED BY <1>1, UploadInvariant, PTL

=============================================================================
