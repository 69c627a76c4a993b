-------------------------- MODULE DownloadsProofs --------------------------
(***************************************************************************)
(* Theorems about Downloads, for every number of requests of one device    *)
(* for one file, of senders that feed them and of commands, for every size *)
(* of the file and every number of job objects; and about Throttle, for    *)
(* every number of transfers, any caps, limit and measurements.            *)
(***************************************************************************)
EXTENDS Downloads, Throttle, SequenceTheorems, FiniteSetTheorems,
        WellFoundedInduction, TLAPS

USE DEF Thread

-----------------------------------------------------------------------------
(* Type correctness *)

(* A call of the manager that has looked its job up has one, and a handler  *)
(* goes on after a call where only handlers of its kind do; the call a GET  *)
(* leaves after is one that ends the job.                                   *)
Calling ==
    /\ \A t \in Thread : pc[t] \in InCall \ {"lookup"} => call[t].job \in 1..Len(jobs)
    /\ \A d \in Get : pc[d] \in InCall =>
          /\ back[d] \in {"source", "stream", "leave"}
          /\ back[d] = "leave" => call[d].to \in Terminal
    /\ \A c \in Command : pc[c] \in InCall => back[c] \in {"started", "gone"}

Typed == TypeOK /\ Calling

CallType == [to: State \cup {"progress"}, job: Nat, event: State]

LEMMA JobsFacts ==
    ASSUME TypeOK
    PROVE  /\ Len(jobs) \in Nat /\ current \in Nat
           /\ \A j \in 1..Len(jobs) : jobs[j] \in State
BY LenProperties, ElementOfSeq DEF TypeOK

(* What starting a call of the manager does to its thread.                  *)
LEMMA CallTyped ==
    ASSUME Typed, NEW t \in Thread, NEW to \in State \cup {"progress"},
           NEW next \in {"source", "stream", "leave", "started", "gone"}, Call(t, to, next)
    PROVE  /\ call' \in [Thread -> CallType]
           /\ back' \in [Thread -> {"source", "stream", "leave", "started", "gone"}]
           /\ pc' = [pc EXCEPT ![t] = "lookup"]
           /\ call'[t].to = to /\ back'[t] = next
           /\ \A x \in Thread \ {t} : call'[x] = call[x] /\ back'[x] = back[x]
<1>1. [NoCall EXCEPT !.to = to] \in CallType /\ [NoCall EXCEPT !.to = to].to = to
  BY DEF NoCall, CallType, State
<1>2. call \in [Thread -> CallType]
  BY DEF Typed, TypeOK, CallType
<1>3. back \in [Thread -> {"source", "stream", "leave", "started", "gone"}]
  BY DEF Typed, TypeOK
<1> QED BY <1>1, <1>2, <1>3 DEF Call, Goto

LEMMA InitTyped == Init => Typed
<1> SUFFICES ASSUME Init PROVE Typed
  OBVIOUS
<1>1. NoCall \in [to: State \cup {"progress"}, job: Nat, event: State]
  BY DEF NoCall, State
<1>2. TypeOK
  BY <1>1, EmptySeq, DownloadsAssumption DEF Init, TypeOK, GetPC, PostPC, CommandPC, State
<1>3. Calling
  BY DEF Init, Calling, InCall
<1> QED BY <1>2, <1>3 DEF Typed

(* A handler or a command that starts a call.                               *)
LEMMA StartTyped ==
    ASSUME Typed, NEW t \in Get \cup Command, NEW to \in State \cup {"progress"}, NEW next,
           Call(t, to, next),
           t \in Get => next \in {"stream", "leave"} /\ (next = "leave" => to \in Terminal),
           t \in Command => next = "gone",
           UNCHANGED <<jobs, current, view, early, body, serves>>,
           waiting' \in Seq(Get), done' \subseteq Get,
           written' \in [Get -> Nat], late' \in [Get -> Nat]
    PROVE  Typed'
<1>1. t \in Thread /\ next \in {"source", "stream", "leave", "started", "gone"}
  OBVIOUS
<1>2. /\ call' \in [Thread -> CallType]
      /\ back' \in [Thread -> {"source", "stream", "leave", "started", "gone"}]
      /\ pc' = [pc EXCEPT ![t] = "lookup"]
      /\ call'[t].to = to /\ back'[t] = next
      /\ \A x \in Thread \ {t} : call'[x] = call[x] /\ back'[x] = back[x]
  BY <1>1, CallTyped
<1>3. /\ pc' \in [Thread -> GetPC \cup PostPC \cup CommandPC]
      /\ \A d \in Get : pc'[d] \in GetPC
      /\ \A u \in Post : pc'[u] \in PostPC
      /\ \A c \in Command : pc'[c] \in CommandPC
  BY <1>1, <1>2, DownloadsAssumption DEF Typed, TypeOK, GetPC, PostPC, CommandPC, InCall
<1>4. TypeOK'
  BY <1>2, <1>3 DEF Typed, TypeOK, CallType
<1>5. Calling'
  BY <1>1, <1>2, DownloadsAssumption DEF Typed, TypeOK, Calling, InCall
<1> QED BY <1>4, <1>5 DEF Typed

(* A step that moves one thread and leaves the calls of all alone.          *)
LEMMA MoveTyped ==
    ASSUME Typed, NEW t \in Thread, NEW l, Goto(t, l),
           t \in Get => l \in GetPC, t \in Post => l \in PostPC, t \in Command => l \in CommandPC,
           l \notin InCall,
           UNCHANGED <<jobs, current, view, early, call, back, done, written, late>>,
           waiting' \in Seq(Get), body' \in [Get -> Post \cup {NoOne}],
           serves' \in [Post -> Get \cup {NoOne}]
    PROVE  Typed'
<1>1. /\ pc' \in [Thread -> GetPC \cup PostPC \cup CommandPC]
      /\ \A d \in Get : pc'[d] \in GetPC
      /\ \A u \in Post : pc'[u] \in PostPC
      /\ \A c \in Command : pc'[c] \in CommandPC
      /\ \A x \in Thread : pc'[x] \in InCall => pc'[x] = pc[x]
  BY DEF Goto, Typed, TypeOK
<1>2. TypeOK'
  BY <1>1 DEF Typed, TypeOK
<1>3. Calling'
  BY <1>1 DEF Typed, Calling
<1> QED BY <1>2, <1>3 DEF Typed

LEMMA CreateTyped ==
    ASSUME Typed, NEW t \in Get \cup Command, NEW next,
           CreateJob(t, next), t \in Get => next = "source", t \in Command => next = "started",
           UNCHANGED <<view, waiting, body, done, serves, written, late>>,
           early' \subseteq Nat
    PROVE  /\ Typed' /\ jobs' = Append(jobs, "queued") /\ Len(jobs') = Len(jobs) + 1
           /\ current' = Len(jobs) + 1 /\ jobs'[Len(jobs) + 1] = "queued"
           /\ \A j \in 1..Len(jobs) : jobs'[j] = jobs[j]
           /\ pc' = [pc EXCEPT ![t] = "export"] /\ back' = [back EXCEPT ![t] = next]
<1>0. PICK n \in Nat : n = Len(jobs) + 1
  BY JobsFacts DEF Typed
<1>1. /\ jobs' = Append(jobs, "queued") /\ "queued" \in State /\ jobs \in Seq(State)
      /\ pc' = [pc EXCEPT ![t] = "export"] /\ back' = [back EXCEPT ![t] = next]
  BY DEF CreateJob, Goto, State, Typed, TypeOK
<1>2. /\ jobs' \in Seq(State) /\ Len(jobs') = n /\ jobs'[n] = "queued"
      /\ \A j \in 1..Len(jobs) : jobs'[j] = jobs[j]
  BY <1>0, <1>1, AppendProperties
<1>3. current' = n /\ call' = [call EXCEPT ![t] = [to |-> "queued", job |-> n, event |-> "queued"]]
  BY <1>2 DEF CreateJob
<1>4. /\ pc' \in [Thread -> GetPC \cup PostPC \cup CommandPC]
      /\ \A d \in Get : pc'[d] \in GetPC
      /\ \A u \in Post : pc'[u] \in PostPC
      /\ \A c \in Command : pc'[c] \in CommandPC
  BY <1>1, DownloadsAssumption DEF Typed, TypeOK, GetPC, PostPC, CommandPC, InCall
<1>5. back' \in [Thread -> {"source", "stream", "leave", "started", "gone"}]
  BY <1>1, DownloadsAssumption DEF Typed, TypeOK
<1>6. call' \in [Thread -> [to: State \cup {"progress"}, job: Nat, event: State]]
  BY <1>0, <1>1, <1>3 DEF Typed, TypeOK
<1>7. TypeOK'
  BY <1>2, <1>3, <1>4, <1>5, <1>6 DEF Typed, TypeOK
<1>8. Calling'
  <2>1. call'[t].job = n /\ call'[t].to = "queued" /\ \A x \in Thread \ {t} : call'[x] = call[x]
    BY <1>3 DEF Typed, TypeOK
  <2>2. n \in 1..Len(jobs') /\ \A i \in 1..Len(jobs) : i \in 1..Len(jobs')
    BY <1>0, <1>2, JobsFacts DEF Typed
  <2> QED BY <1>1, <2>1, <2>2, DownloadsAssumption DEF Typed, TypeOK, Calling, InCall
<1> QED BY <1>0, <1>1, <1>2, <1>3, <1>7, <1>8 DEF Typed

(* A step of a call of the manager.                                         *)
LEMMA ManagerTyped == ASSUME Typed, NEW t \in Thread, ManagerStep(t) PROVE Typed'
<1> USE DEF managerVars, callVars, meetVars, streamVars
<1>0. /\ pc[t] \in InCall /\ t \in Get \cup Command
      /\ pc \in [Thread -> GetPC \cup PostPC \cup CommandPC]
      /\ call \in [Thread -> [to: State \cup {"progress"}, job: Nat, event: State]]
  BY DEF ManagerStep, Lookup, UpdateState, UpdateProgress, ToEvent, Emit, InCall, Typed, TypeOK,
         PostPC
<1>1. /\ Len(jobs) \in Nat /\ current = Len(jobs) /\ \A j \in 1..Len(jobs) : jobs[j] \in State
  BY JobsFacts DEF Typed, TypeOK
<1>2. back[t] \notin InCall /\ (t \in Get => back[t] \in GetPC) /\ (t \in Command => back[t] \in CommandPC)
  BY <1>0 DEF Typed, Calling, InCall, GetPC, CommandPC
<1>a. ASSUME pc' = [pc EXCEPT ![t] = back[t]], UNCHANGED <<jobs, current, early, back>>,
             view' \in State,
             UNCHANGED <<waiting, body, done, serves, written, late>>,
             call' \in [Thread -> [to: State \cup {"progress"}, job: Nat, event: State]],
             \A x \in Thread \ {t} : call'[x] = call[x]
      PROVE  Typed'
  <2>1. TypeOK'
    BY <1>0, <1>2, <1>a, DownloadsAssumption DEF Typed, TypeOK
  <2>2. Calling'
    BY <1>0, <1>2, <1>a DEF Typed, Calling
  <2> QED BY <2>1, <2>2 DEF Typed
<1>b. ASSUME NEW l \in InCall, pc' = [pc EXCEPT ![t] = l],
             jobs' \in Seq(State), Len(jobs') = Len(jobs), UNCHANGED <<current, view, early, back>>,
             UNCHANGED <<waiting, body, done, serves, written, late>>,
             call' \in [Thread -> [to: State \cup {"progress"}, job: Nat, event: State]],
             \A x \in Thread \ {t} : call'[x] = call[x],
             call'[t].to = call[t].to, call'[t].job \in 1..Len(jobs)
      PROVE  Typed'
  <2>1. TypeOK'
    BY <1>0, <1>b, DownloadsAssumption DEF Typed, TypeOK, GetPC, CommandPC
  <2>2. Calling'
    BY <1>0, <1>b DEF Typed, Calling
  <2> QED BY <2>1, <2>2 DEF Typed
<1>3. CASE Lookup(t)
  <2>1. /\ call' \in [Thread -> [to: State \cup {"progress"}, job: Nat, event: State]]
        /\ call'[t].to = call[t].to /\ call'[t].job = current
        /\ \A x \in Thread \ {t} : call'[x] = call[x]
    BY <1>0, <1>1, <1>3 DEF Lookup
  <2>2. CASE current = 0
    BY <1>3, <1>a, <2>1, <2>2 DEF Lookup, Goto, Typed, TypeOK
  <2>3. CASE current # 0
    <3>1. call'[t].job \in 1..Len(jobs)
      BY <1>1, <2>1, <2>3
    <3> QED BY <1>3, <1>b, <2>1, <2>3, <3>1 DEF Lookup, Goto, Typed, TypeOK, InCall
  <2> QED BY <2>2, <2>3
<1>4. CASE UpdateState(t) \/ UpdateProgress(t)
  <2>1. call[t].job \in 1..Len(jobs) /\ UNCHANGED <<current, view, early, call, back, waiting, body, done, serves, written, late>>
    BY <1>0, <1>4 DEF UpdateState, UpdateProgress, Typed, Calling, InCall
  <2>2. CASE Goto(t, back[t]) /\ UNCHANGED jobs
    BY <1>0, <1>a, <2>1, <2>2 DEF Goto, Typed, TypeOK
  <2>3. CASE Goto(t, "export") /\ UNCHANGED jobs
    BY <1>0, <1>b, <2>1, <2>3 DEF Goto, InCall, Typed, TypeOK
  <2>4. CASE Goto(t, "export") /\ jobs' = [jobs EXCEPT ![call[t].job] = call[t].to] /\ call[t].to # "progress"
    <3>1. jobs' \in Seq(State) /\ Len(jobs') = Len(jobs)
      BY <1>0, <1>1, <2>1, <2>4, ExceptSeq DEF Typed, TypeOK
    <3> QED BY <1>0, <1>b, <2>1, <2>4, <3>1 DEF Goto, InCall
  <2> QED BY <1>4, <2>2, <2>3, <2>4 DEF UpdateState, UpdateProgress
<1>5. CASE ToEvent(t)
  <2>1. call[t].job \in 1..Len(jobs)
    BY <1>5 DEF ToEvent, Typed, Calling, InCall
  <2>2. /\ call' \in [Thread -> [to: State \cup {"progress"}, job: Nat, event: State]]
        /\ call'[t].to = call[t].to /\ call'[t].job = call[t].job
        /\ \A x \in Thread \ {t} : call'[x] = call[x]
    BY <1>0, <1>1, <1>5, <2>1 DEF ToEvent
  <2> QED BY <1>5, <1>b, <2>1, <2>2 DEF ToEvent, Goto, InCall, Typed, TypeOK
<1>6. CASE Emit(t)
  BY <1>0, <1>6, <1>a DEF Emit, Goto
<1> QED BY <1>3, <1>4, <1>5, <1>6 DEF ManagerStep

LEMMA RemoveFacts ==
    ASSUME NEW S, NEW s \in Seq(S), NEW i \in 1..Len(s)
    PROVE  /\ RemoveAt(s, i) \in Seq(S)
           /\ Len(RemoveAt(s, i)) = Len(s) - 1
           /\ \A k \in 1..Len(s) - 1 : RemoveAt(s, i)[k] = s[IF k < i THEN k ELSE k + 1]
<1> DEFINE a == SubSeq(s, 1, i - 1)
           b == SubSeq(s, i + 1, Len(s))
<1>1. Len(s) \in Nat /\ i \in Nat /\ i >= 1 /\ i <= Len(s) /\ \A k \in 1..Len(s) : s[k] \in S
  BY LenProperties, ElementOfSeq
<1>2. a \in Seq(S) /\ Len(a) = i - 1 /\ \A k \in 1..i - 1 : a[k] = s[k]
  <2>1. i - 1 \in Int /\ \A k \in 1..i - 1 : s[k] \in S
    BY <1>1
  <2>2. /\ a \in Seq(S) /\ Len(a) = IF 1 <= i - 1 THEN (i - 1) - 1 + 1 ELSE 0
        /\ \A k \in 1..(i - 1) - 1 + 1 : a[k] = s[1 + k - 1]
    BY <2>1, SubSeqProperties
  <2> QED BY <1>1, <2>2
<1>3. b \in Seq(S) /\ Len(b) = Len(s) - i /\ \A k \in 1..Len(s) - i : b[k] = s[k + i]
  <2>1. i + 1 \in Int /\ Len(s) \in Int /\ \A k \in i + 1..Len(s) : s[k] \in S
    BY <1>1
  <2>2. /\ b \in Seq(S) /\ Len(b) = IF i + 1 <= Len(s) THEN Len(s) - (i + 1) + 1 ELSE 0
        /\ \A k \in 1..Len(s) - (i + 1) + 1 : b[k] = s[(i + 1) + k - 1]
    BY <2>1, SubSeqProperties
  <2>3. ASSUME NEW k \in 1..Len(s) - i PROVE b[k] = s[k + i]
    <3>1. k \in 1..Len(s) - (i + 1) + 1 /\ (i + 1) + k - 1 = k + i
      BY <1>1
    <3> QED BY <2>2, <3>1
  <2>4. Len(b) = Len(s) - i
    BY <1>1, <2>2
  <2> QED BY <2>2, <2>3, <2>4
<1>4. RemoveAt(s, i) = a \o b
  BY DEF RemoveAt
<1> HIDE DEF a, b
<1>5. /\ a \o b \in Seq(S) /\ Len(a \o b) = Len(a) + Len(b)
      /\ \A k \in 1..Len(a) + Len(b) : (a \o b)[k] = IF k <= Len(a) THEN a[k] ELSE b[k - Len(a)]
  BY <1>2, <1>3, ConcatProperties
<1>6. Len(a) + Len(b) = Len(s) - 1
  BY <1>1, <1>2, <1>3
<1>7. ASSUME NEW k \in 1..Len(s) - 1 PROVE (a \o b)[k] = s[IF k < i THEN k ELSE k + 1]
  <2>1. CASE k < i
    <3>1. k \in 1..i - 1 /\ k <= Len(a) /\ k \in 1..Len(a) + Len(b)
      BY <1>1, <1>2, <1>6, <2>1
    <3>2. (a \o b)[k] = a[k]
      BY <1>5, <3>1
    <3> QED BY <1>2, <2>1, <3>1, <3>2
  <2>2. CASE k >= i
    <3>1. k - Len(a) \in 1..Len(s) - i /\ ~(k <= Len(a)) /\ k \in 1..Len(a) + Len(b)
          /\ (k - Len(a)) + i = k + 1
      BY <1>1, <1>2, <1>6, <2>2
    <3>2. (a \o b)[k] = b[k - Len(a)]
      BY <1>5, <3>1
    <3>3. b[k - Len(a)] = s[k + 1]
      BY <1>3, <3>1
    <3> QED BY <1>1, <2>2, <3>2, <3>3
  <2>3. k < i \/ k >= i
    BY <1>1
  <2> QED BY <2>1, <2>2, <2>3
<1> QED BY <1>4, <1>5, <1>6, <1>7

LEMMA TypedStep == Typed /\ [Next]_vars => Typed'
<1> SUFFICES ASSUME Typed, [Next]_vars PROVE Typed'
  OBVIOUS
<1> USE DEF managerVars, callVars, meetVars, streamVars
<1>0. /\ waiting \in Seq(Get) /\ done \subseteq Get /\ early \subseteq Nat
      /\ body \in [Get -> Post \cup {NoOne}] /\ serves \in [Post -> Get \cup {NoOne}]
      /\ written \in [Get -> Nat] /\ late \in [Get -> Nat]
      /\ {"running", "completed", "failed", "cancelled", "progress"} \subseteq State \cup {"progress"}
      /\ {"completed", "failed", "cancelled"} \subseteq Terminal
  BY DEF Typed, TypeOK, State, Terminal
<1>1. ASSUME NEW t \in Thread, ManagerStep(t) PROVE Typed'
  BY <1>1, ManagerTyped
<1>2. ASSUME NEW d \in Get, Begin(d) \/ Check(d) PROVE Typed'
  BY <1>0, <1>2, MoveTyped, DownloadsAssumption DEF Begin, Check, CheckJob, GetPC, InCall
<1>3. ASSUME NEW d \in Get, Create(d) PROVE Typed'
  BY <1>0, <1>3, CreateTyped, DownloadsAssumption DEF Create
<1>4. ASSUME NEW d \in Get, Source(d) PROVE Typed'
  <2>1. CASE Call(d, "running", "stream") /\ UNCHANGED waiting
    BY <1>0, <1>4, <2>1, StartTyped, DownloadsAssumption DEF Source
  <2>2. CASE waiting' = Append(waiting, d) /\ Goto(d, "wait") /\ UNCHANGED callVars
    <3>1. waiting' \in Seq(Get)
      BY <1>0, <2>2, AppendProperties
    <3> QED BY <1>0, <1>4, <2>2, <3>1, MoveTyped, DownloadsAssumption DEF Source, GetPC, InCall
  <2> QED BY <1>4, <2>1, <2>2 DEF Source
<1>5. ASSUME NEW d \in Get, Wait(d) PROVE Typed'
  BY <1>0, <1>5, StartTyped, DownloadsAssumption DEF Wait
<1>6. ASSUME NEW d \in Get, Write(d) PROVE Typed'
  <2>1. CASE Goto(d, "broken") /\ UNCHANGED <<callVars, streamVars>>
    BY <1>0, <1>6, <2>1, MoveTyped, DownloadsAssumption DEF Write, GetPC, InCall
  <2>2. CASE /\ written' = [written EXCEPT ![d] = @ + 1]
             /\ late' = [late EXCEPT ![d] =
                           IF current # 0 /\ jobs[current] = "cancelled" THEN @ + 1 ELSE @]
             /\ Call(d, "progress", "stream")
    <3>1. written' \in [Get -> Nat] /\ late' \in [Get -> Nat]
      BY <1>0, <2>2
    <3> QED BY <1>0, <1>6, <2>2, <3>1, StartTyped, DownloadsAssumption DEF Write
  <2> QED BY <1>6, <2>1, <2>2 DEF Write
<1>7. ASSUME NEW d \in Get, Finish(d) \/ Break(d) PROVE Typed'
  <2>1. done' \subseteq Get
    BY <1>0, <1>7 DEF Finish, Break, Tell
  <2>2. /\ UNCHANGED <<managerVars, waiting, body, serves, streamVars>>
        /\ \E to \in Terminal : Call(d, to, "leave")
    BY <1>0, <1>7 DEF Finish, Break
  <2> QED BY <1>0, <2>1, <2>2, StartTyped, DownloadsAssumption DEF State
<1>8. ASSUME NEW d \in Get, Leave(d) PROVE Typed'
  <2>1. waiting' \in Seq(Get)
    BY <1>0, <1>8, RemoveFacts DEF Leave
  <2> QED BY <1>0, <1>8, <2>1, MoveTyped, DownloadsAssumption DEF Leave, GetPC, InCall
<1>9. ASSUME NEW u \in Post, Pop(u) PROVE Typed'
  <2>1. CASE waiting = <<>> /\ Goto(u, "gone") /\ UNCHANGED <<waiting, serves>>
    BY <1>0, <1>9, <2>1, MoveTyped, DownloadsAssumption DEF Pop, PostPC, InCall
  <2>2. CASE /\ waiting # <<>>
             /\ serves' = [serves EXCEPT ![u] = Head(waiting)]
             /\ waiting' = Tail(waiting)
             /\ Goto(u, "offer")
    <3>1. Head(waiting) \in Get /\ Tail(waiting) \in Seq(Get)
      BY <1>0, <2>2, HeadTailProperties
    <3>2. serves' \in [Post -> Get \cup {NoOne}]
      BY <1>0, <2>2, <3>1
    <3> QED BY <1>0, <1>9, <2>2, <3>1, <3>2, MoveTyped, DownloadsAssumption DEF Pop, PostPC, InCall
  <2> QED BY <1>9, <2>1, <2>2 DEF Pop
<1>10. ASSUME NEW u \in Post, Offer(u) PROVE Typed'
  <2>1. body' \in [Get -> Post \cup {NoOne}]
    BY <1>0, <1>10 DEF Offer
  <2> QED BY <1>0, <1>10, <2>1, MoveTyped, DownloadsAssumption DEF Offer, PostPC, InCall
<1>11. ASSUME NEW u \in Post, Await(u) \/ SenderGone(u) PROVE Typed'
  BY <1>0, <1>11, MoveTyped, DownloadsAssumption DEF Await, SenderGone, PostPC, InCall
<1>12. ASSUME NEW c \in Command, CancelTransfer(c) \/ Started(c) PROVE Typed'
  BY <1>0, <1>12, StartTyped, DownloadsAssumption DEF CancelTransfer, Started
<1>13. ASSUME NEW c \in Command, StartTransfer(c) PROVE Typed'
  BY <1>0, <1>13, MoveTyped, DownloadsAssumption DEF StartTransfer, CheckJob, CommandPC, InCall
<1>14. ASSUME NEW c \in Command, PreCreate(c) PROVE Typed'
  <2>1. current' = Len(jobs') /\ jobs' = Append(jobs, "queued") /\ jobs \in Seq(State) /\ "queued" \in State
    BY <1>14 DEF PreCreate, CreateJob, Typed, TypeOK, State
  <2>2. early' \subseteq Nat
    <3>1. jobs' \in Seq(State)
      BY <2>1, AppendProperties
    <3>2. Len(jobs') \in Nat
      BY <3>1, LenProperties
    <3> QED BY <1>0, <1>14, <2>1, <3>2 DEF PreCreate
  <2> QED BY <1>14, <2>2, CreateTyped, DownloadsAssumption DEF PreCreate
<1>15. CASE UNCHANGED vars
  BY <1>15 DEF vars, Typed, TypeOK, Calling
<1> QED BY <1>1, <1>2, <1>3, <1>4, <1>5, <1>6, <1>7, <1>8, <1>9, <1>10, <1>11, <1>12, <1>13, <1>14, <1>15
        DEF Next, GetStep, PostStep, CommandStep, Over

(* Downloads!TypeOK: every state the manager, the handlers and the commands *)
(* reach together is of its type, and current is the last object created.   *)
THEOREM TypeCorrect == Spec => []TypeOK
<1>1. Typed => TypeOK
  BY DEF Typed
<1> QED BY InitTyped, TypedStep, <1>1, PTL DEF Spec

-----------------------------------------------------------------------------
(* Steps of one thread *)

ThreadStep(t) ==
    \/ ManagerStep(t)
    \/ t \in Get /\ (Begin(t) \/ GetStep(t))
    \/ t \in Post /\ (Pop(t) \/ PostStep(t) \/ SenderGone(t))
    \/ t \in Command /\ (CancelTransfer(t) \/ StartTransfer(t) \/ CommandStep(t))

LEMMA NextCases ==
    ASSUME [Next]_vars PROVE UNCHANGED vars \/ \E t \in Thread : ThreadStep(t)
BY DEF Next, ThreadStep, Over

(* A thread moves itself only, and only a call of UpdateState or CreateJob  *)
(* changes a job: a final state stays.                                      *)
LEMMA Frame ==
    ASSUME Typed, NEW t \in Thread, ThreadStep(t)
    PROVE  /\ \A x \in Thread \ {t} : pc'[x] = pc[x] /\ call'[x] = call[x] /\ back'[x] = back[x]
           /\ Len(jobs') \in Nat /\ Len(jobs') >= Len(jobs)
           /\ \A j \in 1..Len(jobs) : jobs[j] \in Terminal => jobs'[j] = jobs[j]
<1> USE DEF managerVars, callVars, meetVars, streamVars
<1>1. /\ pc \in [Thread -> GetPC \cup PostPC \cup CommandPC]
      /\ call \in [Thread -> [to: State \cup {"progress"}, job: Nat, event: State]]
      /\ back \in [Thread -> {"source", "stream", "leave", "started", "gone"}]
      /\ Len(jobs) \in Nat /\ jobs \in Seq(State) /\ "queued" \in State
  BY LenProperties DEF Typed, TypeOK, State
<1>2. \A x \in Thread \ {t} : pc'[x] = pc[x] /\ call'[x] = call[x] /\ back'[x] = back[x]
  BY <1>1 DEF ThreadStep, ManagerStep, Lookup, UpdateState, UpdateProgress, ToEvent, Emit, Begin, GetStep,
       PostStep, CommandStep, Create, Source, Wait, Check, Write, Finish, Break, Leave, Pop, Offer, Await,
       SenderGone, CancelTransfer, StartTransfer, PreCreate, Started, CheckJob, CreateJob, Call, Goto
<1>3. \/ UNCHANGED jobs
      \/ UpdateState(t)
      \/ jobs' = Append(jobs, "queued")
  BY DEF ThreadStep, ManagerStep, Lookup, UpdateProgress, ToEvent, Emit, Begin, GetStep,
       PostStep, CommandStep, Create, Source, Wait, Check, Write, Finish, Break, Leave, Pop, Offer, Await,
       SenderGone, CancelTransfer, StartTransfer, PreCreate, Started, CheckJob, CreateJob
<1>4. CASE UNCHANGED jobs
  BY <1>1, <1>2, <1>4
<1>5. CASE UpdateState(t)
  <2>1. \/ UNCHANGED jobs
        \/ jobs[call[t].job] \notin Terminal /\ jobs' = [jobs EXCEPT ![call[t].job] = call[t].to]
    BY <1>5 DEF UpdateState
  <2>2. CASE UNCHANGED jobs
    BY <1>1, <1>2, <2>2
  <2>3. CASE jobs[call[t].job] \notin Terminal /\ jobs' = [jobs EXCEPT ![call[t].job] = call[t].to]
    <3>1. Len(jobs') = Len(jobs) /\ \A j \in 1..Len(jobs) : j # call[t].job => jobs'[j] = jobs[j]
      BY <1>1, <2>3 DEF UpdateState
    <3> QED BY <1>1, <1>2, <2>3, <3>1
  <2> QED BY <2>1, <2>2, <2>3
<1>6. CASE jobs' = Append(jobs, "queued")
  <2>1. Len(jobs') = Len(jobs) + 1 /\ \A j \in 1..Len(jobs) : jobs'[j] = jobs[j]
    BY <1>1, <1>6, AppendProperties
  <2> QED BY <1>1, <1>2, <2>1
<1> QED BY <1>3, <1>4, <1>5, <1>6

-----------------------------------------------------------------------------
(* The job of the id settles *)

(* A handler that will still close the newest object: it has not begun the  *)
(* call it leaves after, has not looked the job up in it, or has found that *)
(* object and not yet changed it.                                           *)
Caring(d) ==
    \/ pc[d] \in {"source", "wait", "stream", "write", "broken"}
    \/ pc[d] \in InCall /\ back[d] \in {"source", "stream"}
    \/ pc[d] = "lookup" /\ back[d] = "leave"
    \/ pc[d] = "update" /\ back[d] = "leave" /\ call[d].job = current

SettleInv ==
    \/ current \in {0} \cup early
    \/ jobs[current] \in Terminal
    \/ \E d \in Get : Caring(d)

(* What a handler that cares does: it goes on caring, or the newest object  *)
(* is over.                                                                 *)
LEMMA CaringStep ==
    ASSUME Typed, NEW d \in Get, Caring(d), ThreadStep(d), UNCHANGED current, current # 0
    PROVE  Caring(d)' \/ jobs'[current] \in Terminal
<1> USE DEF managerVars, callVars, meetVars, streamVars
<1>1. /\ pc \in [Thread -> GetPC \cup PostPC \cup CommandPC]
      /\ call \in [Thread -> [to: State \cup {"progress"}, job: Nat, event: State]]
      /\ back \in [Thread -> {"source", "stream", "leave", "started", "gone"}]
      /\ Len(jobs) \in Nat /\ jobs \in Seq(State) /\ current = Len(jobs) /\ d \in Thread
  BY LenProperties DEF Typed, TypeOK
<1>2. pc[d] \in InCall /\ back[d] = "leave" => call[d].to \in Terminal
  BY DEF Typed, Calling
<1>3. CASE Lookup(d)
  BY <1>1, <1>3 DEF Lookup, Goto, Caring, InCall
<1>4. CASE UpdateState(d)
  <2>1. CASE back[d] # "leave"
    BY <1>1, <1>4, <2>1 DEF UpdateState, Goto, Caring, InCall
  <2>2. CASE back[d] = "leave"
    <3>1. call[d].job = current /\ call[d].to \in Terminal
      BY <1>2, <1>4, <2>2 DEF UpdateState, Caring, InCall
    <3>2. CASE UNCHANGED jobs /\ jobs[current] \in Terminal \cup {call[d].to}
      BY <3>1, <3>2
    <3>3. CASE jobs' = [jobs EXCEPT ![current] = call[d].to]
      BY <1>1, <3>1, <3>3
    <3> QED BY <1>4, <3>1, <3>2, <3>3 DEF UpdateState
  <2> QED BY <2>1, <2>2
<1>5. CASE UpdateProgress(d)
  <2>1. back[d] # "leave"
    BY <1>2, <1>5 DEF UpdateProgress, InCall, Terminal
  <2> QED BY <1>1, <1>5, <2>1 DEF UpdateProgress, Goto, Caring, InCall
<1>6. CASE ToEvent(d) \/ Emit(d)
  BY <1>1, <1>6 DEF ToEvent, Emit, Goto, Caring, InCall
<1>7. CASE Begin(d) \/ Create(d) \/ Leave(d)
  BY <1>7 DEF Begin, Create, Leave, Caring, InCall
<1>8. CASE Source(d) \/ Wait(d) \/ Finish(d) \/ Break(d)
  BY <1>1, <1>8 DEF Source, Wait, Finish, Break, Call, Goto, Caring, InCall
<1>9. CASE Check(d) \/ Write(d)
  BY <1>1, <1>9 DEF Check, Write, CheckJob, Call, Goto, Caring, InCall
<1> QED BY <1>3, <1>4, <1>5, <1>6, <1>7, <1>8, <1>9, DownloadsAssumption DEF ThreadStep, ManagerStep, GetStep

LEMMA SettleStep == Typed /\ SettleInv /\ [Next]_vars => SettleInv'
<1> SUFFICES ASSUME Typed, SettleInv, [Next]_vars PROVE SettleInv'
  OBVIOUS
<1> USE DEF managerVars, callVars, meetVars, streamVars
<1>1. CASE UNCHANGED vars
  BY <1>1 DEF vars, SettleInv, Caring
<1>2. ASSUME NEW t \in Thread, ThreadStep(t) PROVE SettleInv'
  <2>1. CASE t \in Get /\ Create(t)
    <3>1. pc'[t] = "export" /\ back'[t] = "source"
      BY <2>1 DEF Create, CreateJob, Goto, Typed, TypeOK
    <3>2. Caring(t)'
      BY <3>1 DEF Caring, InCall
    <3> QED BY <2>1, <3>2 DEF SettleInv
  <2>2. CASE t \in Command /\ PreCreate(t)
    BY <2>2 DEF PreCreate, SettleInv
  <2>3. CASE UNCHANGED <<current, early>>
    <3>1. CASE current \in {0} \cup early
      BY <2>3, <3>1 DEF SettleInv
    <3>2. CASE jobs[current] \in Terminal /\ current # 0
      <4>1. current \in 1..Len(jobs)
        BY <3>2, JobsFacts DEF Typed, TypeOK
      <4> QED BY <1>2, <2>3, <3>2, <4>1, Frame DEF SettleInv
    <3>3. ASSUME NEW d \in Get, Caring(d), current # 0 PROVE SettleInv'
      <4>1. CASE t = d
        BY <1>2, <2>3, <3>3, <4>1, CaringStep DEF SettleInv
      <4>2. CASE t # d
        <5>1. pc'[d] = pc[d] /\ call'[d] = call[d] /\ back'[d] = back[d]
          BY <1>2, <4>2, Frame
        <5>2. Caring(d)'
          BY <2>3, <3>3, <5>1 DEF Caring
        <5> QED BY <5>2 DEF SettleInv
      <4> QED BY <4>1, <4>2
    <3> QED BY <3>1, <3>2, <3>3 DEF SettleInv
  <2>4. UNCHANGED <<current, early>> \/ (t \in Get /\ Create(t)) \/ (t \in Command /\ PreCreate(t))
    BY <1>2 DEF ThreadStep, ManagerStep, Lookup, UpdateState, UpdateProgress, ToEvent, Emit, Begin, GetStep,
       PostStep, CommandStep, Source, Wait, Check, Write, Finish, Break, Leave, Pop, Offer, Await,
       SenderGone, CancelTransfer, StartTransfer, Started, CheckJob
  <2> QED BY <2>1, <2>2, <2>3, <2>4
<1> QED BY <1>1, <1>2, NextCases

(* Downloads!JobSettles: when every request and every command is over, the  *)
(* job that stands for the id is completed, failed or cancelled, unless a   *)
(* start_transfer created it.                                               *)
THEOREM JobsSettle == Spec => []JobSettles
<1>1. Init => SettleInv
  BY DEF Init, SettleInv
<1>2. Typed /\ SettleInv => JobSettles
  BY DEF SettleInv, JobSettles, AllOver, Caring, InCall
<1> QED BY InitTyped, TypedStep, SettleStep, <1>1, <1>2, PTL DEF Spec

-----------------------------------------------------------------------------
(* A cancelled stream stops *)

Cancelled(n) == {j \in 1..n : jobs[j] = "cancelled"}

(* A handler that has passed the check and not yet written found the newest *)
(* object, if any, not cancelled: a chunk is left for it to be late with.   *)
LateInv ==
    \A d \in Get :
       /\ late[d] <= Cardinality(Cancelled(Len(jobs)))
       /\ pc[d] = "write" => late[d] <= Cardinality(Cancelled(Len(jobs) - 1))

LEMMA CancelledFinite ==
    ASSUME Typed, NEW n \in Int
    PROVE  IsFiniteSet(Cancelled(n)) /\ Cardinality(Cancelled(n)) \in Nat
<1>1. IsFiniteSet(1..n)
  BY FS_Interval
<1>2. Cancelled(n) \subseteq 1..n
  BY DEF Cancelled
<1> QED BY <1>1, <1>2, FS_Subset, FS_CardinalityType

(* No object is ever taken back from the cancelled ones.                    *)
LEMMA CancelledGrow ==
    ASSUME Typed, Typed', NEW t \in Thread, ThreadStep(t)
    PROVE  /\ Cardinality(Cancelled(Len(jobs))) <= Cardinality(Cancelled(Len(jobs))')
           /\ Cardinality(Cancelled(Len(jobs) - 1)) <= Cardinality(Cancelled(Len(jobs) - 1)')
<1>1. /\ Len(jobs) \in Nat /\ Len(jobs') \in Nat /\ Len(jobs') >= Len(jobs)
      /\ \A j \in 1..Len(jobs) : jobs[j] = "cancelled" => jobs'[j] = "cancelled"
  BY JobsFacts, Frame DEF Typed, Terminal
<1>2. ASSUME NEW m \in Int, NEW n \in Int, m <= n, m <= Len(jobs)
      PROVE  Cardinality(Cancelled(m)) <= Cardinality({j \in 1..n : jobs'[j] = "cancelled"})
  <2>1. Cancelled(m) \subseteq {j \in 1..n : jobs'[j] = "cancelled"}
    BY <1>1, <1>2 DEF Cancelled
  <2>2. IsFiniteSet({j \in 1..n : jobs'[j] = "cancelled"})
    <3>1. IsFiniteSet(1..n) /\ {j \in 1..n : jobs'[j] = "cancelled"} \subseteq 1..n
      BY FS_Interval
    <3> QED BY <3>1, FS_Subset
  <2> QED BY <2>1, <2>2, FS_Subset
<1>3. /\ Cancelled(Len(jobs))' = {j \in 1..Len(jobs') : jobs'[j] = "cancelled"}
      /\ Cancelled(Len(jobs) - 1)' = {j \in 1..Len(jobs') - 1 : jobs'[j] = "cancelled"}
  BY DEF Cancelled
<1>4. Cardinality(Cancelled(Len(jobs))) <= Cardinality({j \in 1..Len(jobs') : jobs'[j] = "cancelled"})
  BY <1>1, <1>2
<1>5. Cardinality(Cancelled(Len(jobs) - 1)) <= Cardinality({j \in 1..Len(jobs') - 1 : jobs'[j] = "cancelled"})
  BY <1>1, <1>2
<1> QED BY <1>3, <1>4, <1>5

LEMMA LateStep == Typed /\ LateInv /\ [Next]_vars => LateInv'
<1> SUFFICES ASSUME Typed, LateInv, [Next]_vars PROVE LateInv'
  OBVIOUS
<1> USE DEF managerVars, callVars, meetVars, streamVars
<1>0. Typed'
  BY TypedStep
<1>1. CASE UNCHANGED vars
  BY <1>1 DEF vars, LateInv, Cancelled
<1>2. ASSUME NEW t \in Thread, ThreadStep(t) PROVE LateInv'
  <2>1. /\ Len(jobs) \in Nat /\ current = Len(jobs) /\ late \in [Get -> Nat]
        /\ pc \in [Thread -> GetPC \cup PostPC \cup CommandPC]
        /\ back \in [Thread -> {"source", "stream", "leave", "started", "gone"}]
    BY JobsFacts DEF Typed, TypeOK
  <2> DEFINE all == Cardinality(Cancelled(Len(jobs)))
             old == Cardinality(Cancelled(Len(jobs) - 1))
  <2>2. all \in Nat /\ old \in Nat
    <3>1. Len(jobs) \in Int /\ Len(jobs) - 1 \in Int
      BY <2>1
    <3> QED BY <3>1, CancelledFinite
  <2>3. PICK a \in Nat, o \in Nat : a = all' /\ o = old' /\ all <= a /\ old <= o
    <3>1. Len(jobs') \in Int /\ Len(jobs') - 1 \in Int
      BY <1>2, Frame
    <3>2. Cardinality(Cancelled(Len(jobs))') \in Nat /\ Cardinality(Cancelled(Len(jobs) - 1)') \in Nat
      <4>1. ASSUME NEW n \in Int PROVE Cardinality({j \in 1..n : jobs'[j] = "cancelled"}) \in Nat
        <5>1. IsFiniteSet(1..n) /\ {j \in 1..n : jobs'[j] = "cancelled"} \subseteq 1..n
          BY FS_Interval
        <5> QED BY <5>1, FS_Subset, FS_CardinalityType
      <4>2. /\ Cancelled(Len(jobs))' = {j \in 1..Len(jobs') : jobs'[j] = "cancelled"}
            /\ Cancelled(Len(jobs) - 1)' = {j \in 1..Len(jobs') - 1 : jobs'[j] = "cancelled"}
        BY DEF Cancelled
      <4> QED BY <3>1, <4>1, <4>2
    <3> QED BY <1>0, <1>2, <3>2, CancelledGrow
  <2>4. \A d \in Get : late[d] \in Nat /\ late[d] <= all /\ (pc[d] = "write" => late[d] <= old)
    BY <2>1 DEF LateInv
  <2>w. \/ current # 0 /\ jobs[current] = "cancelled" /\ all = old + 1
        \/ ~(current # 0 /\ jobs[current] = "cancelled") /\ all = old
    <3>1. CASE current # 0 /\ jobs[current] = "cancelled"
      <4>1. Cancelled(Len(jobs)) = Cancelled(Len(jobs) - 1) \cup {Len(jobs)}
        BY <2>1, <3>1 DEF Cancelled
      <4>2. Len(jobs) \notin Cancelled(Len(jobs) - 1)
        BY <2>1 DEF Cancelled
      <4>3. IsFiniteSet(Cancelled(Len(jobs) - 1))
        BY <2>1, CancelledFinite
      <4> QED BY <3>1, <4>1, <4>2, <4>3, FS_AddElement
    <3>2. CASE ~(current # 0 /\ jobs[current] = "cancelled")
      <4>1. Cancelled(Len(jobs)) = Cancelled(Len(jobs) - 1)
        BY <2>1, <3>2 DEF Cancelled
      <4> QED BY <3>2, <4>1
    <3> QED BY <3>1, <3>2
  <2> SUFFICES ASSUME NEW d \in Get
               PROVE  late'[d] <= a /\ (pc'[d] = "write" => late'[d] <= o)
    BY <2>3 DEF LateInv
  <2> HIDE DEF all, old
  <2>5. CASE late'[d] = late[d] /\ (pc'[d] = "write" => pc[d] = "write")
    BY <2>2, <2>3, <2>4, <2>5
  <2>6. CASE t = d /\ Check(d)
    <3>1. /\ late'[d] = late[d] /\ jobs' = jobs
          /\ pc'[d] = "write" => ~(current # 0 /\ jobs[current] = "cancelled")
      BY <2>1, <2>6, DownloadsAssumption DEF Check, Goto
    <3> QED BY <2>2, <2>3, <2>4, <2>w, <3>1
  <2>7. CASE t = d /\ Write(d)
    <3>1. pc[d] = "write" /\ pc'[d] # "write"
      BY <2>1, <2>7 DEF Write, Call, Goto
    <3>2. \/ late'[d] = late[d]
          \/ /\ late'[d] = late[d] + 1
             /\ current # 0 /\ jobs[current] = "cancelled"
      BY <2>1, <2>7 DEF Write
    <3> QED BY <2>2, <2>3, <2>4, <2>w, <3>1, <3>2
  <2>8. CASE t # d
    <3>1. late'[d] = late[d]
      BY <1>2, <2>1, <2>8 DEF ThreadStep, ManagerStep, Lookup, UpdateState, UpdateProgress, ToEvent, Emit,
         Begin, GetStep, PostStep, CommandStep, Create, Source, Wait, Check, Write, Finish, Break, Leave, Pop,
         Offer, Await, SenderGone, CancelTransfer, StartTransfer, PreCreate, Started, CheckJob
    <3>2. pc'[d] = pc[d]
      BY <1>2, <2>8, Frame
    <3> QED BY <2>5, <3>1, <3>2
  <2>9. CASE t = d /\ ~Check(d) /\ ~Write(d)
    <3>1. late' = late
      BY <1>2, <2>9, DownloadsAssumption DEF ThreadStep, ManagerStep, Lookup, UpdateState, UpdateProgress,
         ToEvent, Emit, Begin, GetStep, Create, Source, Wait, Finish, Break, Leave, CheckJob
    <3>2. pc'[d] # "write"
      BY <1>2, <2>1, <2>9, DownloadsAssumption DEF ThreadStep, ManagerStep, Lookup, UpdateState, UpdateProgress,
         ToEvent, Emit, Begin, GetStep, Create, Source, Wait, Finish, Break, Leave, CheckJob, CreateJob, Call, Goto
    <3> QED BY <2>5, <3>1, <3>2
  <2> QED BY <2>6, <2>7, <2>8, <2>9
<1> QED BY <1>1, <1>2, NextCases

(* Downloads!CancelStops: after a cancel at most one more chunk goes out,   *)
(* one for each object that was cancelled.                                  *)
THEOREM CancelsStop == Spec => []CancelStops
<1>1. Init => LateInv
  <2> SUFFICES ASSUME Init PROVE LateInv
    OBVIOUS
  <2>1. Typed /\ Len(jobs) \in Int
    BY InitTyped, JobsFacts DEF Typed
  <2>2. Cardinality(Cancelled(Len(jobs))) \in Nat
    BY <2>1, CancelledFinite
  <2> QED BY <2>2 DEF Init, LateInv
<1>2. LateInv => CancelStops
  BY DEF LateInv, CancelStops, Cancelled
<1> QED BY InitTyped, TypedStep, LateStep, <1>1, <1>2, PTL DEF Spec

-----------------------------------------------------------------------------
(* The rendezvous *)

(* A handler that has not yet queued its rendezvous.                        *)
Before(d) ==
    \/ pc[d] \in {"idle", "create", "source"}
    \/ pc[d] \in InCall /\ back[d] = "source"

Queued(d) == \E i \in 1..Len(waiting) : waiting[i] = d

(* A rendezvous is queued once, by a handler that waits or leaves, and no   *)
(* longer once it is taken; it is taken by one sender, who offers its body  *)
(* there and nowhere else.                                                  *)
MeetInv ==
    /\ \A d \in Get : Before(d) => ~Queued(d) /\ \A u \in Post : serves[u] # d
    /\ \A d \in Get : pc[d] = "gone" => ~Queued(d)
    /\ \A d \in Get : Queued(d) => \A u \in Post : serves[u] # d
    /\ \A i, k \in 1..Len(waiting) : waiting[i] = waiting[k] => i = k
    /\ \A u, v \in Post : serves[u] # NoOne /\ serves[u] = serves[v] => u = v
    /\ \A d \in Get : body[d] # NoOne => serves[body[d]] = d
    /\ \A u \in Post : (pc[u] = "idle" => serves[u] = NoOne)
                          /\ (pc[u] = "offer" => serves[u] # NoOne)

(* A step that touches no rendezvous.                                       *)
LEMMA QuietStep ==
    ASSUME MeetInv, UNCHANGED <<waiting, body, serves>>,
           \A d \in Get : Before(d)' => Before(d),
           \A d \in Get : pc'[d] = "gone" => pc[d] = "gone",
           \A u \in Post : pc'[u] \in {"idle", "offer"} => pc'[u] = pc[u]
    PROVE  MeetInv'
<1>1. \A d \in Get : Queued(d)' <=> Queued(d)
  BY DEF Queued
<1> QED BY <1>1 DEF MeetInv

LEMMA MeetStep == Typed /\ MeetInv /\ [Next]_vars => MeetInv'
<1> SUFFICES ASSUME Typed, MeetInv, [Next]_vars PROVE MeetInv'
  OBVIOUS
<1> USE DEF managerVars, callVars, meetVars, streamVars
<1>0. /\ waiting \in Seq(Get) /\ Len(waiting) \in Nat /\ \A i \in 1..Len(waiting) : waiting[i] \in Get
      /\ pc \in [Thread -> GetPC \cup PostPC \cup CommandPC]
      /\ back \in [Thread -> {"source", "stream", "leave", "started", "gone"}]
      /\ body \in [Get -> Post \cup {NoOne}] /\ serves \in [Post -> Get \cup {NoOne}]
      /\ \A u \in Post : pc[u] \in PostPC
      /\ \A d \in Get : pc[d] \in InCall => back[d] \in {"source", "stream", "leave"}
  BY LenProperties, ElementOfSeq DEF Typed, TypeOK, Calling
<1>1. CASE UNCHANGED vars
  BY <1>1, QuietStep DEF vars, Before
<1>2. ASSUME NEW t \in Thread, ThreadStep(t) PROVE MeetInv'
  <2>0. \A x \in Thread \ {t} : pc'[x] = pc[x] /\ back'[x] = back[x]
    BY <1>2, Frame
  <2>1. CASE UNCHANGED <<waiting, body, serves>> /\ t \in Get /\ ~Leave(t)
    <3>1. pc'[t] # "gone" /\ (Before(t)' => Before(t))
      BY <1>0, <1>2, <2>1, DownloadsAssumption DEF ThreadStep, ManagerStep, Lookup, UpdateState,
         UpdateProgress, ToEvent, Emit, Begin, GetStep, Create, Source, Wait, Check, Write, Finish, Break,
         CheckJob, CreateJob, Call, Goto, Before, InCall
    <3>2. \A d \in Get : Before(d)' => Before(d)
      BY <2>0, <3>1 DEF Before
    <3>3. \A d \in Get : pc'[d] = "gone" => pc[d] = "gone"
      BY <2>0, <3>1
    <3>4. \A u \in Post : pc'[u] = pc[u]
      BY <2>0, <2>1, DownloadsAssumption
    <3> QED BY <2>1, <3>2, <3>3, <3>4, QuietStep
  <2>2. CASE t \in Command
    <3>1. UNCHANGED <<waiting, body, serves>>
      BY <1>2, <2>2, DownloadsAssumption DEF ThreadStep, ManagerStep, Lookup, UpdateState,
         UpdateProgress, ToEvent, Emit, CancelTransfer, StartTransfer, CommandStep, PreCreate, Started, CheckJob
    <3>2. \A x \in Get \cup Post : pc'[x] = pc[x] /\ back'[x] = back[x]
      BY <2>0, <2>2, DownloadsAssumption
    <3>3. \A d \in Get : Before(d)' => Before(d)
      BY <3>2 DEF Before
    <3> QED BY <3>1, <3>2, <3>3, QuietStep
  <2>3. CASE t \in Post /\ ~Pop(t) /\ ~Offer(t)
    <3>1. pc[t] \notin InCall
      BY <1>0, <2>3 DEF PostPC, InCall
    <3>2. UNCHANGED <<waiting, body, serves>> /\ pc'[t] = "gone"
      BY <1>0, <1>2, <2>3, <3>1, DownloadsAssumption DEF ThreadStep, ManagerStep, Lookup, UpdateState,
         UpdateProgress, ToEvent, Emit, PostStep, Await, SenderGone, Goto, InCall
    <3>3. \A x \in Get : pc'[x] = pc[x] /\ back'[x] = back[x]
      BY <2>0, <2>3, DownloadsAssumption
    <3>4. \A d \in Get : Before(d)' => Before(d)
      BY <3>3 DEF Before
    <3>5. \A u \in Post : pc'[u] \in {"idle", "offer"} => pc'[u] = pc[u]
      BY <2>0, <3>2
    <3> QED BY <3>2, <3>3, <3>4, <3>5, QuietStep
  <2>4. CASE t \in Get /\ Source(t) /\ waiting' = Append(waiting, t) /\ Goto(t, "wait")
    <3>1. Before(t) /\ pc'[t] = "wait" /\ UNCHANGED <<body, serves>>
      BY <1>0, <2>4 DEF Source, Goto, Before
    <3>2. ~Queued(t) /\ \A u \in Post : serves[u] # t
      BY <2>4, <3>1 DEF MeetInv
    <3>3. PICK n \in Nat : n = Len(waiting) + 1
      BY <1>0
    <3>4. /\ Len(waiting') = n /\ waiting'[n] = t
          /\ \A i \in 1..Len(waiting) : waiting'[i] = waiting[i]
      BY <1>0, <2>4, <3>3, AppendProperties
    <3>5. \A d \in Get : Queued(d)' <=> Queued(d) \/ d = t
      BY <1>0, <3>3, <3>4 DEF Queued
    <3>6. \A i, k \in 1..Len(waiting') : waiting'[i] = waiting'[k] => i = k
      <4>1. \A i \in 1..n : i = n \/ i \in 1..Len(waiting)
        BY <1>0, <3>3
      <4>2. \A i \in 1..Len(waiting) : waiting[i] # t
        BY <3>2 DEF Queued
      <4> QED BY <3>4, <4>1, <4>2 DEF MeetInv
    <3>7. \A d \in Get : Before(d)' => Before(d) /\ d # t
      BY <2>0, <3>1 DEF Before, InCall
    <3>8. \A u \in Post : pc'[u] = pc[u]
      BY <2>0, <2>4, DownloadsAssumption
    <3>9. \A d \in Get : pc'[d] = "gone" => pc[d] = "gone" /\ d # t
      BY <2>0, <3>1
    <3> QED BY <3>1, <3>2, <3>5, <3>6, <3>7, <3>8, <3>9 DEF MeetInv
  <2>5. CASE t \in Get /\ Leave(t)
    <3>1. pc'[t] = "gone" /\ back'[t] = back[t] /\ UNCHANGED <<body, serves>>
      BY <1>0, <2>5 DEF Leave, Goto
    <3>2. \A d \in Get : Before(d)' => Before(d)
      BY <2>0, <3>1 DEF Before, InCall
    <3>3. \A u \in Post : pc'[u] = pc[u]
      BY <2>0, <2>5, DownloadsAssumption
    <3>4. CASE ~Queued(t) /\ UNCHANGED waiting
      <4>1. \A d \in Get : Queued(d)' <=> Queued(d)
        BY <3>4 DEF Queued
      <4> QED BY <2>0, <3>1, <3>2, <3>3, <3>4, <4>1 DEF MeetInv
    <3>5. ASSUME NEW i \in 1..Len(waiting), waiting[i] = t, waiting' = RemoveAt(waiting, i) PROVE MeetInv'
      <4>1. /\ Len(waiting') = Len(waiting) - 1
            /\ \A k \in 1..Len(waiting) - 1 : waiting'[k] = waiting[IF k < i THEN k ELSE k + 1]
        BY <1>0, <3>5, RemoveFacts
      <4>2. ASSUME NEW k \in 1..Len(waiting')
            PROVE  /\ (IF k < i THEN k ELSE k + 1) \in 1..Len(waiting)
                   /\ (IF k < i THEN k ELSE k + 1) # i
                   /\ waiting'[k] = waiting[IF k < i THEN k ELSE k + 1]
        BY <1>0, <4>1
      <4>3. \A d \in Get : Queued(d)' => Queued(d) /\ d # t
        BY <3>5, <4>2 DEF Queued, MeetInv
      <4>4. \A k, l \in 1..Len(waiting') : waiting'[k] = waiting'[l] => k = l
        <5> SUFFICES ASSUME NEW k \in 1..Len(waiting'), NEW l \in 1..Len(waiting'), waiting'[k] = waiting'[l]
                     PROVE  k = l
          OBVIOUS
        <5>1. PICK m \in 1..Len(waiting) : m = IF k < i THEN k ELSE k + 1
          BY <4>2
        <5>2. PICK n \in 1..Len(waiting) : n = IF l < i THEN l ELSE l + 1
          BY <4>2
        <5>3. waiting'[k] = waiting[m] /\ waiting'[l] = waiting[n]
          BY <4>2, <5>1, <5>2
        <5>4. m = n
          BY <5>3 DEF MeetInv
        <5> QED BY <5>1, <5>2, <5>4, <1>0, <4>1
      <4> QED BY <2>0, <3>1, <3>2, <3>3, <4>3, <4>4 DEF MeetInv
    <3>6. \/ ~Queued(t) /\ UNCHANGED waiting
          \/ \E i \in 1..Len(waiting) : waiting[i] = t /\ waiting' = RemoveAt(waiting, i)
      BY <2>5 DEF Leave, Queued
    <3> QED BY <3>4, <3>5, <3>6
  <2>6. CASE t \in Post /\ Pop(t)
    <3>1. /\ pc[t] = "idle" /\ serves[t] = NoOne /\ UNCHANGED body
          /\ \A x \in Get : pc'[x] = pc[x] /\ back'[x] = back[x]
      BY <2>0, <2>6, DownloadsAssumption DEF Pop, MeetInv
    <3>2. \A d \in Get : Before(d)' => Before(d)
      BY <3>1 DEF Before
    <3>3. CASE waiting = <<>> /\ Goto(t, "gone") /\ UNCHANGED <<waiting, serves>>
      <4>1. pc'[t] = "gone"
        BY <1>0, <3>3 DEF Goto
      <4>2. \A u \in Post : pc'[u] \in {"idle", "offer"} => pc'[u] = pc[u]
        BY <2>0, <4>1
      <4> QED BY <3>1, <3>2, <3>3, <4>2, QuietStep
    <3>4. CASE /\ waiting # <<>>
               /\ serves' = [serves EXCEPT ![t] = Head(waiting)]
               /\ waiting' = Tail(waiting)
               /\ Goto(t, "offer")
      <4>1. /\ Head(waiting) = waiting[1] /\ 1 \in 1..Len(waiting)
            /\ Len(waiting') = Len(waiting) - 1
            /\ \A k \in 1..Len(waiting') : waiting'[k] = waiting[k + 1]
        BY <1>0, <3>4, HeadTailProperties, EmptySeq
      <4>2. ASSUME NEW k \in 1..Len(waiting')
            PROVE  k + 1 \in 1..Len(waiting) /\ k + 1 # 1 /\ waiting'[k] = waiting[k + 1]
        BY <1>0, <4>1
      <4>3. PICK h \in Get : h = Head(waiting)
        BY <1>0, <4>1
      <4>4. Queued(h) /\ ~Before(h) /\ pc[h] # "gone" /\ \A u \in Post : serves[u] # h
        BY <4>1, <4>3 DEF Queued, MeetInv
      <4>5. \A d \in Get : Queued(d)' => Queued(d) /\ d # h
        BY <4>1, <4>2, <4>3 DEF Queued, MeetInv
      <4>6. \A k, l \in 1..Len(waiting') : waiting'[k] = waiting'[l] => k = l
        <5> SUFFICES ASSUME NEW k \in 1..Len(waiting'), NEW l \in 1..Len(waiting'), waiting'[k] = waiting'[l]
                     PROVE  k = l
          OBVIOUS
        <5>1. k + 1 = l + 1
          BY <4>2 DEF MeetInv
        <5> QED BY <5>1
      <4>7. /\ serves'[t] = h /\ pc'[t] = "offer" /\ h # NoOne
            /\ \A u \in Post \ {t} : serves'[u] = serves[u] /\ pc'[u] = pc[u]
        BY <1>0, <2>0, <2>6, <3>4, <4>3, DownloadsAssumption DEF Goto
      <4>8. \A d \in Get : body'[d] # NoOne => serves'[body'[d]] = d
        <5> SUFFICES ASSUME NEW d \in Get, body[d] # NoOne PROVE serves'[body[d]] = d
          BY <3>1
        <5>1. body[d] \in Post /\ serves[body[d]] = d
          BY <1>0 DEF MeetInv
        <5>2. body[d] # t
          BY <3>1, <5>1, DownloadsAssumption
        <5> QED BY <4>7, <5>1, <5>2
      <4>9. \A u, v \in Post : serves'[u] # NoOne /\ serves'[u] = serves'[v] => u = v
        BY <4>4, <4>7 DEF MeetInv
      <4> QED BY <3>1, <3>2, <4>4, <4>5, <4>6, <4>7, <4>8, <4>9 DEF MeetInv
    <3> QED BY <2>6, <3>3, <3>4 DEF Pop
  <2>7. CASE t \in Post /\ Offer(t)
    <3>1. PICK h \in Get : h = serves[t]
      BY <1>0, <2>7 DEF Offer, MeetInv
    <3>2. /\ UNCHANGED <<waiting, serves>> /\ pc'[t] = "await"
          /\ body'[h] = t /\ \A d \in Get \ {h} : body'[d] = body[d]
          /\ \A x \in Get : pc'[x] = pc[x] /\ back'[x] = back[x]
      BY <1>0, <2>0, <2>7, <3>1, DownloadsAssumption DEF Offer, Goto
    <3>3. \A d \in Get : (Before(d)' <=> Before(d)) /\ (Queued(d)' <=> Queued(d))
      BY <3>2 DEF Before, Queued
    <3>4. \A u \in Post : pc'[u] \in {"idle", "offer"} => pc'[u] = pc[u]
      BY <2>0, <3>2
    <3>5. \A d \in Get : body'[d] # NoOne => serves'[body'[d]] = d
      BY <2>7, <3>1, <3>2 DEF MeetInv
    <3> QED BY <3>2, <3>3, <3>4, <3>5 DEF MeetInv
  <2>8. t \in Get => \/ UNCHANGED <<waiting, body, serves>> /\ ~Leave(t)
                     \/ Leave(t)
                     \/ Source(t) /\ waiting' = Append(waiting, t) /\ Goto(t, "wait")
    BY <1>2, DownloadsAssumption DEF ThreadStep, ManagerStep, Lookup, UpdateState, UpdateProgress,
       ToEvent, Emit, Begin, GetStep, Create, Source, Wait, Check, Write, Finish, Break, CheckJob
  <2> QED BY <2>1, <2>2, <2>3, <2>4, <2>5, <2>6, <2>7, <2>8
<1> QED BY <1>1, <1>2, NextCases

LEMMA InitMeets == Init => MeetInv
<1> SUFFICES ASSUME Init PROVE MeetInv
  OBVIOUS
<1>1. waiting = <<>> /\ Len(waiting) = 0 /\ 1..0 = {}
  BY EmptySeq DEF Init
<1>2. \A d \in Get : body[d] = NoOne
  BY DEF Init
<1>3. \A u \in Post : serves[u] = NoOne /\ pc[u] = "idle" /\ \A d \in Get : d # NoOne
  BY DownloadsAssumption DEF Init
<1> QED BY <1>1, <1>2, <1>3 DEF MeetInv, Queued

(* Downloads!OneBody: no two senders feed one request, and the body that a  *)
(* request reads is that of the sender that took its rendezvous.            *)
THEOREM OneBodyEach == Spec => []OneBody
<1>1. MeetInv => OneBody
  BY DEF MeetInv, OneBody
<1> QED BY InitTyped, TypedStep, InitMeets, MeetStep, <1>1, PTL DEF Spec

(* Downloads!RendezvousLive: whatever a sender can take belongs to a        *)
(* handler that has not returned, and nobody else has it or will get it.    *)
THEOREM RendezvousStaysLive == Spec => []RendezvousLive
<1>1. Typed /\ MeetInv => RendezvousLive
  <2> SUFFICES ASSUME Typed, MeetInv PROVE RendezvousLive
    OBVIOUS
  <2>1. \A i \in 1..Len(waiting) : waiting[i] \in Get
    BY ElementOfSeq DEF Typed, TypeOK
  <2> QED BY <2>1 DEF MeetInv, Queued, RendezvousLive
<1> QED BY InitTyped, TypedStep, InitMeets, MeetStep, <1>1, PTL DEF Spec

-----------------------------------------------------------------------------
(***************************************************************************)
(* The bandwidth scheduler                                                 *)
(*                                                                         *)
(* A transfer beyond the free quota is held to the degraded cap, for any   *)
(* number of streams and files, any caps, limit and measurements, until a  *)
(* device asks for a file it is being sent (twice).  How the shares are    *)
(* computed does not matter to it: the last word is Clamped's.             *)
(***************************************************************************)
Running(s) == stream[s].pc # "idle"

\* The tables' types.  Nothing is said of the rates, which are sums over all
\* jobs: whatever they were so far is some set.
Job == [unrestricted : BOOLEAN, rateCap : Nat, probing : {"none", "warm", "on", "done"},
        capacity : Nat]
Stream(P) == [pc : {"idle", "copy", "ask"}, name : Names, full : BOOLEAN, pace : P]
Shaped ==
  /\ activeJobs \in [Names -> Job]
  /\ \E P : stream \in [Streams -> Stream(P)]
  /\ \A s \in Streams : stream[s].name \in Files \cup {s}

\* A name belongs to one running stream.
OneEach == \A s, t \in Streams :
  Running(s) /\ Running(t) /\ stream[s].name = stream[t].name => s = t

\* A restricted stream's job is the one it registered.
Registration == \A s \in Streams :
  Running(s) /\ ~stream[s].full => activeJobs[stream[s].name] = Registered(FALSE)

Capped == \A s \in Streams : ~stream[s].full => stream[s].pace <= DegradedCap

CapInv == Shaped /\ OneEach /\ Registration /\ Capped

(***************************************************************************)
(* What Clamped and Registered promise.                                    *)
(***************************************************************************)
LEMMA ClampedBelow ==
  ASSUME NEW rate, NEW cap \in Nat
  PROVE  Clamped(rate, cap) <= cap
<1>1. ASSUME NEW r PROVE Lesser(r, cap) <= cap
  BY DEF Lesser
<1> QED BY <1>1 DEF Clamped, Greater

LEMMA RestrictedJob ==
  /\ Registered(FALSE) # NoJob
  /\ Registered(FALSE).probing = "done"
  /\ Registered(FALSE).rateCap = DegradedCap
BY ThrottleAssumption DEF Registered, NoJob

LEMMA LimitBelow ==
  ASSUME NEW n \in Names, activeJobs[n] = Registered(FALSE)
  PROVE  LimitForJob(n) <= DegradedCap
<1>1. activeJobs[n] # NoJob /\ activeJobs[n].rateCap = DegradedCap /\ n \notin Probed
  BY RestrictedJob DEF Probed, Measured, Active
<1>2. /\ Clamped(globalLimit \div Cardinality(Active), DegradedCap) <= DegradedCap
      /\ Clamped(Share(n), DegradedCap) <= DegradedCap
  BY ClampedBelow, ThrottleAssumption
<1> QED BY <1>1, <1>2 DEF LimitForJob

(***************************************************************************)
(* The steps change one stream and one job.                                *)
(***************************************************************************)
LEMMA CapInit == ThrottleInit => CapInv
<1> SUFFICES ASSUME ThrottleInit PROVE CapInv
  OBVIOUS
<1>1. stream \in [Streams -> Stream({0})] /\ NoJob \in Job
  BY DEF ThrottleInit, Stream, Names, NoJob, Job
<1>2. \A s \in Streams : stream[s].name = s /\ stream[s].pc = "idle" /\ stream[s].pace = 0
  BY DEF ThrottleInit
<1>3. Shaped
  BY <1>1, <1>2 DEF ThrottleInit, Shaped
<1>4. OneEach /\ Registration
  BY <1>2 DEF OneEach, Registration, Running
<1>5. Capped
  BY <1>2, ThrottleAssumption DEF Capped
<1> QED BY <1>3, <1>4, <1>5 DEF CapInv

LEMMA SetStream ==
  ASSUME Shaped, NEW s \in Streams, NEW rate, NEW at \in {"idle", "copy", "ask"},
         NEW n \in Files \cup {s}, NEW u \in BOOLEAN,
         stream' = [stream EXCEPT ![s] = [pc |-> at, name |-> n, full |-> u, pace |-> rate]]
  PROVE  /\ \E P : stream' \in [Streams -> Stream(P)]
         /\ \A t \in Streams : stream'[t].name \in Files \cup {t}
         /\ \A t \in Streams \ {s} : stream'[t] = stream[t]
         /\ stream'[s] = [pc |-> at, name |-> n, full |-> u, pace |-> rate]
<1>1. PICK P : stream \in [Streams -> Stream(P)]
  BY DEF Shaped
<1>2. [pc |-> at, name |-> n, full |-> u, pace |-> rate] \in Stream(P \cup {rate})
  BY DEF Stream, Names
<1>3. \A t \in Streams : stream[t] \in Stream(P \cup {rate})
  BY <1>1 DEF Stream
<1>4. stream' \in [Streams -> Stream(P \cup {rate})]
  BY <1>1, <1>2, <1>3
<1>5. /\ \A t \in Streams \ {s} : stream'[t] = stream[t]
      /\ stream'[s] = [pc |-> at, name |-> n, full |-> u, pace |-> rate]
  BY <1>1
<1> QED BY <1>4, <1>5 DEF Shaped

\* An update of a field is the update of the stream.
LEMMA SetFields ==
  ASSUME Shaped, NEW s \in Streams, NEW rate, NEW at
  PROVE  /\ stream[s].pc \in {"idle", "copy", "ask"} /\ stream[s].full \in BOOLEAN
         /\ stream[s].name \in Names /\ stream[s].name \in Files \cup {s}
         /\ [stream[s] EXCEPT !.pc = at] =
              [pc |-> at, name |-> stream[s].name, full |-> stream[s].full, pace |-> stream[s].pace]
         /\ [stream[s] EXCEPT !.pace = rate] =
              [pc |-> stream[s].pc, name |-> stream[s].name, full |-> stream[s].full, pace |-> rate]
<1>1. PICK P : stream \in [Streams -> Stream(P)]
  BY DEF Shaped
<1>2. stream[s] \in Stream(P)
  BY <1>1
<1>3. /\ stream[s].pc \in {"idle", "copy", "ask"} /\ stream[s].full \in BOOLEAN
      /\ stream[s].name \in Names /\ stream[s].name \in Files \cup {s}
  BY <1>2 DEF Stream, Shaped
<1>4. [stream[s] EXCEPT !.pc = at] =
        [pc |-> at, name |-> stream[s].name, full |-> stream[s].full, pace |-> stream[s].pace]
  BY <1>2 DEF Stream
<1>5. [stream[s] EXCEPT !.pace = rate] =
        [pc |-> stream[s].pc, name |-> stream[s].name, full |-> stream[s].full, pace |-> rate]
  BY <1>2 DEF Stream
<1> QED BY <1>3, <1>4, <1>5

\* A new stream's name is taken by no running stream.
LEMMA RegisterKeeps ==
  ASSUME CapInv, NEW s \in Streams, NEW n \in Files \cup {s}, NEW u \in BOOLEAN,
         RegisterJob(s, n, u), ~twice'
  PROVE  CapInv'
<1>0. Shaped
  BY DEF CapInv
<1>1. \A t \in Streams : Running(t) => stream[t].name # n
  BY ThrottleAssumption DEF RegisterJob, CapInv, Shaped, Busy, Running, At
<1>2. /\ \E P : stream' \in [Streams -> Stream(P)]
      /\ \A t \in Streams : stream'[t].name \in Files \cup {t}
      /\ \A t \in Streams \ {s} : stream'[t] = stream[t]
      /\ stream'[s] = [pc |-> "copy", name |-> n, full |-> u, pace |-> 0]
  BY <1>0, SetStream, Zenon DEF RegisterJob
<1>3. Registered(u) \in Job /\ n \in Names
  BY ThrottleAssumption DEF Registered, Job, Names
<1>4. /\ activeJobs' \in [Names -> Job]
      /\ activeJobs'[n] = Registered(u) /\ \A k \in Names \ {n} : activeJobs'[k] = activeJobs[k]
  BY <1>3 DEF RegisterJob, CapInv, Shaped
<1>5. Shaped'
  BY <1>2, <1>4 DEF Shaped
<1>6. OneEach'
  BY <1>1, <1>2 DEF OneEach, CapInv, Running
<1>7. Registration'
  <2> SUFFICES ASSUME NEW t \in Streams, Running(t)', ~stream'[t].full
               PROVE  activeJobs'[stream'[t].name] = Registered(FALSE)
    BY DEF Registration, Registered
  <2>1. CASE t = s
    <3>1. stream'[t].name = n /\ stream'[t].full = u
      BY <1>2, <2>1
    <3>2. u = FALSE
      BY <3>1
    <3> QED BY <1>4, <3>1, <3>2
  <2>2. CASE t # s
    <3>1. stream'[t] = stream[t] /\ Running(t) /\ stream[t].name # n
      BY <1>1, <1>2, <2>2 DEF Running
    <3>2. stream[t].name \in Names
      BY <1>0, SetFields
    <3> QED BY <1>4, <3>1, <3>2 DEF CapInv, Registration
  <2> QED BY <2>1, <2>2
<1>8. Capped'
  BY <1>2, ThrottleAssumption DEF Capped, CapInv
<1> QED BY <1>5, <1>6, <1>7, <1>8 DEF CapInv

\* A running stream that goes on with another rate, or stops; its job may
\* change only if it is a full stream or stops.
LEMMA GoesOn ==
  ASSUME CapInv, NEW s \in Streams, Running(s), NEW rate, NEW at \in {"idle", "copy", "ask"},
         stream' = [stream EXCEPT ![s] = [pc |-> at, name |-> stream[s].name,
                                          full |-> stream[s].full, pace |-> rate]],
         activeJobs' \in [Names -> Job],
         \A k \in Names \ {stream[s].name} : activeJobs'[k] = activeJobs[k],
         ~stream[s].full => /\ rate <= DegradedCap
                            /\ at = "idle" \/ activeJobs'[stream[s].name] = activeJobs[stream[s].name]
  PROVE  CapInv'
<1>0. Shaped
  BY DEF CapInv
<1>1. /\ \E P : stream' \in [Streams -> Stream(P)]
      /\ \A t \in Streams : stream'[t].name \in Files \cup {t}
      /\ \A t \in Streams \ {s} : stream'[t] = stream[t]
      /\ stream'[s] = [pc |-> at, name |-> stream[s].name, full |-> stream[s].full, pace |-> rate]
  BY <1>0, SetFields, SetStream
<1>2. Shaped'
  BY <1>1 DEF Shaped
<1>3. OneEach' /\ Capped'
  BY <1>1 DEF CapInv, OneEach, Running, Capped
<1>4. Registration'
  <2> SUFFICES ASSUME NEW t \in Streams, Running(t)', ~stream'[t].full
               PROVE  activeJobs'[stream'[t].name] = Registered(FALSE)
    BY DEF Registration, Registered
  <2>1. CASE t = s
    BY <1>1, <2>1 DEF CapInv, Registration, Running
  <2>2. CASE t # s
    <3>1. stream'[t] = stream[t] /\ Running(t) /\ stream[t].name # stream[s].name
      BY <1>1, <2>2 DEF CapInv, OneEach, Running
    <3>2. stream[t].name \in Names
      BY <1>0, SetFields
    <3> QED BY <3>1, <3>2 DEF CapInv, Registration
  <2> QED BY <2>1, <2>2
<1> QED BY <1>2, <1>3, <1>4 DEF CapInv

\* A measurement changes the stream's job only, and never holds the stream.
LEMMA ProbeSets ==
  ASSUME Shaped, NEW s \in Streams, Probe(s)
  PROVE  /\ stream' = [stream EXCEPT ![s] = [pc |-> stream[s].pc, name |-> stream[s].name,
                                             full |-> stream[s].full, pace |-> Unpaced]]
         /\ \/ UNCHANGED activeJobs
            \/ \E j \in Job : activeJobs' = [activeJobs EXCEPT ![stream[s].name] = j]
<1> DEFINE name == stream[s].name
           job == activeJobs[name]
<1>0. name \in Names /\ job \in Job
  BY SetFields DEF Shaped
<1>1. stream' = [stream EXCEPT ![s] = [pc |-> stream[s].pc, name |-> name,
                                       full |-> stream[s].full, pace |-> Unpaced]]
  <2>1. stream' = [stream EXCEPT ![s] = [stream[s] EXCEPT !.pace = Unpaced]]
    BY DEF Probe, Paced
  <2>2. [stream[s] EXCEPT !.pace = Unpaced] =
          [pc |-> stream[s].pc, name |-> name, full |-> stream[s].full, pace |-> Unpaced]
    BY SetFields
  <2> QED BY <2>1, <2>2, Zenon
<1>2. ASSUME NEW c \in Measures \cup {job.capacity}
      PROVE  /\ Judged(job, c) \in Job /\ [job EXCEPT !.capacity = c] \in Job
  <2>1. c \in Nat
    BY <1>0, ThrottleAssumption DEF Job
  <2>2. [job EXCEPT !.capacity = c] \in Job
    BY <1>0, <2>1 DEF Job
  <2>3. Judged(job, c) \in Job
    BY <1>0, <2>1, ThrottleAssumption DEF Judged, Job, Sanitized, Lesser, Greater
  <2> QED BY <2>2, <2>3
<1>3. [job EXCEPT !.probing = "on"] \in Job
  BY <1>0 DEF Job
<1>4. \/ UNCHANGED activeJobs
      \/ activeJobs' = [activeJobs EXCEPT ![name] = [job EXCEPT !.probing = "on"]]
      \/ \E c \in Measures \cup {job.capacity} :
            \/ activeJobs' = [activeJobs EXCEPT ![name] = [job EXCEPT !.capacity = c]]
            \/ activeJobs' = [activeJobs EXCEPT ![name] = Judged(job, c)]
  BY DEF Probe
<1> HIDE DEF job
<1>5. UNCHANGED activeJobs \/ \E j \in Job : activeJobs' = [activeJobs EXCEPT ![name] = j]
  BY <1>2, <1>3, <1>4
<1> QED BY <1>1, <1>5

LEMMA StepKeeps == ASSUME CapInv, ThrottleNext, ~twice' PROVE CapInv'
<1> SUFFICES ASSUME NEW s \in Streams,
                    \/ Register(s) \/ Unknown(s) \/ Probe(s) \/ Marks(s) \/ Sleep(s)
                    \/ UnregisterJob(s)
             PROVE  CapInv'
  BY DEF ThrottleNext
<1> DEFINE name == stream[s].name
<1>0. /\ Shaped /\ name \in Names /\ activeJobs \in [Names -> Job] /\ Capped
      /\ Running(s) /\ ~stream[s].full => activeJobs[name] = Registered(FALSE)
  BY SetFields DEF CapInv, Shaped, Registration
<1>1. CASE Register(s)
  BY <1>1, RegisterKeeps DEF Register
<1>2. CASE Unknown(s)
  <2>1. Running(s) /\ stream[s].full
    BY <1>0, <1>2, RestrictedJob, SetFields DEF Unknown, At, Running
  <2>2. stream' = [stream EXCEPT ![s] = [pc |-> stream[s].pc, name |-> name,
                                         full |-> stream[s].full, pace |-> Unpaced]]
    <3>1. stream' = [stream EXCEPT ![s] = [stream[s] EXCEPT !.pace = Unpaced]]
      BY <1>2 DEF Unknown, Paced
    <3>2. [stream[s] EXCEPT !.pace = Unpaced] =
            [pc |-> stream[s].pc, name |-> name, full |-> stream[s].full, pace |-> Unpaced]
      BY <1>0, SetFields
    <3> QED BY <3>1, <3>2, Zenon
  <2> QED BY <1>0, <1>2, <2>1, <2>2, GoesOn, SetFields DEF Unknown
<1>3. CASE Probe(s)
  <2>1. Running(s) /\ stream[s].full
    BY <1>0, <1>3, RestrictedJob, SetFields DEF Probe, At, Running
  <2>2. /\ activeJobs' \in [Names -> Job]
        /\ \A k \in Names \ {name} : activeJobs'[k] = activeJobs[k]
    BY <1>0, <1>3, ProbeSets
  <2>3. stream' = [stream EXCEPT ![s] = [pc |-> stream[s].pc, name |-> name,
                                         full |-> stream[s].full, pace |-> Unpaced]]
    BY <1>0, <1>3, ProbeSets, Zenon
  <2> QED BY <1>0, <2>1, <2>2, <2>3, GoesOn, SetFields
<1>4. CASE Marks(s)
  <2>1. stream' = [stream EXCEPT ![s] = [pc |-> "ask", name |-> name,
                                         full |-> stream[s].full, pace |-> stream[s].pace]]
    BY <1>0, <1>4, SetFields DEF Marks
  <2>2. Running(s) /\ (~stream[s].full => stream[s].pace <= DegradedCap)
    BY <1>0, <1>4 DEF Marks, At, Running, Capped
  <2> QED BY <1>0, <1>4, <2>1, <2>2, GoesOn DEF Marks
<1>5. CASE Sleep(s)
  <2>1. stream' = [stream EXCEPT ![s] = [pc |-> "copy", name |-> name,
                                         full |-> stream[s].full, pace |-> LimitForJob(name)]]
    BY <1>5 DEF Sleep
  <2>2. Running(s) /\ (~stream[s].full => LimitForJob(name) <= DegradedCap)
    BY <1>0, <1>5, LimitBelow DEF Sleep, At, Running
  <2> QED BY <1>0, <1>5, <2>1, <2>2, GoesOn DEF Sleep
<1>6. CASE UnregisterJob(s)
  <2>1. stream' = [stream EXCEPT ![s] = [pc |-> "idle", name |-> name,
                                         full |-> stream[s].full, pace |-> stream[s].pace]]
    BY <1>0, <1>6, SetFields DEF UnregisterJob
  <2>2. Running(s) /\ (~stream[s].full => stream[s].pace <= DegradedCap)
    BY <1>0, <1>6 DEF UnregisterJob, At, Running, Capped
  <2>3. /\ activeJobs' \in [Names -> Job]
        /\ \A k \in Names \ {name} : activeJobs'[k] = activeJobs[k]
    BY <1>0, <1>6 DEF UnregisterJob, Job, NoJob
  <2> QED BY <2>1, <2>2, <2>3, GoesOn
<1> QED BY <1>1, <1>2, <1>3, <1>4, <1>5, <1>6

(***************************************************************************)
(* Every chunk of a transfer that started beyond the free quota is held to *)
(* the degraded cap, whatever the other transfers do (RegisterJob: the cap *)
(* is enforced immediately and cannot be lifted), until a device asks for  *)
(* a file it is being sent.                                                *)
(***************************************************************************)
THEOREM CapHolds == ThrottleSpec => []DegradedCapped
<1> DEFINE Inv == ~twice => CapInv
<1>1. ThrottleInit => Inv
  BY CapInit
<1>2. Inv /\ [ThrottleNext]_throttleVars => Inv'
  <2> SUFFICES ASSUME Inv, [ThrottleNext]_throttleVars, ~twice' PROVE CapInv'
    OBVIOUS
  <2>1. CASE ThrottleNext
    <3>1. ~twice
      BY <2>1 DEF ThrottleNext, Register, RegisterJob, Unknown, Probe, Marks, Sleep, UnregisterJob
    <3> QED BY <2>1, <3>1, StepKeeps
  <2>2. CASE UNCHANGED throttleVars
    <3>0. CapInv
      BY <2>2 DEF throttleVars
    <3>1. Shaped'
      BY <2>2, <3>0 DEF throttleVars, CapInv, Shaped
    <3>2. (OneEach /\ Capped)'
      BY <2>2, <3>0 DEF throttleVars, CapInv, OneEach, Capped, Running
    <3>3. Registration'
      BY <2>2, <3>0 DEF throttleVars, CapInv, Registration, Running, Registered
    <3> QED BY <3>1, <3>2, <3>3 DEF CapInv
  <2> QED BY <2>1, <2>2
<1>3. Inv => DegradedCapped
  BY DEF CapInv, Capped, DegradedCapped
<1> QED BY <1>1, <1>2, <1>3, PTL DEF ThrottleSpec

-----------------------------------------------------------------------------
(* Sums over finite sets *)

(* The element a fold takes next, and the sums of f over the subsets of S.  *)
Pick(s) == CHOOSE x \in s : TRUE
Sums(g, f, S) ==
  g = [s \in SUBSET S |-> IF s = {} THEN 0 ELSE f[Pick(s)] + g[s \ {Pick(s)}]]

LEMMA LeastIn ==
  ASSUME NEW B \in SUBSET Nat, B # {}
  PROVE  \E i \in B : \A j \in B : i <= j
<1> DEFINE Less == {p \in Nat \X Nat : p[1] < p[2]}
<1>1. PICK i \in B : \A j \in B : ~(<<j, i>> \in Less)
  <2>1. IsWellFoundedOn(Less, Nat)
    BY NatLessThanWellFounded DEF OpToRel
  <2> HIDE DEF Less
  <2> QED BY <2>1, WFMin
<1>2. ASSUME NEW j \in B PROVE i <= j
  <2>1. i \in Nat /\ j \in Nat /\ <<j, i>> \notin Less
    BY <1>1
  <2> QED BY <2>1
<1> QED BY <1>2

LEMMA PickIs ==
  ASSUME NEW S, IsFiniteSet(S), NEW s \in SUBSET S, s # {}
  PROVE  /\ Pick(s) \in s /\ s \ {Pick(s)} \in SUBSET S
         /\ Cardinality(s) \in Nat \ {0} /\ Cardinality(s \ {Pick(s)}) = Cardinality(s) - 1
<1>1. Pick(s) \in s
  BY Zenon DEF Pick
<1>2. IsFiniteSet(s)
  BY FS_Subset
<1>3. Cardinality(s) \in Nat /\ Cardinality(s) # 0
  BY <1>2, FS_CardinalityType, FS_EmptySet
<1>4. Cardinality(s \ {Pick(s)}) = Cardinality(s) - 1
  BY <1>1, <1>2, FS_RemoveElement
<1> QED BY <1>1, <1>3, <1>4

(* What holds of {} and is handed on by the element added holds of each.    *)
LEMMA Subsets ==
  ASSUME NEW S, IsFiniteSet(S), NEW Fine \in SUBSET (SUBSET S), {} \in Fine,
         \A s \in SUBSET S : s # {} /\ s \ {Pick(s)} \in Fine => s \in Fine
  PROVE  \A s \in SUBSET S : s \in Fine
<1> SUFFICES ASSUME NEW r \in SUBSET S, r \notin Fine PROVE FALSE
  OBVIOUS
<1> DEFINE B == {Cardinality(s) : s \in (SUBSET S) \ Fine}
<1>1. \A s \in SUBSET S : Cardinality(s) \in Nat
  BY FS_Subset, FS_CardinalityType
<1>2. B \in SUBSET Nat /\ B # {}
  BY <1>1
<1>3. PICK i \in B : \A j \in B : i <= j
  <2> HIDE DEF B
  <2> QED BY <1>2, LeastIn
<1>4. PICK s \in (SUBSET S) \ Fine : Cardinality(s) = i
  BY <1>3
<1>5. s # {} /\ s \ {Pick(s)} \notin Fine
  <2>1. s \in SUBSET S /\ s \notin Fine
    BY <1>4
  <2> QED BY <2>1
<1>6. s \ {Pick(s)} \in (SUBSET S) \ Fine /\ Cardinality(s \ {Pick(s)}) = Cardinality(s) - 1
  BY <1>4, <1>5, PickIs
<1>7. Cardinality(s \ {Pick(s)}) \in B
  BY <1>6
<1>8. i <= i - 1 /\ i \in Nat
  BY <1>1, <1>3, <1>4, <1>6, <1>7
<1> QED BY <1>8

LEMMA SumsExist ==
  ASSUME NEW S, IsFiniteSet(S), NEW f
  PROVE  \E g : Sums(g, f, S)
<1> DEFINE Level(k) == {s \in SUBSET S : Cardinality(s) <= k}
           Upto(g, k) == g = [s \in Level(k) |-> IF s = {} THEN 0 ELSE f[Pick(s)] + g[s \ {Pick(s)}]]
           B == {k \in Nat : ~ \E g : Upto(g, k)}
<1>0. \A s \in SUBSET S : IsFiniteSet(s) /\ Cardinality(s) \in Nat
  BY FS_Subset, FS_CardinalityType
<1>1. \E g : Upto(g, 0)
  <2>1. \A s \in Level(0) : s = {}
    BY <1>0, FS_EmptySet
  <2>2. PICK g : g = [s \in Level(0) |-> 0]
    OBVIOUS
  <2>3. g = [s \in Level(0) |-> IF s = {} THEN 0 ELSE f[Pick(s)] + g[s \ {Pick(s)}]]
    BY <2>1, <2>2
  <2> QED BY <2>3
<1>2. ASSUME NEW k \in Nat, NEW g, Upto(g, k) PROVE \E h : Upto(h, k + 1)
  <2>1. PICK h : h = [s \in Level(k + 1) |-> IF s = {} THEN 0 ELSE f[Pick(s)] + g[s \ {Pick(s)}]]
    OBVIOUS
  <2>2. \A s \in Level(k) : s \in Level(k + 1) /\ h[s] = g[s]
    <3>1. ASSUME NEW s \in Level(k) PROVE s \in Level(k + 1)
      BY <1>0
    <3>2. \A s \in Level(k) : g[s] = IF s = {} THEN 0 ELSE f[Pick(s)] + g[s \ {Pick(s)}]
      BY <1>2
    <3> QED BY <2>1, <3>1, <3>2
  <2>3. \A s \in Level(k + 1) : s # {} => s \ {Pick(s)} \in Level(k)
    BY PickIs
  <2>4. \A s \in Level(k + 1) : s # {} => g[s \ {Pick(s)}] = h[s \ {Pick(s)}]
    BY <2>2, <2>3
  <2>5. h = [s \in Level(k + 1) |-> IF s = {} THEN 0 ELSE f[Pick(s)] + h[s \ {Pick(s)}]]
    BY <2>1, <2>4
  <2> QED BY <2>5
<1> HIDE DEF Upto, Level
<1>3. B = {}
  <2> SUFFICES ASSUME B # {} PROVE FALSE
    OBVIOUS
  <2>1. PICK i \in B : \A j \in B : i <= j
    <3>1. B \in SUBSET Nat
      OBVIOUS
    <3> HIDE DEF B
    <3> QED BY <3>1, LeastIn
  <2>2. i \in Nat /\ ~ \E g : Upto(g, i)
    BY <2>1
  <2>3. i # 0 /\ i - 1 \in Nat
    BY <1>1, <2>2
  <2>4. i - 1 \notin B
    BY <2>1, <2>3
  <2>5. PICK g : Upto(g, i - 1)
    BY <2>3, <2>4
  <2>6. \E h : Upto(h, (i - 1) + 1)
    BY <1>2, <2>3, <2>5
  <2>7. (i - 1) + 1 = i
    BY <2>2
  <2> QED BY <2>2, <2>6, <2>7
<1>4. Cardinality(S) \in Nat /\ Level(Cardinality(S)) = SUBSET S
  <2>1. \A s \in SUBSET S : Cardinality(s) <= Cardinality(S)
    BY FS_Subset
  <2> QED BY <1>0, <2>1, FS_CardinalityType DEF Level
<1>5. PICK g : Upto(g, Cardinality(S))
  BY <1>3, <1>4
<1> QED BY <1>4, <1>5 DEF Upto, Sums

Unrolls(g, f, S) ==
  \A s \in SUBSET S : s # {} => g[s] = f[Pick(s)] + g[s \ {Pick(s)}]

LEMMA SumsAre ==
  ASSUME NEW S, IsFiniteSet(S), NEW f \in [S -> Nat], NEW g, Sums(g, f, S)
  PROVE  g \in [SUBSET S -> Nat] /\ g[{}] = 0 /\ Unrolls(g, f, S)
<1> DEFINE Fine == {s \in SUBSET S : g[s] \in Nat}
<1>1. \A s \in SUBSET S : g[s] = IF s = {} THEN 0 ELSE f[Pick(s)] + g[s \ {Pick(s)}]
  BY DEF Sums
<1>2. ASSUME NEW s \in SUBSET S, s # {}, s \ {Pick(s)} \in Fine PROVE s \in Fine
  <2>1. Pick(s) \in S
    BY <1>2, PickIs
  <2>2. f[Pick(s)] \in Nat /\ g[s \ {Pick(s)}] \in Nat
    BY <1>2, <2>1
  <2>3. g[s] = f[Pick(s)] + g[s \ {Pick(s)}]
    BY <1>1, <1>2
  <2> QED BY <2>2, <2>3
<1>3. {} \in Fine
  <2>1. {} \in SUBSET S
    OBVIOUS
  <2>2. g[{}] = 0
    BY <1>1, <2>1
  <2> QED BY <2>1, <2>2
<1>4. \A s \in SUBSET S : s \in Fine
  <2>1. Fine \in SUBSET (SUBSET S)
    OBVIOUS
  <2> HIDE DEF Fine
  <2> QED BY <1>2, <1>3, <2>1, Subsets
<1>5. g \in [SUBSET S -> Nat]
  BY <1>4 DEF Sums
<1>6. g[{}] = 0 /\ Unrolls(g, f, S)
  <2>1. {} \in SUBSET S
    OBVIOUS
  <2> QED BY <1>1, <2>1 DEF Unrolls
<1> QED BY <1>5, <1>6

Weighed(q, x, p, y, e) == q * x <= p * y + q * e

(* Shares of p by the weights of f, each rounded down and one floor more,    *)
(* sum up to p and a floor for each.                                         *)
LEMMA SharesSum ==
  ASSUME NEW S, IsFiniteSet(S), NEW f \in [S -> Nat], NEW h \in [S -> Nat],
         NEW p \in Nat, NEW q \in Nat, NEW e \in Nat,
         NEW F, Sums(F, f, S), NEW H, Sums(H, h, S),
         \A n \in S : Weighed(q, h[n], p, f[n], e)
  PROVE  Weighed(q, H[S], p, F[S], e * Cardinality(S))
<1> DEFINE Fine == {s \in SUBSET S : Weighed(q, H[s], p, F[s], e * Cardinality(s))}
<1>0. F \in [SUBSET S -> Nat] /\ F[{}] = 0 /\ Unrolls(F, f, S)
  BY SumsAre
<1>5. H \in [SUBSET S -> Nat] /\ H[{}] = 0 /\ Unrolls(H, h, S)
  BY SumsAre
<1>1. {} \in Fine
  <2>1. Weighed(q, 0, p, 0, e * 0)
    BY DEF Weighed
  <2>2. {} \in SUBSET S /\ H[{}] = 0 /\ F[{}] = 0 /\ Cardinality({}) = 0
    BY <1>0, <1>5, FS_EmptySet
  <2> QED BY <2>1, <2>2
<1>2. ASSUME NEW s \in SUBSET S, s # {}, s \ {Pick(s)} \in Fine PROVE s \in Fine
  <2>1. /\ Pick(s) \in S /\ s \ {Pick(s)} \in SUBSET S
        /\ Cardinality(s) \in Nat \ {0} /\ Cardinality(s \ {Pick(s)}) = Cardinality(s) - 1
    BY <1>2, PickIs
  <2>2. PICK x \in Nat, y \in Nat, u \in Nat, v \in Nat, k \in Nat :
          /\ x = h[Pick(s)] /\ y = H[s \ {Pick(s)}] /\ u = f[Pick(s)] /\ v = F[s \ {Pick(s)}]
          /\ k = Cardinality(s \ {Pick(s)})
    <3>1. h[Pick(s)] \in Nat /\ f[Pick(s)] \in Nat
      BY <2>1
    <3>2. H[s \ {Pick(s)}] \in Nat /\ F[s \ {Pick(s)}] \in Nat
      BY <1>0, <1>5, <2>1
    <3>3. Cardinality(s \ {Pick(s)}) \in Nat
      BY <2>1
    <3> QED BY <3>1, <3>2, <3>3
  <2>3. H[s] = x + y /\ F[s] = u + v /\ Cardinality(s) = k + 1
    BY <1>0, <1>5, <1>2, <2>1, <2>2 DEF Unrolls
  <2>4. q * x <= p * u + q * e
    <3>1. Weighed(q, x, p, u, e)
      BY <2>1, <2>2
    <3> QED BY <3>1 DEF Weighed
  <2>5. q * y <= p * v + q * (e * k)
    <3>1. Weighed(q, y, p, v, e * k)
      BY <1>2, <2>2
    <3> QED BY <3>1 DEF Weighed
  <2>6. Weighed(q, x + y, p, u + v, e * (k + 1))
    <3>1. q * (x + y) = q * x + q * y /\ p * (u + v) = p * u + p * v /\ e * (k + 1) = e * k + e
      OBVIOUS
    <3>2. q * (e * k + e) = q * (e * k) + q * e
      OBVIOUS
    <3>3. /\ q * x \in Nat /\ q * y \in Nat /\ p * u \in Nat /\ p * v \in Nat
          /\ q * (e * k) \in Nat /\ q * e \in Nat
      OBVIOUS
    <3> QED BY <2>4, <2>5, <3>1, <3>2, <3>3 DEF Weighed
  <2> QED BY <2>3, <2>6
<1>3. \A s \in SUBSET S : s \in Fine
  <2>1. Fine \in SUBSET (SUBSET S)
    OBVIOUS
  <2> HIDE DEF Fine
  <2> QED BY <1>1, <1>2, <2>1, Subsets
<1>4. S \in Fine
  BY <1>3
<1> QED BY <1>4

LEMMA Fits ==
  ASSUME NEW q \in Nat \ {0}, NEW a \in Nat, NEW b \in Nat, q * a <= q * b
  PROVE  a <= b
<1> SUFFICES ASSUME a >= b + 1 PROVE FALSE
  OBVIOUS
<1>1. PICK d \in Nat : a = b + 1 + d
  <2>1. a - (b + 1) \in Nat /\ a = b + 1 + (a - (b + 1))
    OBVIOUS
  <2> QED BY <2>1
<1>2. q * a = q * b + q + q * d /\ q * d \in Nat /\ q * b \in Nat
  BY <1>1
<1> QED BY <1>2

LEMMA Rounded ==
  ASSUME NEW q \in Nat \ {0}, NEW a \in Nat
  PROVE  a \div q \in Nat /\ q * (a \div q) <= a
OBVIOUS

-----------------------------------------------------------------------------
(* The shares *)

(* The tables, and finitely many jobs in them.                              *)
Tabled == Shaped /\ IsFiniteSet(Active)

LEMMA SetJob ==
  ASSUME Shaped, NEW n \in Names, NEW j \in Job, activeJobs' = [activeJobs EXCEPT ![n] = j]
  PROVE  /\ activeJobs' \in [Names -> Job]
         /\ IsFiniteSet(Active) => IsFiniteSet(Active')
<1>1. activeJobs' \in [Names -> Job] /\ Active' \subseteq Active \cup {n}
  BY DEF Shaped, Active
<1> QED BY <1>1, FS_AddElement, FS_Subset

LEMMA TabledStep == ASSUME Tabled, [ThrottleNext]_throttleVars PROVE Tabled'
<1>1. CASE UNCHANGED throttleVars
  BY <1>1 DEF throttleVars, Tabled, Shaped, Active
<1>2. CASE ThrottleNext
  <2> SUFFICES ASSUME NEW s \in Streams,
                      \/ Register(s) \/ Unknown(s) \/ Probe(s) \/ Marks(s) \/ Sleep(s)
                      \/ UnregisterJob(s)
               PROVE  Tabled'
    BY <1>2 DEF ThrottleNext
  <2> DEFINE name == stream[s].name
  <2>0. /\ Shaped /\ name \in Names /\ name \in Files \cup {s}
        /\ stream[s].pc \in {"idle", "copy", "ask"} /\ stream[s].full \in BOOLEAN
    BY SetFields DEF Tabled
  <2>1. ASSUME NEW at \in {"idle", "copy", "ask"}, NEW n \in Files \cup {s}, NEW u \in BOOLEAN, NEW rate,
               stream' = [stream EXCEPT ![s] = [pc |-> at, name |-> n, full |-> u, pace |-> rate]],
               \/ UNCHANGED activeJobs
               \/ \E k \in Names, j \in Job : activeJobs' = [activeJobs EXCEPT ![k] = j]
        PROVE  Tabled'
    <3>1. /\ \E P : stream' \in [Streams -> Stream(P)]
          /\ \A t \in Streams : stream'[t].name \in Files \cup {t}
      BY <2>0, <2>1, SetStream
    <3>2. activeJobs' \in [Names -> Job] /\ IsFiniteSet(Active')
      <4>1. CASE UNCHANGED activeJobs
        BY <4>1 DEF Tabled, Shaped, Active
      <4>2. CASE \E k \in Names, j \in Job : activeJobs' = [activeJobs EXCEPT ![k] = j]
        BY <4>2, SetJob DEF Tabled
      <4> QED BY <2>1, <4>1, <4>2
    <3> QED BY <3>1, <3>2 DEF Tabled, Shaped
  <2>2. CASE Register(s)
    <3>1. PICK n \in Files \cup {s}, u \in BOOLEAN : RegisterJob(s, n, u)
      BY <2>2 DEF Register
    <3>2. Registered(u) \in Job /\ n \in Names
      BY ThrottleAssumption DEF Registered, Job, Names
    <3> QED BY <2>1, <3>1, <3>2 DEF RegisterJob
  <2>3. CASE Unknown(s)
    <3>1. stream' = [stream EXCEPT ![s] = [stream[s] EXCEPT !.pace = Unpaced]]
      BY <2>3 DEF Unknown, Paced
    <3>2. [stream[s] EXCEPT !.pace = Unpaced] =
            [pc |-> stream[s].pc, name |-> name, full |-> stream[s].full, pace |-> Unpaced]
      BY <2>0, SetFields
    <3>3. stream' = [stream EXCEPT ![s] = [pc |-> stream[s].pc, name |-> name,
                                           full |-> stream[s].full, pace |-> Unpaced]]
      BY <3>1, <3>2, Zenon
    <3> QED BY <2>0, <2>1, <2>3, <3>3 DEF Unknown
  <2>4. CASE Probe(s)
    <3>1. stream' = [stream EXCEPT ![s] = [pc |-> stream[s].pc, name |-> name,
                                           full |-> stream[s].full, pace |-> Unpaced]]
      BY <2>0, <2>4, ProbeSets, Zenon
    <3>2. UNCHANGED activeJobs \/ \E j \in Job : activeJobs' = [activeJobs EXCEPT ![name] = j]
      BY <2>0, <2>4, ProbeSets
    <3> QED BY <2>0, <2>1, <3>1, <3>2
  <2>5. CASE Marks(s)
    <3>1. stream' = [stream EXCEPT ![s] = [pc |-> "ask", name |-> name,
                                           full |-> stream[s].full, pace |-> stream[s].pace]]
      BY <2>0, <2>5, SetFields DEF Marks
    <3>2. UNCHANGED activeJobs
      BY <2>5 DEF Marks
    <3> QED BY <2>0, <2>1, <3>1, <3>2
  <2>6. CASE Sleep(s)
    BY <2>0, <2>1, <2>6 DEF Sleep
  <2>7. CASE UnregisterJob(s)
    <3>1. NoJob \in Job
      BY DEF NoJob, Job
    <3>2. stream' = [stream EXCEPT ![s] = [pc |-> "idle", name |-> name,
                                           full |-> stream[s].full, pace |-> stream[s].pace]]
      BY <2>0, <2>7, SetFields DEF UnregisterJob
    <3>3. activeJobs' = [activeJobs EXCEPT ![name] = NoJob]
      BY <2>7 DEF UnregisterJob
    <3> QED BY <2>0, <2>1, <3>1, <3>2, <3>3
  <2> QED BY <2>2, <2>3, <2>4, <2>5, <2>6, <2>7
<1> QED BY <1>1, <1>2

LEMMA TabledInit == ThrottleInit => Tabled
<1> SUFFICES ASSUME ThrottleInit PROVE Tabled
  OBVIOUS
<1>1. Active = {}
  BY DEF ThrottleInit, Active
<1> QED BY <1>1, CapInit, FS_EmptySet DEF CapInv, Tabled

(* The three sums of the shares, as sums of functions.                      *)
LEMMA CapacitySum ==
  ASSUME Tabled
  PROVE  \E f, F :
            /\ f \in [Measured -> Nat]
            /\ \A n \in Measured : f[n] = CapacityOf(n) /\ f[n] > 0
            /\ Sums(F, f, Measured) /\ TotalCapacity = F[Measured]
<1>0. IsFiniteSet(Measured)
  BY FS_Subset DEF Tabled, Measured
<1>1. PICK f \in [Measured -> Nat] : \A n \in Measured : f[n] = CapacityOf(n) /\ f[n] > 0
  <2>1. ASSUME NEW n \in Measured PROVE CapacityOf(n) \in Nat \ {0}
    BY ThrottleAssumption DEF CapacityOf, Tabled, Shaped, Job, Measured, Active
  <2>2. PICK f : f = [n \in Measured |-> CapacityOf(n)]
    OBVIOUS
  <2>3. f \in [Measured -> Nat] /\ \A n \in Measured : f[n] = CapacityOf(n) /\ f[n] > 0
    BY <2>1, <2>2
  <2> QED BY <2>3
<1>2. \A t \in SUBSET Measured : t # {} => f[Pick(t)] = CapacityOf(Pick(t))
  BY <1>0, <1>1, PickIs
<1>3. PICK g : Sums(g, f, Measured)
  BY <1>0, SumsExist
<1>4. g = [t \in SUBSET Measured |-> IF t = {} THEN 0 ELSE CapacityOf(Pick(t)) + g[t \ {Pick(t)}]]
  BY <1>2, <1>3 DEF Sums
<1>5. \E F : /\ F = [t \in SUBSET Measured |->
                        IF t = {} THEN 0 ELSE CapacityOf(Pick(t)) + F[t \ {Pick(t)}]]
             /\ TotalCapacity = F[Measured]
  BY <1>4, Zenon DEF TotalCapacity, MapThenSumSet, MapThenFoldSet, Pick
<1>6. PICK F : /\ F = [t \in SUBSET Measured |->
                         IF t = {} THEN 0 ELSE CapacityOf(Pick(t)) + F[t \ {Pick(t)}]]
               /\ TotalCapacity = F[Measured]
  BY <1>5, Zenon
<1>7. Sums(F, f, Measured)
  BY <1>2, <1>6 DEF Sums
<1> QED BY <1>1, <1>6, <1>7

LEMMA LimitSum ==
  ASSUME Tabled, \A n \in Measured : LimitForJob(n) \in Nat
  PROVE  \E h, H :
            /\ h \in [Measured -> Nat]
            /\ \A n \in Measured : h[n] = LimitForJob(n)
            /\ Sums(H, h, Measured) /\ MapThenSumSet(LimitForJob, Measured) = H[Measured]
<1>0. IsFiniteSet(Measured)
  BY FS_Subset DEF Tabled, Measured
<1>1. PICK h \in [Measured -> Nat] : \A n \in Measured : h[n] = LimitForJob(n)
  <2>1. [n \in Measured |-> LimitForJob(n)] \in [Measured -> Nat]
    OBVIOUS
  <2> QED BY <2>1
<1>2. \A t \in SUBSET Measured : t # {} => h[Pick(t)] = LimitForJob(Pick(t))
  BY <1>0, <1>1, PickIs
<1>3. PICK g : Sums(g, h, Measured)
  BY <1>0, SumsExist
<1>4. g = [t \in SUBSET Measured |-> IF t = {} THEN 0 ELSE LimitForJob(Pick(t)) + g[t \ {Pick(t)}]]
  BY <1>2, <1>3 DEF Sums
<1>5. \E H : /\ H = [t \in SUBSET Measured |->
                        IF t = {} THEN 0 ELSE LimitForJob(Pick(t)) + H[t \ {Pick(t)}]]
             /\ MapThenSumSet(LimitForJob, Measured) = H[Measured]
  BY <1>4, Zenon DEF MapThenSumSet, MapThenFoldSet, Pick
<1>6. PICK H : /\ H = [t \in SUBSET Measured |->
                         IF t = {} THEN 0 ELSE LimitForJob(Pick(t)) + H[t \ {Pick(t)}]]
               /\ MapThenSumSet(LimitForJob, Measured) = H[Measured]
  BY <1>5, Zenon
<1>7. Sums(H, h, Measured)
  BY <1>2, <1>6 DEF Sums
<1> QED BY <1>1, <1>6, <1>7

UseOf(n) == IF activeJobs[n].capacity > 0 THEN activeJobs[n].capacity ELSE activeJobs[n].rateCap

LEMMA UseSum == ASSUME Tabled PROVE ActiveProbingCapacity \in Nat
<1>0. IsFiniteSet(Probed)
  BY FS_Subset DEF Tabled, Probed
<1>1. PICK f \in [Probed -> Nat] : \A n \in Probed : f[n] = UseOf(n)
  <2>1. ASSUME NEW n \in Probed PROVE UseOf(n) \in Nat
    BY DEF UseOf, Tabled, Shaped, Job, Probed, Active
  <2>2. [n \in Probed |-> UseOf(n)] \in [Probed -> Nat]
    BY <2>1
  <2> QED BY <2>2
<1>2. \A t \in SUBSET Probed : t # {} => f[Pick(t)] = UseOf(Pick(t))
  BY <1>0, <1>1, PickIs
<1>3. PICK g : Sums(g, f, Probed)
  BY <1>0, SumsExist
<1>4. g = [t \in SUBSET Probed |-> IF t = {} THEN 0 ELSE UseOf(Pick(t)) + g[t \ {Pick(t)}]]
  BY <1>2, <1>3 DEF Sums
<1>5. \E F : /\ F = [t \in SUBSET Probed |-> IF t = {} THEN 0 ELSE UseOf(Pick(t)) + F[t \ {Pick(t)}]]
             /\ ActiveProbingCapacity = F[Probed]
  BY <1>4, Zenon DEF ActiveProbingCapacity, MapThenSumSet, MapThenFoldSet, Pick, UseOf
<1>6. PICK F : /\ F = [t \in SUBSET Probed |->
                         IF t = {} THEN 0 ELSE UseOf(Pick(t)) + F[t \ {Pick(t)}]]
               /\ ActiveProbingCapacity = F[Probed]
  BY <1>5, Zenon
<1>7. Sums(F, f, Probed)
  BY <1>2, <1>6 DEF Sums
<1>8. F \in [SUBSET Probed -> Nat]
  BY <1>0, <1>7, SumsAre
<1> QED BY <1>6, <1>8

(* A share rounded down and clamped is no more than the share and a floor.   *)
LEMMA ShareBelow ==
  ASSUME NEW q \in Nat \ {0}, NEW p \in Nat, NEW y \in Nat, NEW cap \in Nat, NEW most \in Nat,
         NEW x, x = Clamped(Lesser((p * y) \div q, most), cap)
  PROVE  x \in Nat /\ Weighed(q, x, p, y, Floor)
<1>1. p * y \in Nat
  OBVIOUS
<1>2. PICK d \in Nat : d = (p * y) \div q /\ q * d <= p * y
  BY <1>1, Rounded
<1>3. Lesser(d, most) \in Nat /\ Lesser(d, most) <= d
  BY DEF Lesser
<1>4. x \in Nat /\ x <= d + Floor
  BY <1>2, <1>3, ThrottleAssumption DEF Clamped, Lesser, Greater
<1>5. PICK k \in Nat : x + k = d + Floor
  <2>1. (d + Floor) - x \in Nat /\ x + ((d + Floor) - x) = d + Floor
    BY <1>4, ThrottleAssumption
  <2> QED BY <2>1
<1>6. q * x + q * k = q * d + q * Floor
  <2>1. q * (x + k) = q * x + q * k /\ q * (d + Floor) = q * d + q * Floor
    BY <1>4, ThrottleAssumption
  <2> QED BY <1>5, <2>1
<1>7. q * x \in Nat /\ q * k \in Nat /\ q * d \in Nat /\ q * Floor \in Nat
  BY <1>4, ThrottleAssumption
<1> QED BY <1>1, <1>2, <1>4, <1>6, <1>7 DEF Weighed

LEMMA PoolIs ==
  ASSUME Tabled
  PROVE  /\ IsFiniteSet(Measured) /\ Cardinality(Measured) \in Nat /\ Pool \in Nat
         /\ Pool = IF globalLimit > ActiveProbingCapacity + Cardinality(Measured) * Floor
                   THEN globalLimit - ActiveProbingCapacity ELSE Cardinality(Measured) * Floor
<1>1. IsFiniteSet(Measured) /\ Cardinality(Measured) \in Nat
  BY FS_Subset, FS_CardinalityType DEF Tabled, Measured
<1>2. PICK n \in Nat, u \in Nat, e \in Nat :
        n = Cardinality(Measured) /\ u = ActiveProbingCapacity /\ e = n * Floor
  <2>1. Cardinality(Measured) * Floor \in Nat
    BY <1>1, ThrottleAssumption
  <2> QED BY <1>1, <2>1, UseSum
<1>3. Pool = Greater(IF globalLimit > u THEN globalLimit - u ELSE 0, e)
  BY <1>2 DEF Pool, Left
<1>4. Pool \in Nat /\ Pool = IF globalLimit > u + e THEN globalLimit - u ELSE e
  BY <1>3, ThrottleAssumption DEF Greater
<1> QED BY <1>1, <1>2, <1>4

LEMMA SharesFit ==
  ASSUME Tabled, probes
  PROVE  MapThenSumSet(LimitForJob, Measured) <= Pool + Cardinality(Measured) * Floor
<1>1. PICK n \in Nat, p \in Nat, e \in Nat :
        n = Cardinality(Measured) /\ p = Pool /\ e = Floor /\ IsFiniteSet(Measured)
  BY PoolIs, ThrottleAssumption
<1>2. CASE Measured = {}
  <2>1. PICK h, H :
          /\ h \in [Measured -> Nat]
          /\ Sums(H, h, Measured) /\ MapThenSumSet(LimitForJob, Measured) = H[Measured]
    BY <1>2, LimitSum
  <2>2. H[{}] = 0
    BY <1>1, <2>1, SumsAre
  <2>3. n * e \in Nat
    OBVIOUS
  <2> QED BY <1>1, <1>2, <2>1, <2>2, <2>3
<1>3. CASE Measured # {}
  <2>1. PICK f, F :
          /\ f \in [Measured -> Nat]
          /\ \A j \in Measured : f[j] = CapacityOf(j) /\ f[j] > 0
          /\ Sums(F, f, Measured) /\ TotalCapacity = F[Measured]
    BY CapacitySum
  <2>2. PICK q \in Nat \ {0} : q = TotalCapacity
    <3>1. F \in [SUBSET Measured -> Nat] /\ Unrolls(F, f, Measured)
      BY <1>1, <2>1, SumsAre
    <3>2. Pick(Measured) \in Measured /\ Measured \ {Pick(Measured)} \in SUBSET Measured
      BY <1>1, <1>3, PickIs
    <3>3. F[Measured] = f[Pick(Measured)] + F[Measured \ {Pick(Measured)}]
      BY <1>3, <3>1 DEF Unrolls
    <3>4. f[Pick(Measured)] \in Nat /\ f[Pick(Measured)] > 0 /\ F[Measured \ {Pick(Measured)}] \in Nat
      BY <2>1, <3>1, <3>2
    <3> QED BY <2>1, <3>3, <3>4
  <2>3. ASSUME NEW j \in Measured
        PROVE  LimitForJob(j) \in Nat /\ Weighed(q, LimitForJob(j), p, f[j], e)
    <3>1. activeJobs[j] # NoJob /\ j \notin Probed /\ activeJobs[j].rateCap \in Nat
      BY DEF Measured, Active, Probed, Tabled, Shaped, Job
    <3>2. LimitForJob(j) = Clamped(Lesser((p * f[j]) \div q, f[j]), activeJobs[j].rateCap)
      <4>1. LimitForJob(j) = Clamped(Share(j), activeJobs[j].rateCap)
        BY <3>1 DEF LimitForJob
      <4>2. Share(j) = Lesser((p * f[j]) \div q, f[j])
        BY <1>1, <2>1, <2>2 DEF Share
      <4> QED BY <4>1, <4>2
    <3>3. f[j] \in Nat
      BY <2>1
    <3> QED BY <1>1, <3>1, <3>2, <3>3, ShareBelow
  <2>4. PICK h, H :
          /\ h \in [Measured -> Nat]
          /\ \A j \in Measured : h[j] = LimitForJob(j)
          /\ Sums(H, h, Measured) /\ MapThenSumSet(LimitForJob, Measured) = H[Measured]
    BY <2>3, LimitSum
  <2>5. Weighed(q, H[Measured], p, q, e * n)
    <3>1. Weighed(q, H[Measured], p, F[Measured], e * Cardinality(Measured))
      <4>1. \A j \in Measured : Weighed(q, h[j], p, f[j], e)
        BY <2>3, <2>4
      <4> QED BY <1>1, <2>1, <2>4, <4>1, SharesSum
    <3> QED BY <1>1, <2>1, <2>2, <3>1
  <2>6. PICK x \in Nat : x = H[Measured]
    <3>1. H \in [SUBSET Measured -> Nat]
      BY <1>1, <2>4, SumsAre
    <3> QED BY <3>1
  <2>7. q * x <= q * (p + n * e)
    <3>1. q * x <= p * q + q * (e * n)
      BY <2>5, <2>6 DEF Weighed
    <3>2. p * q + q * (e * n) = q * (p + n * e)
      OBVIOUS
    <3> QED BY <3>1, <3>2
  <2>8. x <= p + n * e
    <3>1. p + n * e \in Nat
      OBVIOUS
    <3> QED BY <2>7, <3>1, Fits
  <2> QED BY <1>1, <2>4, <2>6, <2>8
<1> QED BY <1>2, <1>3

(***************************************************************************)
(* Throttle!SharedFairly: the jobs whose capacity is known get together no  *)
(* more than what those being measured leave of the limit, one floor each  *)
(* aside (LimitForJob), however many jobs there are and whatever was       *)
(* measured.                                                               *)
(***************************************************************************)
THEOREM SharesAreFair == ThrottleSpec => []SharedFairly
<1>1. Tabled => SharedFairly
  <2> SUFFICES ASSUME Tabled, probes PROVE SharedFairly
    BY DEF SharedFairly
  <2>1. ActiveProbingCapacity =
          MapThenSumSet(LAMBDA j : IF activeJobs[j].capacity > 0 THEN activeJobs[j].capacity
                                   ELSE activeJobs[j].rateCap, Probed)
    BY Zenon DEF ActiveProbingCapacity, MapThenSumSet, MapThenFoldSet
  <2>2. SharedFairly <=> MapThenSumSet(LimitForJob, Measured) <= Pool + Cardinality(Measured) * Floor
    BY <2>1, PoolIs, Zenon DEF SharedFairly
  <2> QED BY <2>2, SharesFit
<1> QED BY TabledInit, TabledStep, <1>1, PTL DEF ThrottleSpec
=============================================================================
