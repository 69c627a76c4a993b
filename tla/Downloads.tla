----------------------------- MODULE Downloads -----------------------------
(***************************************************************************)
(* Downloads of one chat attachment by one device: the transfer manager of *)
(* pkg/chat/v2/transfer, the GET handlers that stream the file and the     *)
(* POST handlers that feed them when the sender still has it               *)
(* (pkg/chat/v2/http/files.go), and the start_transfer and cancel_transfer *)
(* commands of the WebSocket (transport/websocket.go).                     *)
(*                                                                         *)
(* All of them share one job id.  Every call of the manager looks the job  *)
(* up, changes it under its own lock, exports it and broadcasts the export *)
(* in separate steps, and CreateJob replaces the object behind the id.     *)
(***************************************************************************)
EXTENDS Naturals, FiniteSets, SequencesExt

CONSTANTS
    Get,       \* GET /files/<id> handlers
    Post,      \* POST /upload/stream handlers
    Command,   \* start_transfer and cancel_transfer commands
    Commands,  \* which of the two the device sends
    NoOne,
    Chunks,    \* bound: writes that make up the file
    MaxJobs    \* bound: objects created for the id

Thread == Get \cup Post \cup Command

ASSUME DownloadsAssumption ==
    /\ Get \cap Post = {} /\ (Get \cup Post) \cap Command = {} /\ NoOne \notin Thread
    /\ Commands \subseteq {"start", "cancel"}
    /\ Chunks \in Nat \ {0} /\ MaxJobs \in Nat

VARIABLES
    jobs,       \* the state of every Job object ever created for the id
    current,    \* Manager.jobs[id]: the newest object, 0 when there is none
    view,       \* what the last transfer event told the devices
    pc,         \* where each thread is
    call,       \* its call of the manager: new state, object, exported state
    back,       \* where it goes on after the call
    waiting,    \* rendezvousMap[id]
    body,       \* readerChan of a GET's rendezvous
    done,       \* errChan of a GET's rendezvous
    serves,     \* the GET whose rendezvous a POST took
    written,    \* chunks a GET has sent
    late,       \* history variable: chunks sent after its job was cancelled
    early       \* history variable: objects created by start_transfer

vars == <<jobs, current, view, pc, call, back, waiting, body, done, serves,
          written, late, early>>
managerVars == <<jobs, current, view, early>>
callVars    == <<call, back>>
meetVars    == <<waiting, body, done, serves>>
streamVars  == <<written, late>>

Terminal == {"completed", "failed", "cancelled"}
State    == {"queued", "running"} \cup Terminal
NoCall   == [to |-> "queued", job |-> 0, event |-> "queued"]

Goto(t, l) == pc' = [pc EXCEPT ![t] = l]

-----------------------------------------------------------------------------
(* transfer.Manager *)

Call(t, to, next) ==
    /\ call' = [call EXCEPT ![t] = [NoCall EXCEPT !.to = to]]
    /\ back' = [back EXCEPT ![t] = next]
    /\ Goto(t, "lookup")

Lookup(t) ==
    /\ pc[t] = "lookup"
    /\ call' = [call EXCEPT ![t].job = current]
    /\ Goto(t, IF current = 0 THEN back[t] ELSE "update")
    /\ UNCHANGED <<managerVars, back, meetVars, streamVars>>

(* UpdateState: a terminal state is final, an unchanged one says nothing.   *)
UpdateState(t) ==
    /\ pc[t] = "update" /\ call[t].to # "progress"
    /\ LET j == call[t].job IN
         \/ /\ jobs[j] \in Terminal \cup {call[t].to}
            /\ Goto(t, back[t])
            /\ UNCHANGED jobs
         \/ /\ jobs[j] \notin Terminal \cup {call[t].to}
            /\ jobs' = [jobs EXCEPT ![j] = call[t].to]
            /\ Goto(t, "export")
    /\ UNCHANGED <<current, view, early, callVars, meetVars, streamVars>>

(* UpdateProgress announces a change of the percentage, or every 200 ms. *)
UpdateProgress(t) ==
    /\ pc[t] = "update" /\ call[t].to = "progress"
    /\ \/ Goto(t, back[t])
       \/ jobs[call[t].job] \notin Terminal /\ Goto(t, "export")
    /\ UNCHANGED <<managerVars, callVars, meetVars, streamVars>>

CreateJob(t, next) ==
    /\ Len(jobs) < MaxJobs
    /\ jobs' = Append(jobs, "queued")
    /\ current' = Len(jobs')
    /\ call' = [call EXCEPT ![t] = [to |-> "queued", job |-> Len(jobs'), event |-> "queued"]]
    /\ back' = [back EXCEPT ![t] = next]
    /\ Goto(t, "export")

ToEvent(t) ==
    /\ pc[t] = "export"
    /\ call' = [call EXCEPT ![t].event = jobs[call[t].job]]
    /\ Goto(t, "emit")
    /\ UNCHANGED <<managerVars, back, meetVars, streamVars>>

(* The callback broadcasts the export; updateTransfer of the web client     *)
(* shows whatever state the last event carries.                             *)
Emit(t) ==
    /\ pc[t] = "emit"
    /\ view' = call[t].event
    /\ Goto(t, back[t])
    /\ UNCHANGED <<jobs, current, early, callVars, meetVars, streamVars>>

(* GetJob, then a look at its state, then the creation of a new job when    *)
(* there is none or it is over: a check and an act.                         *)
NeedsJob == current = 0 \/ jobs[current] \in Terminal

CheckJob(t, fresh, next) ==
    /\ Goto(t, IF NeedsJob THEN fresh ELSE next)
    /\ UNCHANGED <<managerVars, callVars, meetVars, streamVars>>

-----------------------------------------------------------------------------
(* handleDownload *)

Begin(d) == pc[d] = "idle" /\ CheckJob(d, "create", "source")

Create(d) ==
    /\ pc[d] = "create"
    /\ CreateJob(d, "source")
    /\ UNCHANGED <<view, early, meetVars, streamVars>>

(* The file is on disk, or the handler queues a rendezvous and broadcasts   *)
(* request_file_data.                                                       *)
Source(d) ==
    /\ pc[d] = "source"
    /\ \/ /\ Call(d, "running", "stream")
          /\ UNCHANGED waiting
       \/ /\ waiting' = Append(waiting, d)
          /\ Goto(d, "wait")
          /\ UNCHANGED callVars
    /\ UNCHANGED <<managerVars, body, done, serves, streamVars>>

(* Mutant: a timeout that leaves the job as it was. *)
WaitSilent(d) ==
    /\ pc[d] = "wait"
    /\ \/ body[d] # NoOne /\ Call(d, "running", "stream")
       \/ Goto(d, "leave") /\ UNCHANGED callVars
    /\ UNCHANGED <<managerVars, meetVars, streamVars>>

(* The select: a body arrives, the client goes away, or 35 s pass. *)
Wait(d) ==
    /\ pc[d] = "wait"
    /\ \/ body[d] # NoOne /\ Call(d, "running", "stream")
       \/ Call(d, "cancelled", "leave")
       \/ Call(d, "failed", "leave")
    /\ UNCHANGED <<managerVars, meetVars, streamVars>>

Feeding(d) == body[d] # NoOne => pc[body[d]] = "await"

(* Mutant: a writer that ignores the cancel. *)
CheckNothing(d) ==
    /\ pc[d] = "stream" /\ written[d] < Chunks
    /\ Goto(d, "write")
    /\ UNCHANGED <<managerVars, callVars, meetVars, streamVars>>

(* progressWriter.Write refuses once the job is cancelled. *)
Check(d) ==
    /\ pc[d] = "stream" /\ written[d] < Chunks
    /\ Goto(d, IF current # 0 /\ jobs[current] = "cancelled" THEN "broken" ELSE "write")
    /\ UNCHANGED <<managerVars, callVars, meetVars, streamVars>>

(* A write that succeeds is reported; one of the two ends may fail. *)
Write(d) ==
    /\ pc[d] = "write"
    /\ \/ /\ Feeding(d)
          /\ written' = [written EXCEPT ![d] = @ + 1]
          /\ late' = [late EXCEPT ![d] =
                        IF current # 0 /\ jobs[current] = "cancelled" THEN @ + 1 ELSE @]
          /\ Call(d, "progress", "stream")
       \/ /\ Goto(d, "broken")
          /\ UNCHANGED <<callVars, streamVars>>
    /\ UNCHANGED <<managerVars, meetVars>>

TellNobody(d) == done' = done  \* mutant

(* The sender is told how the copy went, and the job is closed.             *)
Tell(d) == done' = IF body[d] = NoOne THEN done ELSE done \cup {d}

Finish(d) ==
    /\ pc[d] = "stream" /\ written[d] = Chunks
    /\ Tell(d)
    /\ Call(d, "completed", "leave")
    /\ UNCHANGED <<managerVars, waiting, body, serves, streamVars>>

Break(d) ==
    /\ pc[d] = "broken"
    /\ Tell(d)
    /\ \E to \in {"failed", "cancelled"} : Call(d, to, "leave")
    /\ UNCHANGED <<managerVars, waiting, body, serves, streamVars>>

(* Mutant: the rendezvous of a handler that returned stays in the map. *)
LeaveQueued(d) ==
    /\ pc[d] = "leave"
    /\ Goto(d, "gone")
    /\ UNCHANGED <<managerVars, callVars, meetVars, streamVars>>

(* The deferred removal of the handler's own rendezvous, if it is queued.   *)
Leave(d) ==
    /\ pc[d] = "leave"
    /\ \/ /\ \A i \in 1..Len(waiting) : waiting[i] # d
          /\ UNCHANGED waiting
       \/ \E i \in 1..Len(waiting) :
             /\ waiting[i] = d /\ \A j \in 1..i - 1 : waiting[j] # d
             /\ waiting' = RemoveAt(waiting, i)
    /\ Goto(d, "gone")
    /\ UNCHANGED <<managerVars, callVars, body, done, serves, streamVars>>

-----------------------------------------------------------------------------
(* handleUploadStream *)

(* Mutant: the rendezvous is read and not removed. *)
PopKeeping(u) ==
    /\ pc[u] = "idle"
    /\ waiting # <<>>
    /\ serves' = [serves EXCEPT ![u] = Head(waiting)]
    /\ Goto(u, "offer")
    /\ UNCHANGED <<managerVars, callVars, waiting, body, done, streamVars>>

(* The sender answers a request_file_data: it takes the oldest rendezvous,  *)
(* or is told that there is none.                                           *)
Pop(u) ==
    /\ pc[u] = "idle"
    /\ \/ /\ waiting = <<>>
          /\ Goto(u, "gone")
          /\ UNCHANGED <<waiting, serves>>
       \/ /\ waiting # <<>>
          /\ serves' = [serves EXCEPT ![u] = Head(waiting)]
          /\ waiting' = Tail(waiting)
          /\ Goto(u, "offer")
    /\ UNCHANGED <<managerVars, callVars, body, done, streamVars>>

Offer(u) ==
    /\ pc[u] = "offer"
    /\ body' = [body EXCEPT ![serves[u]] = u]
    /\ Goto(u, "await")
    /\ UNCHANGED <<managerVars, callVars, waiting, done, serves, streamVars>>

(* It holds the request open until the GET reports. *)
Await(u) ==
    /\ pc[u] = "await" /\ serves[u] \in done
    /\ Goto(u, "gone")
    /\ UNCHANGED <<managerVars, callVars, meetVars, streamVars>>

SenderGone(u) ==
    /\ pc[u] = "await"
    /\ Goto(u, "gone")
    /\ UNCHANGED <<managerVars, callVars, meetVars, streamVars>>

-----------------------------------------------------------------------------
(* The commands *)

CancelTransfer(c) ==
    /\ "cancel" \in Commands
    /\ pc[c] = "idle"
    /\ Call(c, "cancelled", "gone")
    /\ UNCHANGED <<managerVars, meetVars, streamVars>>

(* start_transfer pre-creates the job of a "dl-" transfer, then starts it. *)
StartTransfer(c) ==
    /\ "start" \in Commands
    /\ pc[c] = "idle" /\ CheckJob(c, "precreate", "started")

PreCreate(c) ==
    /\ pc[c] = "precreate"
    /\ CreateJob(c, "started")
    /\ early' = early \cup {current'}
    /\ UNCHANGED <<view, meetVars, streamVars>>

Started(c) ==
    /\ pc[c] = "started"
    /\ Call(c, "running", "gone")
    /\ UNCHANGED <<managerVars, meetVars, streamVars>>

-----------------------------------------------------------------------------
Init ==
    /\ jobs = <<>> /\ current = 0 /\ view = "queued" /\ early = {}
    /\ pc = [t \in Thread |-> "idle"]
    /\ call = [t \in Thread |-> NoCall]
    /\ back = [t \in Thread |-> "gone"]
    /\ waiting = <<>> /\ done = {}
    /\ body = [d \in Get |-> NoOne]
    /\ serves = [u \in Post |-> NoOne]
    /\ written = [d \in Get |-> 0]
    /\ late = [d \in Get |-> 0]

ManagerStep(t) ==
    Lookup(t) \/ UpdateState(t) \/ UpdateProgress(t) \/ ToEvent(t) \/ Emit(t)

GetStep(d) ==
    \/ Create(d) \/ Source(d) \/ Wait(d) \/ Check(d) \/ Write(d)
    \/ Finish(d) \/ Break(d) \/ Leave(d)

PostStep(u) == Offer(u) \/ Await(u)

CommandStep(c) == PreCreate(c) \/ Started(c)

Over == (\A t \in Thread : pc[t] = "gone") /\ UNCHANGED vars

Next ==
    \/ \E t \in Thread : ManagerStep(t)
    \/ \E d \in Get : Begin(d) \/ GetStep(d)
    \/ \E u \in Post : Pop(u) \/ PostStep(u) \/ SenderGone(u)
    \/ \E c \in Command : CancelTransfer(c) \/ StartTransfer(c) \/ CommandStep(c)
    \/ Over

Spec == Init /\ [][Next]_vars

(* Handlers run and the 35 s timer fires; a sender may stay for ever. *)
FairSpec ==
    /\ Spec
    /\ \A t \in Thread : WF_vars(ManagerStep(t))
    /\ \A d \in Get : WF_vars(GetStep(d))
    /\ \A u \in Post : WF_vars(PostStep(u))
    /\ \A c \in Command : WF_vars(CommandStep(c))

-----------------------------------------------------------------------------
InCall    == {"lookup", "update", "export", "emit"}
GetPC     == InCall \cup {"idle", "create", "source", "wait", "stream", "write",
                          "broken", "leave", "gone"}
PostPC    == {"idle", "offer", "await", "gone"}
CommandPC == InCall \cup {"idle", "precreate", "started", "gone"}

(* Type invariant. *)
TypeOK ==
    /\ jobs \in Seq(State) /\ current = Len(jobs) /\ view \in State
    /\ early \subseteq Nat
    /\ pc \in [Thread -> GetPC \cup PostPC \cup CommandPC]
    /\ \A d \in Get : pc[d] \in GetPC
    /\ \A u \in Post : pc[u] \in PostPC
    /\ \A c \in Command : pc[c] \in CommandPC
    /\ call \in [Thread -> [to: State \cup {"progress"}, job: Nat, event: State]]
    /\ back \in [Thread -> {"source", "stream", "leave", "started", "gone"}]
    /\ waiting \in Seq(Get)
    /\ body \in [Get -> Post \cup {NoOne}] /\ done \subseteq Get
    /\ serves \in [Post -> Get \cup {NoOne}]
    /\ written \in [Get -> Nat] /\ late \in [Get -> Nat]

(* Two requests of one device for one file share the job: whoever ends it   *)
(* first, and however their checks and creations interleave, when no        *)
(* handler is left the job is not left queued or running.  A job that a     *)
(* start_transfer created is not covered: when it comes after the end of    *)
(* the download, nothing will ever end it.                                  *)
AllOver == \A t \in Get \cup Command : pc[t] = "gone"
JobSettles == AllOver /\ current \notin {0} \cup early => jobs[current] \in Terminal

(* A sender's stream feeds one download, and a download reads one stream.   *)
OneBody ==
    /\ \A d \in Get : body[d] # NoOne => serves[body[d]] = d
    /\ \A u, v \in Post : serves[u] # NoOne /\ serves[u] = serves[v] => u = v

(* A rendezvous that can be taken belongs to a handler that has not         *)
(* returned, is offered once, and was not taken before.                     *)
RendezvousLive ==
    /\ \A i \in 1..Len(waiting) :
          /\ pc[waiting[i]] # "gone"
          /\ \A u \in Post : serves[u] # waiting[i]
          /\ \A k \in 1..Len(waiting) : waiting[i] = waiting[k] => i = k

(* After a cancel the stream stops: the check before a write may have       *)
(* passed, so one more chunk may go out and no other (one for each object,  *)
(* when another request has put a new job in the place of a cancelled one). *)
CancelStops == \A d \in Get :
    late[d] <= Cardinality({j \in 1..Len(jobs) : jobs[j] = "cancelled"})

(* Liveness: a sender whose receiver has begun to copy its stream is let go,*)
(* whether the copy completes, breaks off or is cancelled.                  *)
SenderReleased == \A u \in Post :
    (pc[u] = "await" /\ pc[serves[u]] \in {"stream", "write", "broken"})
        ~> (pc[u] = "gone")

=============================================================================
