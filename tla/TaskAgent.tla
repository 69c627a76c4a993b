------------------------------ MODULE TaskAgent ------------------------------
(***************************************************************************)
(* The desktop agent's task table: one transfer at a time, one chat beside *)
(* it, a queue, a history.  Two programs hold a copy of this code: the     *)
(* HTTP agent (cmd/desktop_agent.go) and the one inside the GUI            *)
(* (desktop/gui/agent.go); setup.gui says which.  Every operation runs     *)
(* under agent.mu, so each is a function from agent to agent; the tasks    *)
(* run in goroutines, and each stop callback in one more.                  *)
(***************************************************************************)
EXTENDS Naturals, Sequences, FiniteSets

CONSTANTS
  Setups,       \* what may happen: [gui, does, kinds, tasks, queue]
  MaxTasks,     \* bound: tasks of one process
  MaxHistory    \* desktopAgentMaxHistory

Nobody == 0     \* no task, no callback
Id == 1 .. MaxTasks
Transfers == {"share", "receive"}

ASSUME HistoryAssumption == MaxHistory \in Nat \ {0}
ASSUME SetupsAssumption ==
  /\ MaxTasks \in Nat
  /\ \A s \in Setups: s.gui \in BOOLEAN /\ s.kinds \subseteq Transfers \cup {"chat"} /\ s.tasks \in 0 .. MaxTasks

VARIABLES
  setup,
  agent,      \* what agent.mu guards
  run,        \* the goroutine of each task and its server
  disk,       \* desktop-agent-history.json
  clearing,   \* calls of clearHistory between the lock and the file
  leaving,    \* shutdown has been asked for
  hasty,      \* ghost: a task was stopped before its own callback was known
  lastError,  \* whether an error is shown (agent.lastError)
  stream,     \* a page on /events
  caller      \* GUI: what became of the push that started each task

agentVars == <<setup, agent, run, disk, clearing, leaving, hasty, lastError, stream, caller>>

Ending == {"completed", "stopped", "failed"}    \* isTerminalDesktopTransferState

NewTask(kind) == [kind |-> kind, state |-> "running", page |-> Nobody, moved |-> FALSE]

NewAgent(history, first) ==
  [slot |-> Nobody, chat |-> Nobody, queue |-> <<>>, first |-> first, nextID |-> first,
   task |-> [g \in Id |-> NewTask("share")], stop |-> Nobody, chatStop |-> Nobody,
   asked |-> {}, history |-> history, ready |-> Nobody, chatReady |-> Nobody,
   box |-> [g \in Id |-> "empty"], touched |-> FALSE]

NewRun == [pc |-> "start", bound |-> Nobody, token |-> FALSE, err |-> FALSE]
Does(what) == what \in setup.does

(***************************************************************************)
(* The operations, as functions from agent to agent.                       *)
(***************************************************************************)
TouchNot(a) == a                                                   \* mutant
Touch(a) == [a EXCEPT !.touched = TRUE]                  \* touchLocked
Offer(a, ch, answer) ==           \* a send that gives up on a full channel, or on none
  IF ch # Nobody /\ a.box[ch] = "empty" THEN [a EXCEPT !.box[ch] = answer] ELSE a

StartNext(a) ==                                          \* startNextLocked
  IF a.slot # Nobody \/ a.queue = <<>> THEN a
  ELSE LET g == a.nextID + 1 IN
       [a EXCEPT !.queue = Tail(@), !.nextID = g, !.slot = g, !.task[g] = NewTask(Head(a.queue)),
                 !.ready = IF setup.gui THEN g ELSE @]

StartChat(a) ==                                          \* startChatLocked
  LET g == a.nextID + 1 IN
  [a EXCEPT !.nextID = g, !.chat = g, !.task[g] = NewTask("chat"),
            !.chatReady = IF setup.gui THEN g ELSE @]

Push(s, g) == IF Len(s) < MaxHistory THEN <<g>> \o s ELSE <<g>> \o SubSeq(s, 1, MaxHistory - 1)

\* cmd: addHistoryLocked replaces the record of a known task
Listed(a, g) == \E i \in 1 .. Len(a.history): a.history[i] = g

\* The GUI keeps no chat, and no task that moved no byte if its action is
\* "receive" or "send"; but shares are called "share".
KeptByGui(a, g) == a.task[g].kind = "share" \/ (a.task[g].kind = "receive" /\ a.task[g].moved)
Kept(a, g) == setup.gui => KeptByGui(a, g)

RecordCompleted(a, g) ==                                           \* mutant
  IF a.task[g].state # "completed" \/ Listed(a, g) THEN a ELSE [a EXCEPT !.history = Push(@, g)]
Record(a, g) ==                                          \* addHistoryLocked
  IF ~Kept(a, g) \/ Listed(a, g) THEN a ELSE [a EXCEPT !.history = Push(@, g)]

FreeBoth(a) == [a EXCEPT !.slot = Nobody, !.stop = Nobody, !.chatStop = Nobody]  \* mutant
Free(a) == [a EXCEPT !.slot = Nobody, !.stop = Nobody]
FreeChat(a) == [a EXCEPT !.chat = Nobody, !.chatStop = Nobody]

Settle(a, g, state) ==            \* only a running task takes the new state
  IF g # Nobody /\ a.task[g].state = "running" THEN [a EXCEPT !.task[g].state = state] ELSE a

CallStopNever(a, g) == a                                           \* mutant
CallStop(a, g) == IF g = Nobody THEN a ELSE [a EXCEPT !.asked = @ \cup {g}]   \* go stop(state)

\* replaceActiveLocked; the GUI overwrites the state, and when there is no
\* callback it makes room at once
ReplaceShown(a, state) ==
  LET b == [Offer(a, a.ready, "err") EXCEPT !.task[a.slot].state = state] IN
  IF a.stop # Nobody THEN CallStop(b, a.stop) ELSE StartNext([b EXCEPT !.slot = Nobody])

ReplaceActive(a, state) ==
  IF setup.gui THEN ReplaceShown(a, state) ELSE CallStop(Settle(a, a.slot, state), a.stop)

ReplaceChat(a, state) ==                                 \* replaceChatLocked
  CallStop(Settle(Offer(a, a.chatReady, "err"), a.chat, state), a.chatStop)

Finalize(a) ==                                           \* finalizeActiveLocked
  IF a.slot = Nobody THEN a ELSE Free(Record(ReplaceActive(a, "replaced"), a.slot))
FinalizeChat(a) ==                                       \* finalizeChatLocked
  IF a.chat = Nobody THEN a ELSE FreeChat(Record(ReplaceChat(a, "replaced"), a.chat))

Enqueue(a, kind) ==               \* the common end of handleTasks and repeatTask
  LET b == [a EXCEPT !.queue = Append(@, kind)] IN
  Touch(StartNext(IF b.slot # Nobody THEN ReplaceActive(b, "replaced") ELSE b))

Observe(a, g, status) ==                                 \* observeTransferStatus
  IF a.slot = Nobody \/ a.slot # g THEN a
  ELSE LET b == IF status = "transferring" THEN [a EXCEPT !.task[g].moved = TRUE] ELSE a
           c == IF status \in Ending THEN Settle(b, g, status) ELSE b
           over == c.task[g].state \in Ending \/ (setup.gui /\ c.task[g].state = "replaced")
       IN Touch(IF over THEN StartNext(Free(Record(c, g))) ELSE c)

\* setTaskPageURL: of whatever task is the current one, or the chat, by now
InPlace(a, g) == IF a.task[g].kind = "chat" THEN a.chat ELSE a.slot

SetPage(a, g) ==
  LET shown == InPlace(a, g) IN
  IF shown = Nobody \/ a.task[shown].state # "running" THEN a
  ELSE Touch([a EXCEPT !.task[shown].page = g])

SetPageOfGui(a, g) ==
  LET shown == InPlace(a, g)
      b == IF shown = Nobody THEN a ELSE [a EXCEPT !.task[shown].page = g]
  IN Touch(Offer(b, IF a.task[g].kind = "chat" THEN a.chatReady ELSE a.ready, "ok"))

Result(err) == IF err THEN "failed" ELSE "completed"

Execute(a, g, err) ==                                    \* execute
  IF a.slot # g THEN a ELSE Touch(StartNext(Free(Record(Settle(a, g, Result(err)), g))))

\* the GUI keeps a task that completed or failed on show
ExecuteInGui(a, g, err) ==
  LET b == IF err THEN Offer(a, a.ready, "err") ELSE a
      c == Record(Settle(b, g, Result(err)), g)
  IN IF a.slot # g THEN b
     ELSE Touch(IF c.task[g].state \in {"completed", "failed"}
                THEN [c EXCEPT !.stop = Nobody] ELSE StartNext(Free(c)))

ExecuteChat(a, g, err) ==                                \* executeChat
  LET b == IF err THEN Offer(a, a.chatReady, "err") ELSE a IN
  IF a.chat # g THEN b
  ELSE Touch(FreeChat(Record(Settle(b, g, Result(err)), g)))

(***************************************************************************)
(* Every step under the lock ends with the page on /events being told, if  *)
(* touchLocked was called: the revision goes up, and a page that has       *)
(* subscribed gets a signal in a channel of one place.  Of the page:       *)
(* fresh, what it was sent last is the present status; known, it was sent  *)
(* this revision; missed (ghost), since then something changed before it   *)
(* had subscribed, or was changed without a touchLocked.                   *)
(***************************************************************************)
View(a) == <<a.slot, a.chat, a.queue, a.history, [g \in Id |-> <<a.task[g].state, a.task[g].page>>]>>
Subscribed == stream.pc \in {"wait", "send"}
Off == [pc |-> "off", fresh |-> FALSE, known |-> FALSE, missed |-> FALSE, signal |-> FALSE]
Sent(pc, signal) == [pc |-> pc, fresh |-> TRUE, known |-> TRUE, missed |-> FALSE, signal |-> signal]

Tell(changed, touched) ==
  stream' = [stream EXCEPT !.fresh = @ /\ ~changed, !.known = @ /\ ~touched,
                           !.missed = @ \/ (changed /\ stream.pc = "sent"),
                           !.signal = @ \/ (touched /\ Subscribed)]

DoSaying(a, error) ==
  /\ agent' = [a EXCEPT !.touched = FALSE]
  /\ lastError' = error
  /\ Tell(View(a) # View(agent) \/ error # lastError, a.touched)
  /\ disk' = IF a.history # agent.history THEN a.history ELSE disk
Do(a) == DoSaying(a, lastError)

Begun == {g \in Id: agent.first < g /\ g <= agent.nextID}
Room == agent.nextID + Len(agent.queue) < setup.tasks
\* its stop is not known yet; or, of a chat, its page
Early(g) ==
  g # Nobody /\ run[g].pc \in {"start", "hook", "register"} \cup (IF agent.task[g].kind = "chat" THEN {"serve"} ELSE {})

\* bound: whether users act on a task that is still being prepared
Replaces(g) == /\ Early(g) => Does("haste")
               /\ hasty' = (hasty \/ Early(g))

(***************************************************************************)
(* Commands.                                                               *)
(***************************************************************************)
\* handleTasks, pushTask
PushTransfer(kind) ==
  /\ kind \in setup.kinds /\ Room /\ Len(agent.queue) < setup.queue
  /\ DoSaying(Enqueue(agent, kind), FALSE)
  /\ Replaces(agent.slot)
  /\ caller' = IF setup.gui /\ agent.slot = Nobody /\ agent'.slot # Nobody
               THEN [caller EXCEPT ![agent'.slot] = "waits"] ELSE caller
  /\ UNCHANGED <<setup, run, clearing, leaving>>

\* a full queue refuses: the error is gone by then, and nobody is told
RefusePush(kind) ==
  /\ kind \in Transfers \cap setup.kinds /\ Len(agent.queue) >= setup.queue
  /\ lastError' = FALSE
  /\ stream' = [stream EXCEPT !.fresh = @ /\ ~lastError, !.missed = @ \/ lastError]
  /\ UNCHANGED <<setup, agent, run, disk, clearing, leaving, hasty, caller>>

ChatIsRunning == agent.chat # Nobody /\ agent.task[agent.chat].state = "running"

PushChat ==
  /\ "chat" \in setup.kinds /\ ~ChatIsRunning /\ Room
  /\ LET b == IF agent.slot # Nobody THEN ReplaceActive(agent, "stopped") ELSE agent IN
     DoSaying(Touch(StartChat(b)), FALSE)
  /\ Replaces(agent.slot)
  /\ caller' = IF setup.gui THEN [caller EXCEPT ![agent'.chat] = "waits"] ELSE caller
  /\ UNCHANGED <<setup, run, clearing, leaving>>

PushChatAgain ==                  \* the one that runs is answered with
  /\ "chat" \in setup.kinds /\ ChatIsRunning
  /\ DoSaying(Touch(agent), FALSE)
  /\ UNCHANGED <<setup, run, clearing, leaving, hasty, caller>>

\* a full queue refuses the repetition of a chat too
Repeat(kind) ==
  /\ Does("repeat") /\ kind \in setup.kinds /\ Room /\ Len(agent.queue) < setup.queue
  /\ \E g \in Begun \cup {agent.history[i]: i \in 1 .. Len(agent.history)}:
       agent.task[g].kind = kind /\ (g \in {agent.slot, agent.chat} \/ Listed(agent, g))
  /\ DoSaying(IF kind # "chat" THEN Enqueue(agent, kind)
              ELSE Touch(StartChat(IF agent.chat = Nobody THEN agent ELSE ReplaceChat(agent, "replaced"))),
              FALSE)
  /\ Replaces(IF kind # "chat" THEN agent.slot ELSE agent.chat)
  /\ UNCHANGED <<setup, run, clearing, leaving, caller>>

StopCurrent ==
  /\ Does("stop") /\ agent.slot # Nobody
  /\ Do(Touch(ReplaceActive(agent, "stopped")))
  /\ Replaces(agent.slot)
  /\ UNCHANGED <<setup, run, clearing, leaving, caller>>

\* stop-chat, and stop-current when only a chat is there
StopChat ==
  /\ Does("stop") /\ agent.chat # Nobody
  /\ Do(Touch(ReplaceChat(agent, "stopped")))
  /\ Replaces(agent.chat)
  /\ UNCHANGED <<setup, run, clearing, leaving, caller>>

ClearHistory ==                   \* under the lock ...
  /\ Does("clear") /\ clearing < 1
  /\ agent' = [agent EXCEPT !.history = <<>>] /\ lastError' = FALSE /\ clearing' = clearing + 1
  /\ Tell(agent.history # <<>> \/ lastError, TRUE)
  /\ UNCHANGED <<setup, run, disk, leaving, hasty, caller>>

ClearDisk ==                      \* ... and the file after it
  /\ clearing > 0 /\ clearing' = clearing - 1 /\ disk' = <<>>
  /\ UNCHANGED <<setup, agent, run, leaving, hasty, lastError, stream, caller>>

\* handleRestart ends the chat as well, handleShutdown does not
HandleRestart ==
  /\ Does("restart") /\ ~leaving /\ ~setup.gui
  /\ \E b \in {Finalize([agent EXCEPT !.queue = <<>>])}: Do(Touch(b)) \/ Do(Touch(FinalizeChat(b)))
  /\ leaving' = TRUE
  /\ UNCHANGED <<setup, run, clearing, hasty, caller>>

\* the process ends, also by itself, and the next one loads the file
Newest(s) == CHOOSE g \in Id \cup {0}:
  (g = 0 <=> s = <<>>) /\ \A i \in 1 .. Len(s): s[i] <= g /\ (g = 0 \/ \E j \in 1 .. Len(s): s[j] = g)
Reload ==                                                \* loadHistory
  /\ Does("restart")
  /\ agent' = [NewAgent(disk, Newest(disk)) EXCEPT !.task = agent.task]
  /\ run' = [g \in Id |-> NewRun] /\ caller' = [g \in Id |-> "none"]
  /\ clearing' = 0 /\ leaving' = FALSE /\ hasty' = FALSE
  /\ lastError' = FALSE /\ stream' = Off
  /\ UNCHANGED <<setup, disk>>

(***************************************************************************)
(* The goroutine of a task: runTask, then execute or executeChat.  Its     *)
(* hooks use the id that taskIDForAction returned.                         *)
(***************************************************************************)
At(g, pc) == g \in Begun /\ run[g].pc = pc
Goto(g, pc) == run' = [run EXCEPT ![g].pc = pc]
Stays == UNCHANGED <<setup, clearing, leaving, hasty, caller>>

IsChat(g) == agent.task[g].kind = "chat"
Fails(g) == "fail" \in setup.does /\ run' = [run EXCEPT ![g].pc = "finish", ![g].err = TRUE]

\* taskIDForAction, readSettings, config.New, server.New
Resolve(g) ==
  /\ At(g, "start")
  /\ \/ run' = [run EXCEPT ![g].pc = "hook", ![g].bound = IF IsChat(g) THEN agent.chat ELSE agent.slot]
     \/ Fails(g)
  /\ UNCHANGED <<agent, disk, lastError, stream>> /\ Stays

Hook(g) ==                        \* SetStatusHook reports "waiting" at once
  /\ At(g, "hook") /\ Goto(g, "register")
  /\ Do(Observe(agent, run[g].bound, "waiting")) /\ Stays

Register(g) ==                    \* setTaskStop
  /\ At(g, "register")
  /\ Goto(g, IF setup.gui \/ IsChat(g) THEN "serve" ELSE "page")
  /\ Do(IF IsChat(g) THEN [agent EXCEPT !.chatStop = g] ELSE [agent EXCEPT !.stop = g])
  /\ Stays

ShowPage(g) ==                    \* cmd: before the payload is read
  /\ At(g, "page") /\ Goto(g, "serve") /\ Do(SetPage(agent, g)) /\ Stays

Serve(g) ==                       \* Send, ReceiveTo or Chat
  /\ At(g, "serve")
  /\ \/ Fails(g) /\ UNCHANGED <<agent, disk, lastError, stream>>
     \/ Goto(g, "wait") /\ Do(IF setup.gui THEN SetPageOfGui(agent, g)
                                ELSE IF IsChat(g) THEN SetPage(agent, g) ELSE agent)
  /\ Stays

\* The server reports what its devices do; a one-time transfer that has
\* completed or was stopped on its page then stops, one that failed does not.
Report(g, status) ==
  /\ Does("devices") /\ At(g, "wait") /\ ~run[g].token
  /\ ~IsChat(g) \/ status = "stopped"
  /\ Do(IF IsChat(g) THEN agent ELSE Observe(agent, run[g].bound, status))
  /\ run' = [run EXCEPT ![g].token = status \in {"completed", "stopped"}]
  /\ Stays

RunStop(g) ==                     \* Server.Shutdown or ShutdownChat, in the callback's goroutine
  /\ g \in agent.asked
  /\ agent' = [agent EXCEPT !.asked = @ \ {g}]
  /\ run' = [run EXCEPT ![g].token = TRUE]
  /\ UNCHANGED <<disk, lastError, stream>> /\ Stays

Wait(g) ==                        \* Server.Wait; deleting what was sent may fail
  /\ At(g, "wait") /\ run[g].token
  /\ \/ Goto(g, "finish") \/ Fails(g)
  /\ UNCHANGED <<agent, disk, lastError, stream>> /\ Stays

Blames(g) == run[g].err /\ g = InPlace(agent, g) /\ agent.task[g].state = "running"
Finish(g) ==
  /\ At(g, "finish") /\ Goto(g, "done")
  /\ DoSaying(IF IsChat(g) THEN ExecuteChat(agent, g, run[g].err)
              ELSE IF setup.gui THEN ExecuteInGui(agent, g, run[g].err)
              ELSE Execute(agent, g, run[g].err),
              IF Blames(g) THEN TRUE ELSE lastError)
  /\ Stays

(***************************************************************************)
(* GUI: the push that found no task waits for its channel, for 5 or 10     *)
(* seconds; whoever gets its answer resets the field, whatever is in it.   *)
(***************************************************************************)
Answer(g) ==
  /\ g \in Begun /\ caller[g] = "waits"
  /\ \/ agent.box[g] # "empty" /\ caller' = [caller EXCEPT ![g] = agent.box[g]]
     \/ Does("slow") /\ caller' = [caller EXCEPT ![g] = "late"]
  /\ DoSaying(Touch([agent EXCEPT !.ready = IF IsChat(g) THEN @ ELSE Nobody,
                                  !.chatReady = IF IsChat(g) THEN Nobody ELSE @,
                                  !.box[g] = "empty"]),
              lastError \/ caller'[g] = "err" \/ (IsChat(g) /\ caller'[g] = "late"))
  /\ UNCHANGED <<setup, run, clearing, leaving, hasty>>

(***************************************************************************)
(* handleEvents: the status is sent, then the page subscribes; afterwards  *)
(* each signal makes the handler send the status again, unless it is of    *)
(* the revision sent last.                                                 *)
(***************************************************************************)
SendFirst ==
  /\ Does("watch") /\ ~setup.gui /\ stream.pc = "off" /\ stream' = Sent("sent", FALSE)
  /\ UNCHANGED <<setup, agent, run, disk, clearing, leaving, hasty, lastError, caller>>
subscribeEvents ==
  /\ stream.pc = "sent" /\ stream' = [stream EXCEPT !.pc = "wait"]
  /\ UNCHANGED <<setup, agent, run, disk, clearing, leaving, hasty, lastError, caller>>
TakeSignal ==
  /\ stream.pc = "wait" /\ stream.signal
  /\ stream' = [stream EXCEPT !.pc = "send", !.signal = FALSE]
  /\ UNCHANGED <<setup, agent, run, disk, clearing, leaving, hasty, lastError, caller>>
SendStatus ==
  /\ stream.pc = "send"
  /\ stream' = IF stream.known THEN [stream EXCEPT !.pc = "wait"] ELSE Sent("wait", stream.signal)
  /\ UNCHANGED <<setup, agent, run, disk, clearing, leaving, hasty, lastError, caller>>
PageLeaves ==
  /\ stream.pc # "off" /\ stream' = Off
  /\ UNCHANGED <<setup, agent, run, disk, clearing, leaving, hasty, lastError, caller>>

Init ==
  /\ setup \in Setups
  /\ agent = NewAgent(<<>>, 0) /\ run = [g \in Id |-> NewRun] /\ disk = <<>>
  /\ clearing = 0 /\ leaving = FALSE /\ hasty = FALSE
  /\ lastError = FALSE /\ stream = Off
  /\ caller = [g \in Id |-> "none"]

RunStep(g) ==
  Resolve(g) \/ Hook(g) \/ Register(g) \/ ShowPage(g) \/ Serve(g) \/ Wait(g) \/ Finish(g)
Command ==
  \/ (\E kind \in Transfers: PushTransfer(kind) \/ RefusePush(kind)) \/ PushChat \/ PushChatAgain
  \/ (\E kind \in setup.kinds: Repeat(kind)) \/ StopCurrent \/ StopChat
  \/ ClearHistory \/ ClearDisk \/ HandleRestart \/ Reload

Next ==
  \/ Command
  \/ \E g \in Id: RunStep(g) \/ RunStop(g) \/ Answer(g)
  \/ \E g \in Id, status \in Ending \cup {"transferring"}: Report(g, status)
  \/ SendFirst \/ subscribeEvents \/ TakeSignal \/ SendStatus \/ PageLeaves

(***************************************************************************)
(* Goroutines run on, whatever the user does.  A task takes finitely many  *)
(* steps, and a callback can be called again and again only while the      *)
(* task it stops is there.                                                 *)
(***************************************************************************)
RunsOn == \E g \in Id: RunStep(g)
StopsRun == \E g \in Id: RunStop(g)
Spec == Init /\ [][Next]_agentVars /\ WF_agentVars(RunsOn) /\ WF_agentVars(StopsRun)

(***************************************************************************)
(* The controls shown for a task are its own: once it has registered, the  *)
(* stop button reaches its server, and its page is its server's.  Not so   *)
(* when a task is stopped before it has registered, or the agent leaves.   *)
(***************************************************************************)
Served(g) == run[g].pc \in {"page", "serve", "wait"}
OwnControls ==
  ~hasty /\ ~leaving =>
    /\ agent.slot # Nobody /\ Served(agent.slot) => agent.stop = agent.slot
    /\ agent.chat # Nobody /\ Served(agent.chat) => agent.chatStop = agent.chat
    /\ \A g \in {agent.slot, agent.chat} \ {Nobody}: agent.task[g].page \in {g, Nobody}

(***************************************************************************)
(* Each transfer that left the current place is in the history once (but a *)
(* receive that received nothing in the GUI), until cleared or pushed out. *)
(* A task that fails can be replaced in the GUI before it is recorded.     *)
(***************************************************************************)
Recorded(g) == ~IsChat(g) /\ Kept(agent, g) /\ (setup.gui => ~run[g].err)

OneRecord ==
  /\ \A i, j \in 1 .. Len(agent.history): i # j => agent.history[i] # agent.history[j]
  /\ ~hasty /\ ~Does("clear") /\ Len(agent.history) < MaxHistory =>
       \A g \in Begun: agent.slot # g /\ Recorded(g) => Listed(agent, g)

(***************************************************************************)
(* A page on /events that has subscribed shows the present status, or a    *)
(* signal is there to make it do so, however signals coalesce: no          *)
(* operation that calls touchLocked leaves the page behind.  Two kinds of  *)
(* change it is not told of: one that falls between the first status and   *)
(* the subscription, and the error that a refused task clears.  The page   *)
(* asks /status every five seconds besides, and sees them then.            *)
(***************************************************************************)
StreamWakes == stream.pc = "wait" /\ ~stream.fresh => stream.signal \/ stream.missed

(***************************************************************************)
(* A transfer that was stopped or replaced gives way: it ends and makes    *)
(* room (unless that happened before it could be stopped).                 *)
(***************************************************************************)
GivenUp == agent.slot # Nobody /\ agent.task[agent.slot].state \in {"stopped", "replaced"}
GivesWay == GivenUp ~> (~GivenUp \/ hasty)

=============================================================================
