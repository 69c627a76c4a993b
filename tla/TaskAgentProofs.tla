--------------------------- MODULE TaskAgentProofs ---------------------------
(***************************************************************************)
(* Theorems about TaskAgent, for every number of tasks, every length of    *)
(* the queue and of the history, either program, and whatever is done with *)
(* the tasks.  Every operation under the lock is first described by what   *)
(* it may change (Replaced, Ended, Paged, ...); most are an instance of    *)
(* Step, and BaseStep, OwnStep and RecStep say once when such a step keeps *)
(* each part of the invariant.                                             *)
(***************************************************************************)
EXTENDS TaskAgent, WellFoundedInduction, TLAPS

-----------------------------------------------------------------------------
(* Type correctness                                                         *)

Task == 1 .. setup.tasks
Ref == Task \cup {Nobody}
Kinds == Transfers \cup {"chat"}
States == Ending \cup {"running", "replaced"}
TaskType == [kind: Kinds, state: States, page: Id \cup {Nobody}, moved: BOOLEAN]
AgentType ==
  [slot: Ref, chat: Ref, queue: Seq(Transfers), first: Ref, nextID: Ref, task: [Id -> TaskType],
   stop: Ref, chatStop: Ref, asked: SUBSET Task, history: Seq(Task), ready: Ref, chatReady: Ref,
   box: [Id -> {"empty", "ok", "err"}], touched: BOOLEAN]

RunPC == {"start", "hook", "register", "page", "serve", "wait", "finish", "done"}
RunType == [pc: RunPC, bound: Ref, token: BOOLEAN, err: BOOLEAN]

LEMMA Bounds ==
  ASSUME setup \in Setups
  PROVE  /\ setup.tasks \in Nat /\ setup.gui \in BOOLEAN /\ setup.kinds \subseteq Kinds
         /\ Task \subseteq Id /\ Task \subseteq Nat /\ Ref \subseteq Nat /\ Nobody \notin Task /\ Nobody \in Ref
         /\ MaxTasks \in Nat
BY SetupsAssumption DEF Task, Ref, Kinds, Nobody, Id, Transfers

(* What the operations leave alone, but for what the GUI's calls wait on,   *)
(* the callbacks asked for and the signal.                                  *)
Rest(a) == <<a.first, a.history>>
Table(a) == <<a.slot, a.chat, a.stop, a.chatStop, a.task, a.nextID, a.queue>>

Same(a, b) == b \in AgentType /\ Rest(b) = Rest(a) /\ Table(b) = Table(a) /\ b.touched = a.touched

LEMMA OfferIs ==
  ASSUME setup \in Setups, NEW a \in AgentType, NEW ch \in Ref, NEW answer \in {"ok", "err"}
  PROVE  Same(a, Offer(a, ch, answer))
<1>1. CASE ch # Nobody /\ a.box[ch] = "empty"
  <2>1. Offer(a, ch, answer) = [a EXCEPT !.box[ch] = answer]
    BY <1>1 DEF Offer
  <2>2. ch \in Id
    BY <1>1, Bounds DEF Ref
  <2>3. [a.box EXCEPT ![ch] = answer] \in [Id -> {"empty", "ok", "err"}]
    BY <2>2 DEF AgentType
  <2>4. Offer(a, ch, answer) = [a EXCEPT !.box = [a.box EXCEPT ![ch] = answer]]
    BY <2>1
  <2> QED BY <2>3, <2>4 DEF AgentType, Rest, Table, Same
<1>2. CASE ~(ch # Nobody /\ a.box[ch] = "empty")
  BY <1>2 DEF Offer, Same
<1> QED BY <1>1, <1>2

LEMMA CallStopIs ==
  ASSUME setup \in Setups, NEW a \in AgentType, NEW g \in Ref
  PROVE  Same(a, CallStop(a, g))
BY DEF CallStop, AgentType, Rest, Table, Ref, Same

Settled(a, b, g) ==
  /\ b \in AgentType /\ Rest(b) = Rest(a) /\ b.touched = a.touched
  /\ <<b.slot, b.chat, b.stop, b.chatStop, b.nextID, b.queue>> = <<a.slot, a.chat, a.stop, a.chatStop, a.nextID, a.queue>>
  /\ \A h \in Id : /\ b.task[h].kind = a.task[h].kind /\ b.task[h].page = a.task[h].page
                   /\ b.task[h].moved = a.task[h].moved
                   /\ h # g => b.task[h].state = a.task[h].state

LEMMA SettleIs ==
  ASSUME setup \in Setups, NEW a \in AgentType, NEW g \in Ref, NEW state \in States
  PROVE  Settled(a, Settle(a, g, state), g)
<1>1. CASE g # Nobody /\ a.task[g].state = "running"
  <2>1. Settle(a, g, state) = [a EXCEPT !.task[g].state = state]
    BY <1>1 DEF Settle
  <2>2. g \in Id
    BY <1>1, Bounds DEF Ref
  <2>3. a.task \in [Id -> TaskType] /\ a.task[g] \in TaskType
    BY <2>2 DEF AgentType
  <2> DEFINE t == [a.task[g] EXCEPT !.state = state]
  <2>4. t \in TaskType /\ t.kind = a.task[g].kind /\ t.page = a.task[g].page /\ t.moved = a.task[g].moved
    BY <2>3 DEF TaskType
  <2>5. Settle(a, g, state) = [a EXCEPT !.task = [a.task EXCEPT ![g] = t]]
    BY <2>1, <2>3
  <2> HIDE DEF t
  <2>6. [a.task EXCEPT ![g] = t] \in [Id -> TaskType]
    BY <2>3, <2>4
  <2>7. \A h \in Id : [a.task EXCEPT ![g] = t][h] = IF h = g THEN t ELSE a.task[h]
    BY <2>3
  <2> QED BY <1>1, <2>4, <2>5, <2>6, <2>7 DEF AgentType, Rest, Settled
<1>2. CASE ~(g # Nobody /\ a.task[g].state = "running")
  BY <1>2 DEF Settle, Settled
<1> QED BY <1>1, <1>2

LEMMA TouchIs ==
  ASSUME NEW a \in AgentType
  PROVE  Touch(a) \in AgentType /\ Rest(Touch(a)) = Rest(a) /\ Table(Touch(a)) = Table(a) /\ Touch(a).touched
BY DEF Touch, AgentType, Rest, Table

LEMMA FreeIs ==
  ASSUME setup \in Setups, NEW a \in AgentType
  PROVE  LET b == Free(a) IN
         /\ b \in AgentType /\ Rest(b) = Rest(a) /\ b.touched = a.touched
         /\ b.slot = Nobody /\ b.stop = Nobody
         /\ <<b.chat, b.chatStop, b.task, b.nextID, b.queue>> = <<a.chat, a.chatStop, a.task, a.nextID, a.queue>>
BY DEF Free, AgentType, Rest, Ref

LEMMA FreeChatIs ==
  ASSUME setup \in Setups, NEW a \in AgentType
  PROVE  LET b == FreeChat(a) IN
         /\ b \in AgentType /\ Rest(b) = Rest(a) /\ b.touched = a.touched
         /\ b.chat = Nobody /\ b.chatStop = Nobody
         /\ <<b.slot, b.stop, b.task, b.nextID, b.queue>> = <<a.slot, a.stop, a.task, a.nextID, a.queue>>
BY DEF FreeChat, AgentType, Rest, Ref

LEMMA NewTaskIs ==
  ASSUME NEW kind \in Kinds
  PROVE  LET t == NewTask(kind) IN
         t \in TaskType /\ t.kind = kind /\ t.page = Nobody /\ t.state = "running" /\ ~t.moved
BY DEF NewTask, TaskType, States

(* startNextLocked: the slot stays as it is, or was empty and is given to a *)
(* new task that nobody stopped or showed.                                  *)
Load(a) == a.nextID + Len(a.queue)

Resumed(a, b) ==
  /\ b \in AgentType /\ Rest(b) = Rest(a) /\ b.touched = a.touched /\ Load(b) = Load(a)
  /\ <<b.chat, b.stop, b.chatStop>> = <<a.chat, a.stop, a.chatStop>>
  /\ \/ b = a
     \/ /\ a.slot = Nobody /\ b.nextID = a.nextID + 1 /\ b.slot = b.nextID /\ b.slot \in Task
        /\ b.task[b.slot].kind \in Transfers /\ b.task[b.slot].page = Nobody
        /\ b.task[b.slot].state = "running"
        /\ \A h \in Id : h # b.slot => b.task[h] = a.task[h]

LEMMA StartNextIs ==
  ASSUME setup \in Setups, NEW a \in AgentType, Load(a) <= setup.tasks
  PROVE  Resumed(a, StartNext(a))
<1>1. CASE a.slot # Nobody \/ a.queue = <<>>
  BY <1>1 DEF StartNext, Resumed
<1>2. CASE ~(a.slot # Nobody \/ a.queue = <<>>)
  <2> DEFINE g == a.nextID + 1
             k == Head(a.queue)
             f == [a.task EXCEPT ![g] = NewTask(k)]
             r == IF setup.gui THEN g ELSE a.ready
  <2>1. a.queue \in Seq(Transfers) /\ a.nextID \in Ref /\ a.task \in [Id -> TaskType] /\ a.ready \in Ref
    BY DEF AgentType
  <2>2. Len(a.queue) \in Nat /\ Len(a.queue) > 0 /\ k \in Transfers /\ Tail(a.queue) \in Seq(Transfers)
        /\ Len(Tail(a.queue)) = Len(a.queue) - 1
    BY <1>2, <2>1
  <2>3. g \in Task /\ g \in Id /\ a.nextID \in Nat /\ g \in Ref /\ r \in Ref
    BY <2>1, <2>2, Bounds DEF Load, Task, Ref, Nobody
  <2>4. StartNext(a) = [a EXCEPT !.queue = Tail(a.queue), !.nextID = g, !.slot = g, !.task = f, !.ready = r]
    BY <1>2, <2>1 DEF StartNext
  <2>5. NewTask(k) \in TaskType /\ NewTask(k).kind \in Transfers /\ NewTask(k).page = Nobody /\ NewTask(k).state = "running"
    BY <2>2, NewTaskIs DEF Kinds
  <2>6. f \in [Id -> TaskType] /\ f[g] = NewTask(k) /\ \A h \in Id : h # g => f[h] = a.task[h]
    BY <2>1, <2>3, <2>5
  <2>7. a.nextID + 1 + Len(Tail(a.queue)) = a.nextID + Len(a.queue)
    BY <2>2, <2>3, SMTT(30)
  <2> HIDE DEF f, r, k
  <2>8. /\ StartNext(a) \in AgentType
        /\ Rest(StartNext(a)) = Rest(a) /\ StartNext(a).touched = a.touched
        /\ <<StartNext(a).chat, StartNext(a).stop, StartNext(a).chatStop>> = <<a.chat, a.stop, a.chatStop>>
        /\ StartNext(a).queue = Tail(a.queue) /\ StartNext(a).nextID = g /\ StartNext(a).slot = g /\ StartNext(a).task = f
    BY <2>1, <2>2, <2>3, <2>4, <2>6 DEF AgentType, Rest
  <2> QED BY <1>2, <2>3, <2>5, <2>6, <2>7, <2>8 DEF Load, Resumed
<1> QED BY <1>1, <1>2

(* startChatLocked: a chat takes the place of the one before it.            *)
Chatting(a, b) ==
  /\ b \in AgentType /\ Rest(b) = Rest(a) /\ b.touched = a.touched /\ Load(b) = Load(a) + 1
  /\ <<b.slot, b.stop, b.chatStop>> = <<a.slot, a.stop, a.chatStop>>
  /\ b.nextID = a.nextID + 1 /\ b.chat = b.nextID /\ b.chat \in Task
  /\ b.task[b.chat].kind = "chat" /\ b.task[b.chat].page = Nobody /\ b.task[b.chat].state = "running"
  /\ \A h \in Id : h # b.chat => b.task[h] = a.task[h]

LEMMA StartChatIs ==
  ASSUME setup \in Setups, NEW a \in AgentType, Load(a) < setup.tasks
  PROVE  Chatting(a, StartChat(a))
<1> DEFINE g == a.nextID + 1
           f == [a.task EXCEPT ![g] = NewTask("chat")]
           r == IF setup.gui THEN g ELSE a.chatReady
<1>1. a.queue \in Seq(Transfers) /\ a.nextID \in Ref /\ a.task \in [Id -> TaskType] /\ a.chatReady \in Ref
  BY DEF AgentType
<1>2. g \in Task /\ g \in Id /\ a.nextID \in Nat /\ g \in Ref /\ r \in Ref /\ Len(a.queue) \in Nat
  BY <1>1, Bounds DEF Load, Task, Ref, Nobody
<1>3. StartChat(a) = [a EXCEPT !.nextID = g, !.chat = g, !.task = f, !.chatReady = r]
  BY <1>1 DEF StartChat
<1>4. NewTask("chat") \in TaskType /\ NewTask("chat").kind = "chat" /\ NewTask("chat").page = Nobody
      /\ NewTask("chat").state = "running"
  BY NewTaskIs DEF Kinds
<1>5. f \in [Id -> TaskType] /\ f[g] = NewTask("chat") /\ \A h \in Id : h # g => f[h] = a.task[h]
  BY <1>1, <1>2, <1>4
<1>6. g + Len(a.queue) = a.nextID + Len(a.queue) + 1
  BY <1>2
<1> HIDE DEF f, r
<1>7. /\ StartChat(a) \in AgentType
      /\ Rest(StartChat(a)) = Rest(a) /\ StartChat(a).touched = a.touched
      /\ <<StartChat(a).slot, StartChat(a).stop, StartChat(a).chatStop>> = <<a.slot, a.stop, a.chatStop>>
      /\ StartChat(a).nextID = g /\ StartChat(a).chat = g /\ StartChat(a).task = f /\ StartChat(a).queue = a.queue
  BY <1>1, <1>2, <1>3, <1>5 DEF AgentType, Rest
<1> QED BY <1>2, <1>4, <1>5, <1>6, <1>7 DEF Load, Chatting

(* addHistoryLocked: a transfer that is kept is in the history afterwards,  *)
(* and no transfer is in it twice.                                          *)
Once(s) == \A i, j \in 1 .. Len(s) : i # j => s[i] # s[j]

LEMMA PushIs ==
  ASSUME setup \in Setups, NEW s \in Seq(Task), NEW g \in Task
  PROVE  /\ Push(s, g) \in Seq(Task)
         /\ Len(s) < MaxHistory => Push(s, g) = <<g>> \o s
         /\ Len(Push(s, g)) < MaxHistory => Len(s) < MaxHistory
         /\ Once(s) /\ (\A i \in 1 .. Len(s) : s[i] # g) => Once(Push(s, g))
<1>0. MaxHistory \in Nat \ {0} /\ Len(s) \in Nat
  BY HistoryAssumption
<1>1. CASE Len(s) < MaxHistory
  <2> DEFINE p == <<g>> \o s
  <2>1. Push(s, g) = p
    BY <1>1 DEF Push
  <2>2. p \in Seq(Task) /\ Len(p) = Len(s) + 1 /\ p[1] = g /\ \A i \in 2 .. Len(p) : p[i] = s[i - 1] /\ i - 1 \in 1 .. Len(s)
    BY <1>0
  <2> HIDE DEF p
  <2> QED BY <1>0, <1>1, <2>1, <2>2 DEF Once, Push
<1>2. CASE ~(Len(s) < MaxHistory)
  <2> DEFINE q == SubSeq(s, 1, MaxHistory - 1)
             p == <<g>> \o q
  <2>1. Push(s, g) = p
    BY <1>2 DEF Push
  <2>2. q \in Seq(Task) /\ Len(q) = MaxHistory - 1 /\ \A i \in 1 .. Len(q) : q[i] = s[i] /\ i \in 1 .. Len(s)
    BY <1>0, <1>2
  <2> HIDE DEF q
  <2>3. p \in Seq(Task) /\ Len(p) = Len(q) + 1 /\ p[1] = g /\ \A i \in 2 .. Len(p) : p[i] = q[i - 1] /\ i - 1 \in 1 .. Len(q)
    BY <2>2
  <2> HIDE DEF p
  <2>4. Len(p) = MaxHistory
    BY <1>0, <2>2, <2>3
  <2>5. ASSUME Once(s), \A i \in 1 .. Len(s) : s[i] # g, NEW i \in 1 .. Len(p), NEW j \in 1 .. Len(p), i # j
        PROVE  p[i] # p[j]
    <3>1. i = 1 \/ (i \in 2 .. Len(p) /\ p[i] = s[i - 1] /\ i - 1 \in 1 .. Len(s))
      BY <1>0, <2>2, <2>3, <2>4
    <3>2. j = 1 \/ (j \in 2 .. Len(p) /\ p[j] = s[j - 1] /\ j - 1 \in 1 .. Len(s))
      BY <1>0, <2>2, <2>3, <2>4
    <3>3. i \in Nat /\ j \in Nat
      BY <1>0, <2>4
    <3> QED BY <2>3, <2>5, <3>1, <3>2, <3>3 DEF Once
  <2> QED BY <1>0, <1>2, <2>1, <2>3, <2>4, <2>5 DEF Once
<1> QED BY <1>1, <1>2

Entered(a, b, g) ==
  /\ b \in AgentType /\ b.first = a.first /\ Table(b) = Table(a) /\ b.touched = a.touched
  /\ Once(a.history) => Once(b.history)
  /\ Len(b.history) < MaxHistory => /\ Len(a.history) < MaxHistory
                                    /\ \A h \in Task : Listed(a, h) => Listed(b, h)
                                    /\ Kept(a, g) => Listed(b, g)

LEMMA RecordIs ==
  ASSUME setup \in Setups, NEW a \in AgentType, NEW g \in Task
  PROVE  Entered(a, Record(a, g), g)
<1>1. CASE ~Kept(a, g) \/ Listed(a, g)
  BY <1>1 DEF Record, Entered
<1>2. CASE ~(~Kept(a, g) \/ Listed(a, g))
  <2>1. Record(a, g) = [a EXCEPT !.history = Push(a.history, g)]
    BY <1>2 DEF Record
  <2>2. a.history \in Seq(Task)
    BY DEF AgentType
  <2>3. Push(a.history, g) \in Seq(Task)
    BY <2>2, PushIs
  <2>4. Record(a, g) \in AgentType /\ Record(a, g).first = a.first /\ Table(Record(a, g)) = Table(a)
        /\ Record(a, g).touched = a.touched /\ Record(a, g).history = Push(a.history, g)
    BY <2>1, <2>3 DEF AgentType, Table
  <2>5. Once(a.history) => Once(Push(a.history, g))
    BY <1>2, <2>2, PushIs DEF Listed
  <2>6. ASSUME Len(Push(a.history, g)) < MaxHistory
        PROVE  /\ Len(a.history) < MaxHistory
               /\ \A h \in Task : Listed(a, h) => Listed(Record(a, g), h)
               /\ Listed(Record(a, g), g)
    <3>1. Len(a.history) < MaxHistory /\ Push(a.history, g) = <<g>> \o a.history
      BY <2>2, <2>6, PushIs
    <3> DEFINE p == <<g>> \o a.history
    <3>2. Len(p) = Len(a.history) + 1 /\ p[1] = g /\ \A i \in 1 .. Len(a.history) : p[i + 1] = a.history[i] /\ i + 1 \in 1 .. Len(p)
      BY <2>2
    <3>3. 1 \in 1 .. Len(p)
      BY <2>2, <3>2
    <3> HIDE DEF p
    <3> QED BY <2>4, <3>1, <3>2, <3>3 DEF Listed, p
  <2> QED BY <2>4, <2>5, <2>6 DEF Entered
<1> QED BY <1>1, <1>2

-----------------------------------------------------------------------------
(* The operations made of these.  Of the tasks that were there only the     *)
(* state of g changes; the slot is emptied, or given to a new transfer; the *)
(* history only grows, up to its bound.                                     *)
Still(a, b, g) ==
  \A h \in 1 .. a.nextID : /\ b.task[h].kind = a.task[h].kind /\ b.task[h].page = a.task[h].page
                           /\ b.task[h].moved = a.task[h].moved
                           /\ h # g => b.task[h].state = a.task[h].state

Starts(a, b) ==
  \/ b.slot = Nobody /\ b.nextID = a.nextID
  \/ /\ b.nextID = a.nextID + 1 /\ b.slot = b.nextID /\ b.slot \in Task
     /\ b.task[b.slot].kind \in Transfers /\ b.task[b.slot].page = Nobody /\ b.task[b.slot].state = "running"

Grows(a, b) ==
  /\ Once(a.history) => Once(b.history)
  /\ Len(b.history) < MaxHistory => /\ Len(a.history) < MaxHistory
                                    /\ \A h \in Task : Listed(a, h) => Listed(b, h)

LEMMA Older ==
  ASSUME setup \in Setups, NEW a \in AgentType, NEW h \in 1 .. a.nextID
  PROVE  h \in Task /\ h \in Id /\ a.nextID \in Nat /\ h # a.nextID + 1
BY Bounds DEF AgentType, Task, Ref, Id, Nobody

Replaced(a, b) ==
  /\ b \in AgentType /\ Rest(b) = Rest(a) /\ b.touched = a.touched /\ Load(b) = Load(a)
  /\ <<b.chat, b.stop, b.chatStop>> = <<a.chat, a.stop, a.chatStop>>
  /\ Still(a, b, a.slot)
  /\ \/ b.slot = a.slot /\ b.nextID = a.nextID
     \/ (a.slot = Nobody \/ (setup.gui /\ a.stop = Nobody)) /\ Starts(a, b)

LEMMA ReplaceActiveIs ==
  ASSUME setup \in Setups, NEW a \in AgentType, Load(a) <= setup.tasks, a.slot # Nobody,
         NEW state \in {"replaced", "stopped"}
  PROVE  Replaced(a, ReplaceActive(a, state))
<1>0. a.slot \in Ref /\ a.slot \in Id /\ a.stop \in Ref /\ a.ready \in Ref /\ state \in States /\ a.task \in [Id -> TaskType]
  BY Bounds DEF AgentType, Ref, States, Ending
<1>1. CASE ~setup.gui
  <2> DEFINE c == Settle(a, a.slot, state)
  <2>1. ReplaceActive(a, state) = CallStop(c, a.stop)
    BY <1>1 DEF ReplaceActive
  <2>2. Settled(a, c, a.slot)
    BY <1>0, SettleIs
  <2> HIDE DEF c
  <2>3. Same(c, CallStop(c, a.stop))
    BY <1>0, <2>2, CallStopIs DEF Settled
  <2> QED BY <2>1, <2>2, <2>3, Older DEF Table, Still, Load, Same, Settled, Replaced
<1>2. CASE setup.gui
  <2> DEFINE o == Offer(a, a.ready, "err")
             t == [a.task[a.slot] EXCEPT !.state = state]
             f == [a.task EXCEPT ![a.slot] = t]
             c == [o EXCEPT !.task = f]
             e == [c EXCEPT !.slot = Nobody]
  <2>1. o \in AgentType /\ Rest(o) = Rest(a) /\ Table(o) = Table(a) /\ o.touched = a.touched
    BY <1>0, OfferIs DEF Same
  <2>2. t \in TaskType /\ t.kind = a.task[a.slot].kind /\ t.page = a.task[a.slot].page /\ t.moved = a.task[a.slot].moved
    BY <1>0 DEF TaskType
  <2>3. o.task = a.task
    BY <2>1 DEF Table
  <2>4. [o EXCEPT !.task[a.slot].state = state] = c
    <3>1. [o EXCEPT !.task[a.slot].state = state] = [o EXCEPT !.task = [o.task EXCEPT ![a.slot] = [o.task[a.slot] EXCEPT !.state = state]]]
      BY <1>0, <2>1, <2>3
    <3> QED BY <2>3, <3>1
  <2> HIDE DEF t, o
  <2>5. f \in [Id -> TaskType] /\ f[a.slot] = t /\ \A h \in Id : h # a.slot => f[h] = a.task[h]
    BY <1>0, <2>2
  <2> HIDE DEF f
  <2>6. /\ c \in AgentType /\ Rest(c) = Rest(a) /\ c.touched = a.touched /\ c.task = f
        /\ <<c.slot, c.chat, c.stop, c.chatStop, c.nextID, c.queue>> = <<a.slot, a.chat, a.stop, a.chatStop, a.nextID, a.queue>>
    BY <2>1, <2>5 DEF AgentType, Rest, Table
  <2>7. Still(a, c, a.slot)
    BY <2>2, <2>5, <2>6, Older DEF Still
  <2>8. ReplaceActive(a, state) = IF a.stop # Nobody THEN CallStop(c, a.stop) ELSE StartNext(e)
    BY <1>2, <2>4 DEF ReplaceActive, ReplaceShown, o
  <2> HIDE DEF c
  <2>9. CASE a.stop # Nobody
    <3>1. Same(c, CallStop(c, a.stop))
      BY <1>0, <2>6, CallStopIs
    <3> QED BY <2>6, <2>7, <2>8, <2>9, <3>1 DEF Table, Still, Load, Same, Replaced
  <2>10. CASE a.stop = Nobody
    <3>1. /\ e \in AgentType /\ Rest(e) = Rest(a) /\ e.touched = a.touched /\ e.task = c.task /\ e.slot = Nobody
          /\ <<e.chat, e.stop, e.chatStop, e.nextID, e.queue>> = <<a.chat, a.stop, a.chatStop, a.nextID, a.queue>>
      BY <2>6, Bounds DEF AgentType, Rest
    <3> HIDE DEF e
    <3>2. Load(e) = Load(a)
      BY <3>1 DEF Load
    <3>3. Resumed(e, StartNext(e))
      BY <3>1, <3>2, StartNextIs
    <3>4. Still(a, StartNext(e), a.slot)
      BY <2>7, <3>1, <3>3, Older DEF Still, Resumed
    <3>5. Starts(a, StartNext(e))
      BY <3>1, <3>3 DEF Starts, Resumed
    <3> QED BY <1>2, <2>8, <2>10, <3>1, <3>2, <3>3, <3>4, <3>5 DEF Replaced, Resumed
  <2> QED BY <2>9, <2>10
<1> QED BY <1>1, <1>2

ChatReplaced(a, b) ==
  /\ b \in AgentType /\ Rest(b) = Rest(a) /\ b.touched = a.touched /\ Load(b) = Load(a)
  /\ <<b.slot, b.chat, b.stop, b.chatStop, b.nextID>> = <<a.slot, a.chat, a.stop, a.chatStop, a.nextID>>
  /\ Still(a, b, a.chat)

LEMMA ReplaceChatIs ==
  ASSUME setup \in Setups, NEW a \in AgentType, NEW state \in {"replaced", "stopped"}
  PROVE  ChatReplaced(a, ReplaceChat(a, state))
<1>0. a.chat \in Ref /\ a.chatStop \in Ref /\ a.chatReady \in Ref /\ state \in States
  BY DEF AgentType, States, Ending
<1> DEFINE o == Offer(a, a.chatReady, "err")
           c == Settle(o, a.chat, state)
<1>1. Same(a, o)
  BY <1>0, OfferIs
<1>2. ReplaceChat(a, state) = CallStop(c, a.chatStop)
  BY DEF ReplaceChat
<1> HIDE DEF o
<1>3. Settled(o, c, a.chat)
  BY <1>0, <1>1, SettleIs DEF Same
<1> HIDE DEF c
<1>4. Same(c, CallStop(c, a.chatStop))
  BY <1>0, <1>3, CallStopIs DEF Settled
<1> QED BY <1>1, <1>2, <1>3, <1>4, Older DEF Table, Still, Load, Same, Settled, ChatReplaced

-----------------------------------------------------------------------------
(* The invariants, of the table a and the goroutines r                      *)

\* The callback of the task is not known yet.
Unknown == {"start", "hook", "register"}

\* Goroutines of tasks to come have not started; a chat shows no page early.
Base(a, r) ==
  /\ a.first <= a.nextID /\ a.slot <= a.nextID /\ a.chat <= a.nextID
  /\ \A g \in Id : /\ g > a.nextID => r[g].pc = "start"
                   /\ g <= a.nextID /\ a.task[g].kind = "chat" => r[g].pc # "page"

(* Who is shown is a task of this process, and the callback is his, or is   *)
(* to be; a goroutine before its server runs is that of the task on show,   *)
(* and the task its status hook was made for is its own.                    *)
Own(a, r) ==
  /\ a.slot # Nobody =>
       /\ a.first < a.slot /\ a.slot <= a.nextID /\ a.task[a.slot].kind # "chat"
       /\ a.task[a.slot].state # "running" => r[a.slot].pc \notin Unknown
       /\ a.task[a.slot].page \in {a.slot, Nobody}
       /\ r[a.slot].pc \in {"page", "serve", "wait"} => a.stop = a.slot
  /\ a.chat # Nobody =>
       /\ a.first < a.chat /\ a.chat <= a.nextID /\ a.task[a.chat].kind = "chat"
       /\ a.task[a.chat].state # "running" => r[a.chat].pc \notin Unknown \cup {"serve"}
       /\ a.task[a.chat].page \in {a.chat, Nobody}
       /\ r[a.chat].pc \in {"page", "serve", "wait"} => a.chatStop = a.chat
  /\ a.stop \in {a.slot, Nobody}
  /\ \A g \in Id : a.first < g /\ g <= a.nextID =>
       /\ r[g].pc \in Unknown \cup {"page", "serve"} => g = InPlace(a, g)
       /\ r[g].pc \in {"hook", "register", "page", "serve", "wait"} => r[g].bound = g

(* What has left the slot is recorded; so is what the GUI still shows but   *)
(* can no longer stop.                                                      *)
Noted(a, r, g) == Listed(a, g) \/ ~Kept(a, g) \/ (setup.gui /\ r[g].err)
Rec(a, r) ==
  Len(a.history) < MaxHistory =>
    /\ \A g \in Id : a.first < g /\ g <= a.nextID /\ a.slot # g /\ a.task[g].kind # "chat" => Noted(a, r, g)
    /\ setup.gui /\ a.slot # Nobody /\ a.stop = Nobody /\ r[a.slot].pc \notin Unknown => Noted(a, r, a.slot)

(* What every operation but those that set a callback or a page does: it    *)
(* starts tasks, which are put on show, and empties places.                 *)
Fresh(a, b) == a.nextID + 1 .. b.nextID
Step(a, b) ==
  /\ b.first = a.first /\ a.nextID <= b.nextID /\ Grows(a, b)
  /\ \A h \in 1 .. a.nextID : /\ b.task[h].kind = a.task[h].kind /\ b.task[h].page = a.task[h].page
                              /\ h # a.slot => b.task[h].moved = a.task[h].moved
                              /\ h \notin {a.slot, a.chat} => b.task[h].state = a.task[h].state
  /\ \A g \in Fresh(a, b) : g = InPlace(b, g) /\ b.task[g].page = Nobody /\ b.task[g].state = "running"
  /\ b.slot \in {a.slot, Nobody} \/ (b.slot \in Fresh(a, b) /\ b.task[b.slot].kind # "chat")
  /\ b.chat \in {a.chat, Nobody} \/ (b.chat \in Fresh(a, b) /\ b.task[b.chat].kind = "chat")

(* When it may: the task that leaves its place, or is stopped, had told its *)
(* callback; a callback is forgotten when its task is served no more.       *)
Left(a, b, r) ==
  /\ a.slot # Nobody =>
       /\ b.slot # a.slot => r[a.slot].pc \notin Unknown \cup {"page", "serve"}
       /\ a.task[a.slot].state = "running" /\ b.task[a.slot].state # "running" => r[a.slot].pc \notin Unknown
  /\ a.chat # Nobody =>
       /\ b.chat # a.chat => r[a.chat].pc \notin Unknown \cup {"serve"}
       /\ a.task[a.chat].state = "running" /\ b.task[a.chat].state # "running" => r[a.chat].pc \notin Unknown \cup {"serve"}
  /\ \/ b.slot = a.slot /\ b.stop = a.stop
     \/ b.stop = Nobody /\ (b.slot = a.slot /\ a.slot # Nobody => ~(r[a.slot].pc \in {"page", "serve", "wait"}))
  /\ b.chatStop = a.chatStop \/ b.chat = Nobody

(* And what it must record.                                                 *)
Told(a, b, r) ==
  Len(b.history) < MaxHistory /\ a.slot # Nobody =>
    /\ b.slot # a.slot /\ a.task[a.slot].kind # "chat" => Noted(b, r, a.slot)
    /\ setup.gui /\ b.slot = a.slot /\ b.stop = Nobody =>
         \/ Noted(b, r, a.slot)
         \/ a.stop = Nobody /\ b.task[a.slot].moved = a.task[a.slot].moved

LEMMA BaseStep ==
  ASSUME setup \in Setups, NEW a \in AgentType, NEW b \in AgentType, NEW r \in [Id -> RunType],
         Base(a, r), Step(a, b)
  PROVE  Base(b, r)
<1>1. a.nextID \in Nat /\ b.nextID \in Nat /\ a.first \in Nat /\ b.first \in Nat
  BY Bounds DEF AgentType
<1>2. b.first <= b.nextID /\ b.slot <= b.nextID /\ b.chat <= b.nextID
  <2>1. a.slot \in Nat /\ b.slot \in Nat /\ a.chat \in Nat /\ b.chat \in Nat
    BY Bounds DEF AgentType
  <2> QED BY <1>1, <2>1 DEF Base, Step, Fresh, Nobody
<1>3. ASSUME NEW g \in Id, g > b.nextID
      PROVE  r[g].pc = "start"
  BY <1>1, <1>3 DEF Base, Step, Id
<1>4. ASSUME NEW g \in Id, g <= b.nextID, b.task[g].kind = "chat"
      PROVE  r[g].pc # "page"
  <2>1. CASE g <= a.nextID
    <3>1. g \in 1 .. a.nextID
      BY <1>1, <2>1, Bounds DEF Id
    <3> QED BY <1>4, <2>1, <3>1 DEF Base, Step
  <2>2. CASE ~(g <= a.nextID)
    BY <1>1, <2>2, Bounds DEF Base, Id
  <2> QED BY <2>1, <2>2
<1> QED BY <1>2, <1>3, <1>4 DEF Base

LEMMA OwnStep ==
  ASSUME setup \in Setups, NEW a \in AgentType, NEW b \in AgentType, NEW r \in [Id -> RunType],
         Base(a, r), Own(a, r), Step(a, b), Left(a, b, r)
  PROVE  Own(b, r)
<1>1. /\ a.nextID \in Nat /\ b.nextID \in Nat /\ a.first \in Nat /\ b.first = a.first /\ a.nextID <= b.nextID
      /\ a.first <= a.nextID /\ a.slot \in Nat /\ a.chat \in Nat /\ b.slot \in Nat /\ b.chat \in Nat
  BY Bounds DEF AgentType, Step, Base
<1>2. ASSUME NEW g \in Fresh(a, b)
      PROVE  /\ g \in Id /\ g > a.nextID /\ g <= b.nextID /\ a.first < g /\ g # Nobody
             /\ r[g].pc = "start" /\ g = InPlace(b, g) /\ b.task[g].page = Nobody /\ b.task[g].state = "running"
  <2>1. g \in Nat /\ g > a.nextID /\ g <= b.nextID
    BY <1>1 DEF Fresh
  <2>2. g \in Id
    <3>1. b.nextID <= setup.tasks
      BY Bounds DEF AgentType, Ref, Task, Nobody
    <3>2. g \in Task
      BY <1>1, <2>1, <3>1, Bounds DEF Task
    <3> QED BY <3>2, Bounds
  <2> QED BY <1>1, <2>1, <2>2 DEF Base, Step, Nobody
<1>3. ASSUME NEW h \in Nat, a.first < h, h <= a.nextID
      PROVE  /\ h \in 1 .. a.nextID /\ h \in Id
             /\ b.task[h].kind = a.task[h].kind /\ b.task[h].page = a.task[h].page
             /\ h \notin {a.slot, a.chat} => b.task[h].state = a.task[h].state
  <2>1. h \in 1 .. a.nextID
    BY <1>1, <1>3
  <2> QED BY <2>1, Older DEF Step
<1>4. b.slot # Nobody =>
       /\ b.first < b.slot /\ b.slot <= b.nextID /\ b.task[b.slot].kind # "chat"
       /\ b.task[b.slot].state # "running" => r[b.slot].pc \notin Unknown
       /\ b.task[b.slot].page \in {b.slot, Nobody}
       /\ r[b.slot].pc \in {"page", "serve", "wait"} => b.stop = b.slot
  <2>1. CASE b.slot \in Fresh(a, b) /\ b.task[b.slot].kind # "chat"
    BY <1>1, <1>2, <2>1
  <2>2. CASE b.slot = a.slot /\ a.slot # Nobody
    BY <1>1, <1>3, <2>2 DEF Own, Left
  <2>3. b.slot \in {a.slot, Nobody} \/ (b.slot \in Fresh(a, b) /\ b.task[b.slot].kind # "chat")
    BY DEF Step
  <2> QED BY <2>1, <2>2, <2>3
<1>5. b.chat # Nobody =>
       /\ b.first < b.chat /\ b.chat <= b.nextID /\ b.task[b.chat].kind = "chat"
       /\ b.task[b.chat].state # "running" => r[b.chat].pc \notin Unknown \cup {"serve"}
       /\ b.task[b.chat].page \in {b.chat, Nobody}
       /\ r[b.chat].pc \in {"page", "serve", "wait"} => b.chatStop = b.chat
  <2>1. CASE b.chat \in Fresh(a, b) /\ b.task[b.chat].kind = "chat"
    BY <1>1, <1>2, <2>1 DEF Unknown
  <2>2. CASE b.chat = a.chat /\ a.chat # Nobody
    BY <1>1, <1>3, <2>2 DEF Own, Left
  <2>3. b.chat \in {a.chat, Nobody} \/ (b.chat \in Fresh(a, b) /\ b.task[b.chat].kind = "chat")
    BY DEF Step
  <2> QED BY <2>1, <2>2, <2>3
<1>6. b.stop \in {b.slot, Nobody}
  BY DEF Own, Left
<1>7. ASSUME NEW g \in Id, b.first < g, g <= b.nextID
      PROVE  /\ r[g].pc \in Unknown \cup {"page", "serve"} => g = InPlace(b, g)
             /\ r[g].pc \in {"hook", "register", "page", "serve", "wait"} => r[g].bound = g
  <2>1. CASE g <= a.nextID
    <3>1. g \in Nat /\ a.first < g
      BY <1>1, <1>7, Bounds DEF Id
    <3>2. b.task[g].kind = a.task[g].kind /\ g # Nobody
      BY <1>3, <2>1, <3>1 DEF Id, Nobody
    <3>3. r[g].pc \in {"hook", "register", "page", "serve", "wait"} => r[g].bound = g
      BY <2>1, <3>1 DEF Own
    <3>4. ASSUME r[g].pc \in Unknown \cup {"page", "serve"}
          PROVE  g = InPlace(b, g)
      <4>1. g = InPlace(a, g)
        BY <2>1, <3>1, <3>4 DEF Own
      <4>2. CASE a.task[g].kind = "chat"
        <5>1. g = a.chat /\ r[g].pc # "page"
          BY <2>1, <4>1, <4>2 DEF InPlace, Base
        <5>2. b.chat = a.chat
          BY <3>2, <3>4, <5>1 DEF Left
        <5> QED BY <3>2, <4>2, <5>1, <5>2 DEF InPlace
      <4>3. CASE a.task[g].kind # "chat"
        <5>1. g = a.slot
          BY <4>1, <4>3 DEF InPlace
        <5>2. b.slot = a.slot
          BY <3>2, <3>4, <5>1 DEF Left
        <5> QED BY <3>2, <4>3, <5>1, <5>2 DEF InPlace
      <4> QED BY <4>2, <4>3
    <3> QED BY <3>3, <3>4
  <2>2. CASE ~(g <= a.nextID)
    <3>1. g \in Fresh(a, b)
      BY <1>1, <1>7, <2>2, Bounds DEF Fresh, Id
    <3> QED BY <1>2, <3>1
  <2> QED BY <2>1, <2>2
<1> QED BY <1>4, <1>5, <1>6, <1>7 DEF Own

LEMMA RecStep ==
  ASSUME setup \in Setups, NEW a \in AgentType, NEW b \in AgentType, NEW r \in [Id -> RunType],
         Base(a, r), Rec(a, r), Step(a, b), Told(a, b, r)
  PROVE  Rec(b, r)
<1> SUFFICES ASSUME Len(b.history) < MaxHistory
             PROVE  /\ \A g \in Id : b.first < g /\ g <= b.nextID /\ b.slot # g /\ b.task[g].kind # "chat" => Noted(b, r, g)
                    /\ setup.gui /\ b.slot # Nobody /\ b.stop = Nobody /\ r[b.slot].pc \notin Unknown => Noted(b, r, b.slot)
  BY DEF Rec
<1>1. /\ a.nextID \in Nat /\ b.nextID \in Nat /\ a.first \in Nat /\ b.first = a.first /\ a.nextID <= b.nextID
      /\ a.first <= a.nextID /\ a.slot \in Nat /\ a.chat \in Nat /\ b.slot \in Nat /\ b.chat \in Nat
  BY Bounds DEF AgentType, Step, Base
<1>2. Len(a.history) < MaxHistory /\ \A h \in Task : Listed(a, h) => Listed(b, h)
  BY DEF Step, Grows
<1>3. ASSUME NEW h \in Id, h <= a.nextID, Noted(a, r, h), b.task[h].moved = a.task[h].moved
      PROVE  Noted(b, r, h)
  <2>1. h \in 1 .. a.nextID
    BY <1>1, <1>3, Bounds DEF Id
  <2>2. h \in Task /\ b.task[h].kind = a.task[h].kind
    BY <2>1, Older DEF Step
  <2>3. Kept(b, h) = Kept(a, h)
    BY <1>3, <2>2 DEF Kept, KeptByGui
  <2> QED BY <1>2, <1>3, <2>2, <2>3 DEF Noted
<1>4. ASSUME NEW g \in Id, b.first < g, g <= b.nextID, b.slot # g, b.task[g].kind # "chat"
      PROVE  Noted(b, r, g)
  <2>1. CASE ~(g <= a.nextID)
    <3>1. g \in Fresh(a, b)
      BY <1>1, <1>4, <2>1, Bounds DEF Fresh, Id
    <3>2. g = InPlace(b, g)
      BY <3>1 DEF Step
    <3> QED BY <1>4, <3>2 DEF InPlace
  <2>2. CASE g <= a.nextID
    <3>1. g \in 1 .. a.nextID /\ g # Nobody
      BY <1>1, <2>2, Bounds DEF Id, Nobody
    <3>2. b.task[g].kind = a.task[g].kind
      BY <3>1 DEF Step
    <3>3. CASE g = a.slot
      BY <1>4, <3>1, <3>2, <3>3 DEF Told
    <3>4. CASE g # a.slot
      <4>1. b.task[g].moved = a.task[g].moved
        BY <3>1, <3>4 DEF Step
      <4>2. Noted(a, r, g)
        BY <1>1, <1>2, <1>4, <2>2, <3>2, <3>4 DEF Rec
      <4> QED BY <1>3, <2>2, <4>1, <4>2
    <3> QED BY <3>3, <3>4
  <2> QED BY <2>1, <2>2
<1>5. ASSUME setup.gui, b.slot # Nobody, b.stop = Nobody, r[b.slot].pc \notin Unknown
      PROVE  Noted(b, r, b.slot)
  <2>1. CASE b.slot \in Fresh(a, b)
    <3>1. b.slot \in Id
      BY <1>5, Bounds DEF AgentType, Ref
    <3> QED BY <1>1, <1>5, <2>1, <3>1 DEF Fresh, Base, Unknown
  <2>2. CASE b.slot = a.slot
    <3>1. a.slot \in Id /\ a.slot <= a.nextID
      BY <1>5, <2>2, Bounds DEF AgentType, Ref, Base
    <3>2. Noted(b, r, a.slot) \/ (a.stop = Nobody /\ b.task[a.slot].moved = a.task[a.slot].moved)
      BY <1>5, <2>2 DEF Told
    <3> QED BY <1>2, <1>3, <1>5, <2>2, <3>1, <3>2 DEF Rec
  <2> QED BY <1>5, <2>1, <2>2 DEF Step
<1> QED BY <1>4, <1>5

-----------------------------------------------------------------------------
(* The commands                                                             *)

(* None of them touches the history or a callback, and who loses his place  *)
(* cannot be stopped any more.                                              *)
Commanded(a, b) ==
  /\ b \in AgentType /\ b.history = a.history /\ b.stop = a.stop /\ b.chatStop = a.chatStop
  /\ Load(b) <= setup.tasks /\ Step(a, b)
  /\ \A h \in 1 .. a.nextID : b.task[h].moved = a.task[h].moved
  /\ b.slot # a.slot => a.slot = Nobody \/ (setup.gui /\ a.stop = Nobody)

SlotAlone(a, b) == b.slot = a.slot /\ b.task[a.slot].state = a.task[a.slot].state
ChatAlone(a, b) == b.chat = a.chat /\ b.task[a.chat].state = a.task[a.chat].state
Touched(a, b) == b \in AgentType /\ b.touched /\ Commanded(a, b)

LEMMA GrowsSame ==
  ASSUME NEW a, NEW b, Rest(b) = Rest(a)
  PROVE  Grows(a, b) /\ b.first = a.first /\ b.history = a.history
BY DEF Grows, Rest, Listed

LEMMA NextAt ==
  ASSUME setup \in Setups, NEW a \in AgentType, NEW n \in Nat
  PROVE  /\ a.nextID \in Nat /\ (n = a.nextID => a.nextID + 1 .. n = {})
         /\ (n = a.nextID + 1 => a.nextID + 1 .. n = {n} /\ n > a.nextID /\ n # Nobody)
BY Bounds DEF AgentType, Nobody

LEMMA ReplacedCommands ==
  ASSUME setup \in Setups, NEW a \in AgentType, NEW b, Replaced(a, b), Load(a) <= setup.tasks
  PROVE  /\ Commanded(a, b)
         /\ a.chat \in 1 .. a.nextID /\ a.chat # a.slot => ChatAlone(a, b)
<1>1. b \in AgentType /\ a.nextID \in Nat /\ b.nextID \in Nat
  BY Bounds DEF Replaced, AgentType
<1>2. Grows(a, b) /\ b.first = a.first /\ b.history = a.history
  BY GrowsSame DEF Replaced
<1>3. /\ a.nextID <= b.nextID
      /\ \A g \in Fresh(a, b) : g = InPlace(b, g) /\ b.task[g].page = Nobody /\ b.task[g].state = "running"
      /\ b.slot \in {a.slot, Nobody} \/ (b.slot \in Fresh(a, b) /\ b.task[b.slot].kind # "chat")
  <2>1. CASE b.nextID = a.nextID /\ b.slot \in {a.slot, Nobody}
    BY <1>1, <2>1, NextAt DEF Fresh
  <2>2. CASE /\ b.nextID = a.nextID + 1 /\ b.slot = b.nextID
             /\ b.task[b.slot].kind \in Transfers /\ b.task[b.slot].page = Nobody /\ b.task[b.slot].state = "running"
    <3>1. Fresh(a, b) = {b.slot} /\ b.nextID > a.nextID
      BY <1>1, <2>2, NextAt DEF Fresh
    <3>2. b.task[b.slot].kind # "chat"
      BY <2>2 DEF Transfers
    <3> QED BY <1>1, <2>2, <3>1, <3>2 DEF InPlace
  <2> QED BY <2>1, <2>2 DEF Replaced, Starts
<1> QED BY <1>1, <1>2, <1>3 DEF Replaced, Commanded, Step, Still, ChatAlone

Places(a) == <<a.slot, a.chat, a.stop, a.chatStop, a.task, a.nextID>>

LEMMA TouchedIs ==
  ASSUME setup \in Setups, NEW a \in AgentType, NEW q \in AgentType, Rest(q) = Rest(a), Places(q) = Places(a),
         NEW d \in AgentType, Commanded(q, d)
  PROVE  /\ Touched(a, Touch(d))
         /\ ChatAlone(q, d) => ChatAlone(a, Touch(d))
         /\ SlotAlone(q, d) => SlotAlone(a, Touch(d))
<1> DEFINE b == Touch(d)
<1>1. b \in AgentType /\ Rest(b) = Rest(d) /\ Table(b) = Table(d) /\ b.touched
  BY TouchIs
<1> HIDE DEF b
<1>2. /\ b.slot = d.slot /\ b.chat = d.chat /\ b.stop = d.stop /\ b.chatStop = d.chatStop /\ b.task = d.task
      /\ b.nextID = d.nextID /\ b.queue = d.queue /\ b.first = d.first /\ b.history = d.history
  BY <1>1 DEF Table, Rest
<1>3. /\ q.slot = a.slot /\ q.chat = a.chat /\ q.stop = a.stop /\ q.chatStop = a.chatStop /\ q.task = a.task
      /\ q.nextID = a.nextID /\ q.first = a.first /\ q.history = a.history
  BY DEF Places, Rest
<1>4. Load(b) = Load(d) /\ Fresh(a, b) = Fresh(q, d) /\ Grows(a, b) = Grows(q, d)
  BY <1>2, <1>3 DEF Load, Fresh, Grows, Listed
<1>5. Step(q, d) => Step(a, b)
  BY <1>2, <1>3, <1>4 DEF Step, InPlace
<1> QED BY <1>1, <1>2, <1>3, <1>4, <1>5 DEF Touched, Commanded, ChatAlone, SlotAlone, b

(* handleTasks, repeatTask: the new transfer waits, or starts at once.      *)
LEMMA EnqueueIs ==
  ASSUME setup \in Setups, NEW a \in AgentType, Load(a) < setup.tasks, NEW kind \in Transfers
  PROVE  LET b == Enqueue(a, kind) IN
         Touched(a, b) /\ (a.chat \in 1 .. a.nextID /\ a.chat # a.slot => ChatAlone(a, b))
<1> DEFINE s == Append(a.queue, kind)
           q == [a EXCEPT !.queue = s]
           c == IF q.slot # Nobody THEN ReplaceActive(q, "replaced") ELSE q
           d == StartNext(c)
<1>0. a.queue \in Seq(Transfers) /\ a.nextID \in Nat /\ Len(a.queue) \in Nat /\ setup.tasks \in Nat
  BY Bounds DEF AgentType
<1>1. s \in Seq(Transfers) /\ Len(s) = Len(a.queue) + 1
  BY <1>0
<1>2. Enqueue(a, kind) = Touch(d)
  BY DEF Enqueue
<1> HIDE DEF s
<1>3. /\ q \in AgentType /\ Rest(q) = Rest(a) /\ Places(q) = Places(a) /\ q.queue = s /\ q.nextID = a.nextID
  BY <1>1 DEF AgentType, Rest, Places
<1> HIDE DEF q
<1>4. Load(q) <= setup.tasks
  BY <1>0, <1>1, <1>3 DEF Load
<1>5. Replaced(q, c)
  <2>1. CASE q.slot # Nobody
    BY <1>3, <1>4, <2>1, ReplaceActiveIs
  <2>2. CASE q.slot = Nobody
    BY <1>3, <2>2 DEF Replaced, Still
  <2> QED BY <2>1, <2>2
<1> HIDE DEF c
<1>6. Resumed(c, d)
  BY <1>4, <1>5, StartNextIs DEF Replaced
<1> HIDE DEF d
<1>7. Replaced(q, d)
  <2>1. CASE d = c
    BY <1>5, <2>1
  <2>2. CASE d # c
    <3>1. /\ d \in AgentType /\ Rest(d) = Rest(q) /\ d.touched = q.touched /\ Load(d) = Load(q)
          /\ <<d.chat, d.stop, d.chatStop>> = <<q.chat, q.stop, q.chatStop>>
      BY <1>5, <1>6 DEF Replaced, Resumed
    <3>2. c.slot = Nobody /\ d.nextID = c.nextID + 1 /\ d.slot = d.nextID /\ d.slot \in Task
      BY <1>6, <2>2 DEF Resumed
    <3>3. c.nextID = q.nextID /\ (q.slot = Nobody \/ (setup.gui /\ q.stop = Nobody))
      BY <1>5, <3>2, Bounds DEF Replaced, Starts
    <3>4. Starts(q, d)
      BY <1>6, <2>2, <3>3 DEF Starts, Resumed
    <3>5. Still(q, d, q.slot)
      BY <1>3, <1>5, <1>6, <2>2, <3>2, <3>3, Older DEF Still, Replaced, Resumed
    <3> QED BY <3>1, <3>3, <3>4, <3>5 DEF Replaced
  <2> QED BY <2>1, <2>2
<1>8. d \in AgentType /\ Commanded(q, d) /\ (q.chat \in 1 .. q.nextID /\ q.chat # q.slot => ChatAlone(q, d))
  BY <1>3, <1>4, <1>7, ReplacedCommands DEF Replaced
<1> QED BY <1>2, <1>3, <1>8, TouchedIs DEF Places

LEMMA ChatReplacedCommands ==
  ASSUME setup \in Setups, NEW a \in AgentType, NEW b, ChatReplaced(a, b), Load(a) <= setup.tasks
  PROVE  Commanded(a, b) /\ b.chat = a.chat /\ (a.slot \in 1 .. a.nextID /\ a.slot # a.chat => SlotAlone(a, b))
<1>1. b \in AgentType /\ a.nextID \in Nat /\ b.nextID = a.nextID
  BY Bounds DEF ChatReplaced, AgentType
<1>2. Grows(a, b) /\ b.first = a.first /\ b.history = a.history
  BY GrowsSame DEF ChatReplaced
<1>3. Fresh(a, b) = {}
  BY <1>1, NextAt DEF Fresh
<1> QED BY <1>1, <1>2, <1>3 DEF ChatReplaced, Commanded, Step, Still, SlotAlone

(* stop-current and stop-chat.                                              *)
LEMMA StopCurrentIs ==
  ASSUME setup \in Setups, NEW a \in AgentType, Load(a) <= setup.tasks, a.slot # Nobody
  PROVE  LET b == Touch(ReplaceActive(a, "stopped")) IN
         Touched(a, b) /\ (a.chat \in 1 .. a.nextID /\ a.chat # a.slot => ChatAlone(a, b))
<1> DEFINE d == ReplaceActive(a, "stopped")
<1>1. Replaced(a, d)
  BY ReplaceActiveIs
<1> HIDE DEF d
<1>2. d \in AgentType /\ Commanded(a, d) /\ (a.chat \in 1 .. a.nextID /\ a.chat # a.slot => ChatAlone(a, d))
  BY <1>1, ReplacedCommands DEF Replaced
<1>3. Touched(a, Touch(d)) /\ (ChatAlone(a, d) => ChatAlone(a, Touch(d)))
  BY <1>2, TouchedIs
<1> QED BY <1>2, <1>3 DEF d

LEMMA StopChatIs ==
  ASSUME setup \in Setups, NEW a \in AgentType, Load(a) <= setup.tasks
  PROVE  LET b == Touch(ReplaceChat(a, "stopped")) IN
         Touched(a, b) /\ (a.slot \in 1 .. a.nextID /\ a.slot # a.chat => SlotAlone(a, b))
<1> DEFINE d == ReplaceChat(a, "stopped")
<1>1. ChatReplaced(a, d)
  BY ReplaceChatIs
<1> HIDE DEF d
<1>2. d \in AgentType /\ Commanded(a, d) /\ (a.slot \in 1 .. a.nextID /\ a.slot # a.chat => SlotAlone(a, d))
  BY <1>1, ChatReplacedCommands DEF ChatReplaced
<1>3. Touched(a, Touch(d)) /\ (SlotAlone(a, d) => SlotAlone(a, Touch(d)))
  BY <1>2, TouchedIs
<1> QED BY <1>2, <1>3 DEF d

(* A chat starts after either.                                              *)
LEMMA ChatCommands ==
  ASSUME setup \in Setups, NEW a \in AgentType, NEW b \in AgentType, NEW c,
         Commanded(a, b), b.chat = a.chat, a.chat <= a.nextID, Chatting(b, c), Load(b) < setup.tasks
  PROVE  Commanded(a, c) /\ (a.slot \in 1 .. a.nextID /\ SlotAlone(a, b) => SlotAlone(a, c))
<1>1. /\ a.nextID \in Nat /\ b.nextID \in Nat /\ a.nextID <= b.nextID /\ c.nextID = b.nextID + 1
      /\ a.chat \in Nat /\ b.slot \in Nat /\ b.queue \in Seq(Transfers) /\ c \in AgentType
  BY Bounds DEF AgentType, Chatting, Commanded, Step
<1>2. Load(c) <= setup.tasks
  <2>1. Load(b) \in Nat /\ setup.tasks \in Nat /\ Load(c) = Load(b) + 1
    BY <1>1, Bounds DEF Load, Chatting
  <2> QED BY <2>1
<1>3. c.first = b.first /\ c.history = b.history /\ c.slot = b.slot /\ c.stop = b.stop /\ c.chatStop = b.chatStop
  BY DEF Chatting, Rest
<1>4. Grows(a, c)
  BY <1>3 DEF Commanded, Step, Grows, Listed
<1>5. \A h \in 1 .. b.nextID : h \in Id /\ h # c.chat /\ c.task[h] = b.task[h]
  BY <1>1, Older DEF Chatting
<1>6. \A h \in 1 .. a.nextID : h \in 1 .. b.nextID
  BY <1>1
<1>7. ASSUME NEW g \in Fresh(a, c)
      PROVE  /\ g = InPlace(c, g) /\ c.task[g].page = Nobody /\ c.task[g].state = "running"
             /\ g = c.chat \/ g \in Fresh(a, b)
  <2>1. g \in Nat /\ a.nextID < g /\ g <= b.nextID + 1
    BY <1>1 DEF Fresh
  <2>2. CASE g = b.nextID + 1
    BY <2>2 DEF Chatting, InPlace
  <2>3. CASE g # b.nextID + 1
    <3>1. g \in Fresh(a, b) /\ g \in 1 .. b.nextID
      BY <1>1, <2>1, <2>3 DEF Fresh
    <3>2. g = InPlace(b, g) /\ b.task[g].page = Nobody /\ b.task[g].state = "running"
      BY <3>1 DEF Commanded, Step
    <3>3. g # a.chat
      BY <1>1, <2>1
    <3> QED BY <1>3, <1>5, <3>1, <3>2, <3>3 DEF InPlace
  <2> QED BY <2>2, <2>3
<1>8. c.chat \in Fresh(a, c) /\ c.task[c.chat].kind = "chat"
  BY <1>1 DEF Chatting, Fresh
<1>9. c.slot \in {a.slot, Nobody} \/ (c.slot \in Fresh(a, c) /\ c.task[c.slot].kind # "chat")
  <2>1. CASE b.slot \in {a.slot, Nobody}
    BY <1>3, <2>1
  <2>2. CASE b.slot \in Fresh(a, b) /\ b.task[b.slot].kind # "chat"
    <3>1. b.slot \in 1 .. b.nextID /\ b.slot \in Fresh(a, c)
      BY <1>1, <2>2 DEF Fresh
    <3> QED BY <1>3, <1>5, <2>2, <3>1
  <2> QED BY <2>1, <2>2 DEF Commanded, Step
<1>10. Step(a, c)
  <2>1. \A h \in 1 .. a.nextID : /\ c.task[h].kind = a.task[h].kind /\ c.task[h].page = a.task[h].page
                                 /\ h # a.slot => c.task[h].moved = a.task[h].moved
                                 /\ h \notin {a.slot, a.chat} => c.task[h].state = a.task[h].state
    BY <1>5, <1>6 DEF Commanded, Step
  <2>2. a.nextID <= c.nextID /\ c.first = a.first
    BY <1>1, <1>3 DEF Commanded, Step
  <2> QED BY <1>4, <1>7, <1>8, <1>9, <2>1, <2>2 DEF Step
<1>11. \A h \in 1 .. a.nextID : c.task[h].moved = a.task[h].moved
  BY <1>5, <1>6 DEF Commanded
<1>12. a.slot \in 1 .. a.nextID /\ SlotAlone(a, b) => SlotAlone(a, c)
  BY <1>3, <1>5, <1>6 DEF SlotAlone
<1> QED BY <1>1, <1>2, <1>3, <1>10, <1>11, <1>12 DEF Commanded

LEMMA NothingCommanded ==
  ASSUME setup \in Setups, NEW a \in AgentType, Load(a) <= setup.tasks
  PROVE  Commanded(a, a) /\ SlotAlone(a, a)
<1>1. Fresh(a, a) = {} /\ a.nextID \in Nat
  BY NextAt DEF Fresh
<1>2. Grows(a, a)
  BY GrowsSame
<1> QED BY <1>1, <1>2 DEF Commanded, Step, SlotAlone

LEMMA PushChatIs ==
  ASSUME setup \in Setups, NEW a \in AgentType, Load(a) < setup.tasks, a.chat <= a.nextID
  PROVE  LET b == IF a.slot # Nobody THEN ReplaceActive(a, "stopped") ELSE a IN
         Touched(a, Touch(StartChat(b)))
<1> DEFINE b == IF a.slot # Nobody THEN ReplaceActive(a, "stopped") ELSE a
           c == StartChat(b)
<1>0. Load(a) \in Nat /\ setup.tasks \in Nat
  BY Bounds DEF Load, AgentType
<1>1. b \in AgentType /\ Commanded(a, b) /\ b.chat = a.chat /\ Load(b) = Load(a)
  <2>1. CASE a.slot # Nobody
    <3>1. Replaced(a, ReplaceActive(a, "stopped"))
      BY <1>0, <2>1, ReplaceActiveIs
    <3>2. Commanded(a, ReplaceActive(a, "stopped"))
      BY <1>0, <3>1, ReplacedCommands
    <3> QED BY <2>1, <3>1, <3>2 DEF Replaced
  <2>2. CASE a.slot = Nobody
    BY <1>0, <2>2, NothingCommanded
  <2> QED BY <2>1, <2>2
<1> HIDE DEF b
<1>2. Chatting(b, c)
  BY <1>1, StartChatIs
<1> HIDE DEF c
<1>3. Commanded(a, c) /\ c \in AgentType
  BY <1>1, <1>2, ChatCommands DEF Chatting
<1>4. Touched(a, Touch(c))
  BY <1>3, TouchedIs
<1> QED BY <1>4 DEF b, c

LEMMA RepeatChatIs ==
  ASSUME setup \in Setups, NEW a \in AgentType, Load(a) < setup.tasks, a.chat <= a.nextID
  PROVE  LET b == Touch(StartChat(IF a.chat = Nobody THEN a ELSE ReplaceChat(a, "replaced"))) IN
         Touched(a, b) /\ (a.slot \in 1 .. a.nextID /\ a.slot # a.chat => SlotAlone(a, b))
<1> DEFINE b == IF a.chat = Nobody THEN a ELSE ReplaceChat(a, "replaced")
           c == StartChat(b)
<1>0. Load(a) \in Nat /\ setup.tasks \in Nat
  BY Bounds DEF Load, AgentType
<1>1. /\ b \in AgentType /\ Commanded(a, b) /\ b.chat = a.chat /\ Load(b) = Load(a)
      /\ a.slot \in 1 .. a.nextID /\ a.slot # a.chat => SlotAlone(a, b)
  <2>1. CASE a.chat # Nobody
    <3>1. ChatReplaced(a, ReplaceChat(a, "replaced"))
      BY ReplaceChatIs
    <3>2. /\ Commanded(a, ReplaceChat(a, "replaced"))
          /\ a.slot \in 1 .. a.nextID /\ a.slot # a.chat => SlotAlone(a, ReplaceChat(a, "replaced"))
      BY <1>0, <3>1, ChatReplacedCommands
    <3> QED BY <2>1, <3>1, <3>2 DEF ChatReplaced
  <2>2. CASE a.chat = Nobody
    BY <1>0, <2>2, NothingCommanded
  <2> QED BY <2>1, <2>2
<1> HIDE DEF b
<1>2. Chatting(b, c)
  BY <1>1, StartChatIs
<1> HIDE DEF c
<1>3. /\ Commanded(a, c) /\ c \in AgentType
      /\ a.slot \in 1 .. a.nextID /\ a.slot # a.chat => SlotAlone(a, c)
  BY <1>1, <1>2, ChatCommands DEF Chatting
<1>4. Touched(a, Touch(c)) /\ (SlotAlone(a, c) => SlotAlone(a, Touch(c)))
  BY <1>3, TouchedIs
<1> QED BY <1>3, <1>4 DEF b, c

(* A task that was being prepared is stopped only in haste.                 *)
Gets(a, r, g) == r[g].pc \in Unknown \/ (a.task[g].kind = "chat" /\ r[g].pc = "serve")

LEMMA CommandLeft ==
  ASSUME setup \in Setups, NEW a \in AgentType, NEW b \in AgentType, NEW r \in [Id -> RunType],
         Own(a, r), Commanded(a, b),
         a.slot # Nobody => ~Gets(a, r, a.slot) \/ SlotAlone(a, b),
         a.chat # Nobody => ~Gets(a, r, a.chat) \/ a.task[a.chat].state # "running" \/ ChatAlone(a, b)
  PROVE  Left(a, b, r)
BY DEF Own, Commanded, Gets, SlotAlone, ChatAlone, Left

LEMMA CommandTold ==
  ASSUME setup \in Setups, NEW a \in AgentType, NEW b \in AgentType, NEW r \in [Id -> RunType],
         Base(a, r), Rec(a, r), Commanded(a, b),
         setup.gui => Own(a, r) /\ (a.slot # Nobody => ~Gets(a, r, a.slot) \/ SlotAlone(a, b))
  PROVE  Told(a, b, r)
<1> SUFFICES ASSUME Len(b.history) < MaxHistory, a.slot # Nobody
             PROVE  /\ b.slot # a.slot /\ a.task[a.slot].kind # "chat" => Noted(b, r, a.slot)
                    /\ setup.gui /\ b.slot = a.slot /\ b.stop = Nobody =>
                         \/ Noted(b, r, a.slot)
                         \/ a.stop = Nobody /\ b.task[a.slot].moved = a.task[a.slot].moved
  BY DEF Told
<1>1. a.slot \in 1 .. a.nextID
  <2>1. a.slot \in Nat /\ a.nextID \in Nat
    BY Bounds DEF AgentType
  <2> QED BY <2>1 DEF Base, Nobody
<1>2. b.task[a.slot].kind = a.task[a.slot].kind /\ b.task[a.slot].moved = a.task[a.slot].moved /\ b.history = a.history
  BY <1>1 DEF Commanded, Step
<1>3. ASSUME b.slot # a.slot
      PROVE  Noted(b, r, a.slot)
  <2>1. setup.gui /\ a.stop = Nobody
    BY <1>3 DEF Commanded
  <2>2. r[a.slot].pc \notin Unknown
    BY <1>3, <2>1 DEF Gets, SlotAlone
  <2>3. Noted(a, r, a.slot)
    BY <1>2, <2>1, <2>2 DEF Rec
  <2> QED BY <1>2, <2>3 DEF Noted, Listed, Kept, KeptByGui
<1> QED BY <1>2, <1>3 DEF Commanded

-----------------------------------------------------------------------------
(* What a task's goroutine and its status hook do                           *)

(* The task of the slot ends: it is recorded, and keeps its place only on   *)
(* show, or makes room; or nothing but its state changes.                   *)
Ended(a, b, g) ==
  /\ a.slot = g /\ b \in AgentType /\ Load(b) = Load(a) /\ Step(a, b)
  /\ b.chat = a.chat /\ b.chatStop = a.chatStop
  /\ \A h \in 1 .. a.nextID : h # g => b.task[h].state = a.task[h].state
  /\ \/ b.slot = g /\ b.stop = a.stop
     \/ b.stop = Nobody /\ (Len(b.history) < MaxHistory => Listed(b, g) \/ ~Kept(b, g))

(* Free and StartNext after Record.                                         *)
Released(c, d, g) ==
  /\ d \in AgentType /\ Load(d) = Load(c) /\ d.touched = c.touched /\ d.first = c.first
  /\ d.chat = c.chat /\ d.chatStop = c.chatStop /\ d.stop = Nobody
  /\ Grows(c, d) /\ Starts(c, d)
  /\ \A h \in 1 .. c.nextID : d.task[h] = c.task[h]
  /\ Len(d.history) < MaxHistory => Listed(d, g) \/ ~Kept(d, g)

LEMMA ReleaseIs ==
  ASSUME setup \in Setups, NEW c \in AgentType, NEW g \in 1 .. c.nextID, Load(c) <= setup.tasks
  PROVE  Released(c, StartNext(Free(Record(c, g))), g)
<1> DEFINE e == Record(c, g)
           f == Free(e)
           d == StartNext(f)
<1>0. g \in Task /\ c.nextID \in Nat
  BY Older
<1>1. Entered(c, e, g)
  BY <1>0, RecordIs
<1> HIDE DEF e
<1>2. /\ f \in AgentType /\ Rest(f) = Rest(e) /\ f.touched = e.touched
      /\ f.slot = Nobody /\ f.stop = Nobody
      /\ <<f.chat, f.chatStop, f.task, f.nextID, f.queue>> = <<e.chat, e.chatStop, e.task, e.nextID, e.queue>>
  BY <1>1, FreeIs DEF Entered
<1> HIDE DEF f
<1>3. /\ f.first = c.first /\ f.history = e.history /\ f.chat = c.chat /\ f.chatStop = c.chatStop /\ f.task = c.task
      /\ f.nextID = c.nextID /\ f.queue = c.queue /\ f.touched = c.touched
  BY <1>1, <1>2 DEF Entered, Table, Rest
<1>4. Load(f) = Load(c)
  BY <1>3 DEF Load
<1>5. Resumed(f, d)
  BY <1>2, <1>4, StartNextIs
<1> HIDE DEF d
<1>6. d.first = c.first /\ d.history = e.history
  BY <1>3, <1>5 DEF Resumed, Rest
<1>7. Grows(c, d)
  BY <1>1, <1>6 DEF Entered, Grows, Listed
<1>8. \A h \in 1 .. c.nextID : d.task[h] = c.task[h]
  BY <1>3, <1>5, Older DEF Resumed
<1>9. Starts(c, d)
  BY <1>2, <1>3, <1>5 DEF Resumed, Starts
<1>10. Len(d.history) < MaxHistory => Listed(d, g) \/ ~Kept(d, g)
  BY <1>1, <1>6, <1>8 DEF Entered, Listed, Kept, KeptByGui
<1>11. /\ d \in AgentType /\ Load(d) = Load(c) /\ d.touched = c.touched
       /\ d.chat = c.chat /\ d.chatStop = c.chatStop /\ d.stop = Nobody
  BY <1>1, <1>2, <1>3, <1>4, <1>5 DEF Resumed
<1> QED BY <1>6, <1>7, <1>8, <1>9, <1>10, <1>11 DEF Released, d, f, e, Entered

(* From a to c only the state of g changed, and whether it moved anything.  *)
Marked(a, c, g) ==
  /\ c \in AgentType /\ Rest(c) = Rest(a) /\ Load(c) = Load(a)
  /\ <<c.slot, c.chat, c.stop, c.chatStop, c.nextID>> = <<a.slot, a.chat, a.stop, a.chatStop, a.nextID>>
  /\ \A h \in 1 .. a.nextID : /\ c.task[h].kind = a.task[h].kind /\ c.task[h].page = a.task[h].page
                              /\ h # g => c.task[h].state = a.task[h].state /\ c.task[h].moved = a.task[h].moved

LEMMA MarkedEnds ==
  ASSUME setup \in Setups, NEW a \in AgentType, NEW c, NEW g \in 1 .. a.nextID, a.slot = g, Marked(a, c, g)
  PROVE  Ended(a, c, g)
<1>1. Fresh(a, c) = {} /\ a.nextID \in Nat /\ c.nextID = a.nextID
  BY NextAt DEF Marked, Fresh
<1>2. Grows(a, c) /\ c.first = a.first
  BY GrowsSame DEF Marked
<1> QED BY <1>1, <1>2 DEF Marked, Ended, Step

LEMMA ReleasedEnds ==
  ASSUME setup \in Setups, NEW a \in AgentType, NEW c, NEW d, NEW g \in 1 .. a.nextID, a.slot = g,
         Marked(a, c, g), Released(c, d, g)
  PROVE  Ended(a, d, g) /\ d.slot # g
<1>1. a.nextID \in Nat /\ d.nextID \in Nat /\ c.nextID = a.nextID /\ d \in AgentType
  BY Bounds DEF AgentType, Marked, Released
<1>2. Grows(a, d) /\ d.first = a.first
  <2>1. Grows(a, c) /\ c.first = a.first
    BY GrowsSame DEF Marked
  <2> QED BY <2>1 DEF Grows, Released
<1>3. /\ a.nextID <= d.nextID
      /\ \A h \in Fresh(a, d) : h = InPlace(d, h) /\ d.task[h].page = Nobody /\ d.task[h].state = "running"
      /\ d.slot \in {a.slot, Nobody} \/ (d.slot \in Fresh(a, d) /\ d.task[d.slot].kind # "chat")
  <2>1. CASE d.nextID = a.nextID /\ d.slot = Nobody
    BY <1>1, <2>1, NextAt DEF Fresh
  <2>2. CASE /\ d.nextID = a.nextID + 1 /\ d.slot = d.nextID
             /\ d.task[d.slot].kind \in Transfers /\ d.task[d.slot].page = Nobody /\ d.task[d.slot].state = "running"
    <3>1. Fresh(a, d) = {d.slot} /\ d.nextID > a.nextID
      BY <1>1, <2>2, NextAt DEF Fresh
    <3>2. d.task[d.slot].kind # "chat"
      BY <2>2 DEF Transfers
    <3> QED BY <1>1, <2>2, <3>1, <3>2 DEF InPlace
  <2> QED BY <1>1, <2>1, <2>2 DEF Released, Starts
<1>4. \A h \in 1 .. a.nextID : /\ d.task[h].kind = a.task[h].kind /\ d.task[h].page = a.task[h].page
                               /\ h # g => d.task[h].state = a.task[h].state /\ d.task[h].moved = a.task[h].moved
  BY <1>1 DEF Marked, Released
<1>5. Load(d) = Load(a) /\ d.chat = a.chat /\ d.chatStop = a.chatStop
  BY DEF Marked, Released
<1>6. Step(a, d)
  <2>1. \A h \in 1 .. a.nextID : /\ d.task[h].kind = a.task[h].kind /\ d.task[h].page = a.task[h].page
                                 /\ h # a.slot => d.task[h].moved = a.task[h].moved
                                 /\ h \notin {a.slot, a.chat} => d.task[h].state = a.task[h].state
    BY <1>4
  <2>2. d.chat \in {a.chat, Nobody} \/ (d.chat \in Fresh(a, d) /\ d.task[d.chat].kind = "chat")
    BY <1>5
  <2> QED BY <1>2, <1>3, <2>1, <2>2 DEF Step
<1>7. d.slot # g
  BY <1>1, Older DEF Released, Starts, Nobody
<1> QED BY <1>1, <1>4, <1>5, <1>6, <1>7 DEF Ended, Released

LEMMA EndedAlike ==
  ASSUME NEW a, NEW b, NEW c \in AgentType, NEW g, Ended(a, b, g), Rest(c) = Rest(b), Table(c) = Table(b)
  PROVE  Ended(a, c, g)
<1>1. /\ c.slot = b.slot /\ c.chat = b.chat /\ c.stop = b.stop /\ c.chatStop = b.chatStop /\ c.task = b.task
      /\ c.nextID = b.nextID /\ c.queue = b.queue /\ c.first = b.first /\ c.history = b.history
  BY DEF Table, Rest
<1>2. Load(c) = Load(b) /\ Fresh(a, c) = Fresh(a, b) /\ Grows(a, c) = Grows(a, b)
  BY <1>1 DEF Load, Fresh, Grows, Listed
<1>3. Step(a, b) => Step(a, c)
  BY <1>1, <1>2 DEF Step, InPlace
<1> QED BY <1>1, <1>2, <1>3 DEF Ended, Listed, Kept, KeptByGui

(* observeTransferStatus.                                                   *)
Statuses == Ending \cup {"waiting", "transferring"}

LEMMA ObserveIs ==
  ASSUME setup \in Setups, NEW a \in AgentType, NEW g \in Ref, NEW status \in Statuses, Load(a) <= setup.tasks,
         a.slot <= a.nextID
  PROVE  LET b == Observe(a, g, status) IN
         \/ b = a
         \/ /\ b.touched /\ Ended(a, b, g) /\ g \in 1 .. a.nextID
            /\ b.slot = g => b.stop = a.stop
            /\ status = "waiting" /\ a.task[g].state = "running" =>
                 b.slot = g /\ b.stop = a.stop /\ b.task[g].moved = a.task[g].moved /\ b.task[g].state = "running"
<1>1. CASE a.slot = Nobody \/ a.slot # g
  BY <1>1 DEF Observe
<1>2. CASE ~(a.slot = Nobody \/ a.slot # g)
  <2>0. a.slot = g /\ g \in 1 .. a.nextID /\ g \in Id /\ g # Nobody
    <3>1. a.slot \in Nat /\ a.nextID \in Nat
      BY Bounds DEF AgentType
    <3>2. a.slot = g /\ g \in 1 .. a.nextID
      BY <1>2, <3>1 DEF Nobody
    <3> QED BY <1>2, <3>2, Older
  <2> DEFINE t == [a.task[g] EXCEPT !.moved = TRUE]
             f == [a.task EXCEPT ![g] = t]
             b == IF status = "transferring" THEN [a EXCEPT !.task = f] ELSE a
             c == IF status \in Ending THEN Settle(b, g, status) ELSE b
             over == c.task[g].state \in Ending \/ (setup.gui /\ c.task[g].state = "replaced")
             d == StartNext(Free(Record(c, g)))
  <2>1. a.task \in [Id -> TaskType] /\ a.task[g] \in TaskType
    BY <2>0 DEF AgentType
  <2>2. t \in TaskType /\ t.kind = a.task[g].kind /\ t.page = a.task[g].page /\ t.state = a.task[g].state
    BY <2>1 DEF TaskType
  <2>3. [a EXCEPT !.task[g].moved = TRUE] = [a EXCEPT !.task = f]
    BY <2>0, <2>1
  <2>4. Observe(a, g, status) = Touch(IF over THEN d ELSE c)
    BY <1>2, <2>3 DEF Observe
  <2> HIDE DEF t
  <2>5. f \in [Id -> TaskType] /\ f[g] = t /\ \A h \in Id : h # g => f[h] = a.task[h]
    BY <2>0, <2>1, <2>2
  <2> HIDE DEF f
  <2>6. Marked(a, b, g)
    <3>1. CASE status = "transferring"
      BY <2>2, <2>5, <3>1, Older DEF Marked, AgentType, Rest, Load
    <3>2. CASE status # "transferring"
      BY <3>2 DEF Marked
    <3> QED BY <3>1, <3>2
  <2>7. status = "waiting" => c = a
    BY DEF Ending
  <2>8. status \notin Ending => c = b
    OBVIOUS
  <2> HIDE DEF b
  <2>9. Marked(a, c, g)
    <3>1. CASE status \in Ending
      <4>1. Settled(b, Settle(b, g, status), g)
        BY <2>6, <3>1, SettleIs DEF Marked, States
      <4> QED BY <2>6, <3>1, <4>1, Older DEF Marked, Settled, Load, Rest
    <3>2. CASE status \notin Ending
      BY <2>6, <2>8, <3>2
    <3> QED BY <3>1, <3>2
  <2> HIDE DEF c
  <2>10. Ended(a, c, g)
    BY <2>0, <2>9, MarkedEnds
  <2>11. Released(c, d, g)
    BY <2>0, <2>9, ReleaseIs DEF Marked
  <2> HIDE DEF d
  <2>12. Ended(a, d, g) /\ d.slot # g
    BY <2>0, <2>9, <2>11, ReleasedEnds
  <2> DEFINE e == IF over THEN d ELSE c
  <2>13. Ended(a, e, g) /\ (e.slot = g => e.stop = a.stop)
    BY <2>9, <2>10, <2>12 DEF Marked
  <2>14. status = "waiting" /\ a.task[g].state = "running" => ~over
    BY <2>7 DEF Ending
  <2>15. status = "waiting" /\ a.task[g].state = "running" =>
           e.slot = g /\ e.stop = a.stop /\ e.task[g].moved = a.task[g].moved /\ e.task[g].state = "running"
    BY <2>0, <2>7, <2>14
  <2> HIDE DEF e
  <2>16. Ended(a, Touch(e), g)
    <3>1. Touch(e) \in AgentType /\ Rest(Touch(e)) = Rest(e) /\ Table(Touch(e)) = Table(e)
      BY <2>13, TouchIs DEF Ended
    <3> QED BY <2>13, <3>1, EndedAlike
  <2>17. Touch(e).touched /\ Table(Touch(e)) = Table(e)
    BY <2>13, TouchIs DEF Ended
  <2> QED BY <2>0, <2>4, <2>13, <2>15, <2>16, <2>17 DEF e, Table
<1> QED BY <1>1, <1>2

(* setTaskPageURL: a page for the task on show, and nothing else.           *)
Paged(a, b, s, g) ==
  /\ b \in AgentType /\ Rest(b) = Rest(a)
  /\ <<b.slot, b.chat, b.stop, b.chatStop, b.nextID, b.queue>> = <<a.slot, a.chat, a.stop, a.chatStop, a.nextID, a.queue>>
  /\ \A h \in Id : /\ b.task[h].kind = a.task[h].kind /\ b.task[h].state = a.task[h].state
                   /\ b.task[h].moved = a.task[h].moved
                   /\ h # s => b.task[h].page = a.task[h].page
                   /\ b.task[h].page \in {a.task[h].page, g}

LEMMA PageIs ==
  ASSUME setup \in Setups, NEW a \in AgentType, NEW s \in Id, NEW g \in Id
  PROVE  Paged(a, [a EXCEPT !.task[s].page = g], s, g)
<1> DEFINE t == [a.task[s] EXCEPT !.page = g]
           f == [a.task EXCEPT ![s] = t]
<1>1. a.task \in [Id -> TaskType] /\ a.task[s] \in TaskType
  BY DEF AgentType
<1>2. t \in TaskType /\ t.kind = a.task[s].kind /\ t.state = a.task[s].state /\ t.moved = a.task[s].moved /\ t.page = g
  BY <1>1 DEF TaskType
<1>3. [a EXCEPT !.task[s].page = g] = [a EXCEPT !.task = f]
  BY <1>1
<1> HIDE DEF t
<1>4. f \in [Id -> TaskType] /\ f[s] = t /\ \A h \in Id : h # s => f[h] = a.task[h]
  BY <1>1, <1>2
<1> HIDE DEF f
<1> QED BY <1>2, <1>3, <1>4 DEF Paged, AgentType, Rest

LEMMA PagedAlike ==
  ASSUME NEW a, NEW b, NEW c, NEW s, NEW g, Paged(a, b, s, g), Same(b, c)
  PROVE  Paged(a, c, s, g)
BY DEF Paged, Same, Rest, Table

LEMMA PagedTouched ==
  ASSUME NEW a, NEW b \in AgentType, NEW s, NEW g, Paged(a, b, s, g)
  PROVE  Touch(b).touched /\ Paged(a, Touch(b), s, g)
BY TouchIs DEF Paged, Rest, Table

LEMMA NotPaged ==
  ASSUME NEW a \in AgentType, NEW s, NEW g
  PROVE  Paged(a, a, s, g)
BY DEF Paged

LEMMA SetPageIs ==
  ASSUME setup \in Setups, NEW a \in AgentType, NEW g \in Id
  PROVE  LET b == SetPage(a, g) IN b = a \/ (b.touched /\ Paged(a, b, InPlace(a, g), g))
<1> DEFINE s == InPlace(a, g)
           c == [a EXCEPT !.task[s].page = g]
<1>1. CASE s = Nobody \/ a.task[s].state # "running"
  BY <1>1 DEF SetPage
<1>2. CASE ~(s = Nobody \/ a.task[s].state # "running")
  <2>1. s \in Id
    BY <1>2, Bounds DEF AgentType, InPlace, Ref
  <2>2. SetPage(a, g) = Touch(c)
    BY <1>2 DEF SetPage
  <2> HIDE DEF s
  <2>3. Paged(a, c, s, g)
    BY <2>1, PageIs
  <2> HIDE DEF c
  <2>4. Touch(c).touched /\ Paged(a, Touch(c), s, g)
    BY <2>3, PagedTouched DEF Paged
  <2> QED BY <2>2, <2>4 DEF s
<1> QED BY <1>1, <1>2

LEMMA SetPageOfGuiIs ==
  ASSUME setup \in Setups, NEW a \in AgentType, NEW g \in Id
  PROVE  LET b == SetPageOfGui(a, g) IN b.touched /\ Paged(a, b, InPlace(a, g), g)
<1> DEFINE s == InPlace(a, g)
           b == IF s = Nobody THEN a ELSE [a EXCEPT !.task[s].page = g]
           ch == IF a.task[g].kind = "chat" THEN a.chatReady ELSE a.ready
           c == Offer(b, ch, "ok")
<1>1. SetPageOfGui(a, g) = Touch(c)
  BY DEF SetPageOfGui
<1>2. s = Nobody \/ s \in Id
  BY Bounds DEF AgentType, InPlace, Ref
<1> HIDE DEF s
<1>3. Paged(a, b, s, g)
  BY <1>2, PageIs, NotPaged
<1> HIDE DEF b
<1>4. ch \in Ref /\ b \in AgentType
  BY <1>3 DEF Paged, AgentType
<1> HIDE DEF ch
<1>5. Same(b, c)
  BY <1>4, OfferIs
<1> HIDE DEF c
<1>6. Paged(a, c, s, g) /\ c \in AgentType
  BY <1>3, <1>5, PagedAlike DEF Same
<1>7. Touch(c).touched /\ Paged(a, Touch(c), s, g)
  BY <1>6, PagedTouched
<1> QED BY <1>1, <1>7 DEF s

(* execute.                                                                 *)
LEMMA SettledMarks ==
  ASSUME setup \in Setups, NEW a \in AgentType, NEW b, NEW c, NEW g, Same(a, b), Settled(b, c, g)
  PROVE  Marked(a, c, g)
BY Older DEF Same, Settled, Marked, Rest, Table, Load

LEMMA ShownEnds ==
  ASSUME setup \in Setups, NEW a \in AgentType, NEW c, NEW g \in 1 .. a.nextID, a.slot = g, Marked(a, c, g)
  PROVE  LET b == [Record(c, g) EXCEPT !.stop = Nobody] IN
         Ended(a, b, g) /\ (Len(b.history) < MaxHistory => Listed(b, g) \/ ~Kept(b, g))
<1> DEFINE e == Record(c, g)
           d == [e EXCEPT !.stop = Nobody]
<1>0. g \in Task /\ a.nextID \in Nat /\ c \in AgentType
  BY Older DEF Marked
<1>1. Entered(c, e, g)
  BY <1>0, RecordIs
<1> HIDE DEF e
<1>2. /\ d \in AgentType /\ d.stop = Nobody
      /\ d.slot = e.slot /\ d.chat = e.chat /\ d.chatStop = e.chatStop /\ d.task = e.task /\ d.nextID = e.nextID
      /\ d.queue = e.queue /\ d.first = e.first /\ d.history = e.history
  BY <1>1, Bounds DEF Entered, AgentType
<1> HIDE DEF d
<1>3. /\ d.slot = c.slot /\ d.chat = c.chat /\ d.chatStop = c.chatStop /\ d.task = c.task /\ d.nextID = c.nextID
      /\ d.queue = c.queue /\ d.first = c.first
  BY <1>1, <1>2 DEF Entered, Table
<1>4. Fresh(a, d) = {} /\ d.nextID = a.nextID
  BY <1>0, <1>3, NextAt DEF Marked, Fresh
<1>5. Grows(a, d) /\ d.first = a.first
  <2>1. Grows(a, c) /\ c.first = a.first
    BY GrowsSame DEF Marked
  <2> QED BY <1>1, <1>2, <1>3, <2>1 DEF Grows, Entered, Listed
<1>6. Len(d.history) < MaxHistory => Listed(d, g) \/ ~Kept(d, g)
  BY <1>1, <1>2, <1>3 DEF Entered, Listed, Kept, KeptByGui
<1>7. \A h \in 1 .. a.nextID : /\ d.task[h].kind = a.task[h].kind /\ d.task[h].page = a.task[h].page
                               /\ h # g => d.task[h].state = a.task[h].state /\ d.task[h].moved = a.task[h].moved
  BY <1>3 DEF Marked
<1>8. d.slot = a.slot /\ d.chat = a.chat /\ d.chatStop = a.chatStop /\ Load(d) = Load(a)
  BY <1>3 DEF Marked, Load
<1>9. Step(a, d)
  BY <1>0, <1>4, <1>5, <1>7, <1>8 DEF Step
<1> QED BY <1>2, <1>6, <1>7, <1>8, <1>9 DEF Ended, d, e

LEMMA EndedTouched ==
  ASSUME NEW a, NEW b, NEW g, Ended(a, b, g)
  PROVE  Touch(b).touched /\ Ended(a, Touch(b), g)
BY TouchIs, EndedAlike DEF Ended

LEMMA ResultIs == ASSUME NEW err PROVE Result(err) \in States
BY DEF Result, States, Ending

LEMMA ExecuteIs ==
  ASSUME setup \in Setups, NEW a \in AgentType, NEW g \in Id, NEW err, Load(a) <= setup.tasks, a.slot <= a.nextID
  PROVE  LET b == Execute(a, g, err) IN
         (b = a /\ a.slot # g) \/ (b.touched /\ g \in 1 .. a.nextID /\ Ended(a, b, g))
<1>1. CASE a.slot # g
  BY <1>1 DEF Execute
<1>2. CASE a.slot = g
  <2> DEFINE c == Settle(a, g, Result(err))
             d == StartNext(Free(Record(c, g)))
  <2>1. g \in 1 .. a.nextID /\ g \in Ref
    BY <1>2, Bounds DEF AgentType, Id
  <2>2. Execute(a, g, err) = Touch(d)
    BY <1>2 DEF Execute
  <2>3. Marked(a, c, g)
    <3>1. Settled(a, c, g)
      BY <2>1, SettleIs, ResultIs
    <3> QED BY <3>1, SettledMarks DEF Same
  <2> HIDE DEF c
  <2>4. Released(c, d, g)
    BY <2>1, <2>3, ReleaseIs DEF Marked
  <2> HIDE DEF d
  <2>5. Ended(a, d, g)
    BY <1>2, <2>1, <2>3, <2>4, ReleasedEnds
  <2> QED BY <2>1, <2>2, <2>5, EndedTouched
<1> QED BY <1>1, <1>2

LEMMA ExecuteInGuiIs ==
  ASSUME setup \in Setups, NEW a \in AgentType, NEW g \in Id, NEW err, Load(a) <= setup.tasks, a.slot <= a.nextID
  PROVE  LET b == ExecuteInGui(a, g, err) IN
         \/ Same(a, b) /\ a.slot # g
         \/ /\ b.touched /\ g \in 1 .. a.nextID /\ Ended(a, b, g)
            /\ Len(b.history) < MaxHistory => Listed(b, g) \/ ~Kept(b, g)
<1> DEFINE o == IF err THEN Offer(a, a.ready, "err") ELSE a
           c == Settle(o, g, Result(err))
           e == Record(c, g)
           d == StartNext(Free(e))
           s == [e EXCEPT !.stop = Nobody]
           x == IF e.task[g].state \in {"completed", "failed"} THEN s ELSE d
<1>1. Same(a, o)
  <2>1. Same(a, Offer(a, a.ready, "err"))
    BY OfferIs DEF AgentType
  <2> QED BY <2>1 DEF Same
<1>2. CASE a.slot # g
  BY <1>1, <1>2 DEF ExecuteInGui
<1>3. CASE a.slot = g
  <2>1. g \in 1 .. a.nextID /\ g \in Ref
    BY <1>3, Bounds DEF AgentType, Id
  <2>2. ExecuteInGui(a, g, err) = Touch(x)
    BY <1>3 DEF ExecuteInGui
  <2> HIDE DEF o
  <2>3. Marked(a, c, g)
    <3>1. Settled(o, c, g)
      BY <1>1, <2>1, SettleIs, ResultIs DEF Same
    <3> QED BY <1>1, <3>1, SettledMarks
  <2> HIDE DEF c
  <2>4. Ended(a, s, g) /\ (Len(s.history) < MaxHistory => Listed(s, g) \/ ~Kept(s, g))
    BY <1>3, <2>1, <2>3, ShownEnds
  <2>5. Released(c, d, g)
    BY <2>1, <2>3, ReleaseIs DEF Marked
  <2> HIDE DEF d, s
  <2>6. Ended(a, d, g) /\ (Len(d.history) < MaxHistory => Listed(d, g) \/ ~Kept(d, g))
    BY <1>3, <2>1, <2>3, <2>5, ReleasedEnds DEF Released
  <2>7. Ended(a, x, g) /\ (Len(x.history) < MaxHistory => Listed(x, g) \/ ~Kept(x, g))
    BY <2>4, <2>6
  <2> HIDE DEF x
  <2>8. Rest(Touch(x)) = Rest(x) /\ Table(Touch(x)) = Table(x)
    BY <2>7, TouchIs DEF Ended
  <2>9. Len(Touch(x).history) < MaxHistory => Listed(Touch(x), g) \/ ~Kept(Touch(x), g)
    BY <2>7, <2>8 DEF Rest, Table, Listed, Kept, KeptByGui
  <2> QED BY <2>1, <2>2, <2>7, <2>9, EndedTouched
<1> QED BY <1>2, <1>3

(* executeChat.                                                             *)
ChatEnded(a, b, g) ==
  /\ a.chat = g /\ b \in AgentType /\ Load(b) = Load(a) /\ Step(a, b)
  /\ b.chat = Nobody /\ b.slot = a.slot /\ b.stop = a.stop /\ b.nextID = a.nextID
  /\ \A h \in 1 .. a.nextID : b.task[h].moved = a.task[h].moved /\ (h # g => b.task[h].state = a.task[h].state)

LEMMA ExecuteChatIs ==
  ASSUME setup \in Setups, NEW a \in AgentType, NEW g \in Id, NEW err, Load(a) <= setup.tasks, a.chat <= a.nextID
  PROVE  LET b == ExecuteChat(a, g, err) IN
         (Same(a, b) /\ a.chat # g) \/ (b.touched /\ g \in 1 .. a.nextID /\ ChatEnded(a, b, g))
<1> DEFINE o == IF err THEN Offer(a, a.chatReady, "err") ELSE a
           c == Settle(o, g, Result(err))
           e == Record(c, g)
           f == FreeChat(e)
           d == Touch(f)
<1>1. Same(a, o)
  <2>1. Same(a, Offer(a, a.chatReady, "err"))
    BY OfferIs DEF AgentType
  <2> QED BY <2>1 DEF Same
<1>2. CASE a.chat # g
  BY <1>1, <1>2 DEF ExecuteChat
<1>3. CASE a.chat = g
  <2>1. g \in 1 .. a.nextID /\ g \in Task /\ g \in Ref
    BY <1>3, Bounds DEF AgentType, Id, Ref, Nobody
  <2>2. ExecuteChat(a, g, err) = d
    BY <1>3 DEF ExecuteChat
  <2> HIDE DEF o
  <2>3. Settled(o, c, g)
    BY <1>1, <2>1, SettleIs, ResultIs DEF Same
  <2> HIDE DEF c
  <2>4. Entered(c, e, g)
    BY <2>1, <2>3, RecordIs DEF Settled
  <2> HIDE DEF e
  <2>5. /\ f \in AgentType /\ Rest(f) = Rest(e) /\ f.touched = e.touched
        /\ f.chat = Nobody /\ f.chatStop = Nobody
        /\ <<f.slot, f.stop, f.task, f.nextID, f.queue>> = <<e.slot, e.stop, e.task, e.nextID, e.queue>>
    BY <2>4, FreeChatIs DEF Entered
  <2> HIDE DEF f
  <2>6. d.touched /\ d \in AgentType /\ Rest(d) = Rest(f) /\ Table(d) = Table(f)
    BY <2>5, TouchIs
  <2> HIDE DEF d
  <2>7. /\ d.slot = a.slot /\ d.stop = a.stop /\ d.nextID = a.nextID /\ d.queue = a.queue /\ d.first = a.first
        /\ d.chat = Nobody /\ d.history = e.history /\ d.task = c.task /\ c.history = a.history
    BY <1>1, <2>3, <2>4, <2>5, <2>6 DEF Same, Settled, Entered, Rest, Table
  <2>8. \A h \in 1 .. a.nextID : /\ d.task[h].kind = a.task[h].kind /\ d.task[h].page = a.task[h].page
                                 /\ d.task[h].moved = a.task[h].moved
                                 /\ h # g => d.task[h].state = a.task[h].state
    BY <1>1, <2>3, <2>7, Older DEF Same, Table, Settled
  <2>9. Fresh(a, d) = {} /\ a.nextID \in Nat
    BY <2>7, NextAt DEF Fresh
  <2>10. Grows(a, d)
    BY <2>4, <2>7 DEF Grows, Entered, Listed
  <2>11. Step(a, d) /\ Load(d) = Load(a)
    BY <1>3, <2>7, <2>8, <2>9, <2>10 DEF Step, Load
  <2> QED BY <1>3, <2>1, <2>2, <2>6, <2>7, <2>8, <2>11 DEF ChatEnded
<1> QED BY <1>2, <1>3

(* handleRestart: the transfer is recorded and leaves, the chat too.        *)
Finalized(a, b) ==
  /\ b \in AgentType /\ Load(b) = Load(a) /\ Step(a, b)
  /\ b.slot # a.slot /\ Len(b.history) < MaxHistory => Listed(b, a.slot) \/ ~Kept(b, a.slot)

LEMMA FinalizeIs ==
  ASSUME setup \in Setups, ~setup.gui, NEW a \in AgentType, Load(a) <= setup.tasks, a.slot <= a.nextID
  PROVE  Finalized(a, Finalize(a))
<1>1. CASE a.slot = Nobody
  <2>1. Finalize(a) = a
    BY <1>1 DEF Finalize
  <2>2. Step(a, a)
    BY NothingCommanded DEF Commanded
  <2> QED BY <2>1, <2>2 DEF Finalized
<1>2. CASE a.slot # Nobody
  <2> DEFINE g == a.slot
             c == ReplaceActive(a, "replaced")
             e == Record(c, g)
             d == Free(e)
  <2>0. g \in 1 .. a.nextID /\ g \in Task /\ a.nextID \in Nat
    BY <1>2, Bounds DEF AgentType, Ref, Nobody
  <2>1. Finalize(a) = d
    BY <1>2 DEF Finalize
  <2>2. Replaced(a, c)
    BY <1>2, ReplaceActiveIs
  <2> HIDE DEF c
  <2>3. c.slot = g /\ c.nextID = a.nextID
    BY <1>2, <2>2 DEF Replaced
  <2>4. Entered(c, e, g)
    BY <2>0, <2>2, RecordIs DEF Replaced
  <2> HIDE DEF e
  <2>5. /\ d \in AgentType /\ Rest(d) = Rest(e)
        /\ d.slot = Nobody /\ d.stop = Nobody
        /\ <<d.chat, d.chatStop, d.task, d.nextID, d.queue>> = <<e.chat, e.chatStop, e.task, e.nextID, e.queue>>
    BY <2>4, FreeIs DEF Entered
  <2> HIDE DEF d
  <2>6. /\ d.chat = a.chat /\ d.nextID = a.nextID /\ d.first = a.first /\ d.task = c.task /\ d.queue = c.queue
        /\ d.history = e.history /\ c.history = a.history
    BY <2>2, <2>3, <2>4, <2>5 DEF Replaced, Entered, Rest, Table
  <2>7. Fresh(a, d) = {}
    BY <2>0, <2>6, NextAt DEF Fresh
  <2>8. Grows(a, d)
    BY <2>4, <2>6 DEF Grows, Entered, Listed
  <2>9. Step(a, d)
    BY <2>0, <2>2, <2>5, <2>6, <2>7, <2>8 DEF Step, Replaced, Still
  <2>10. Len(d.history) < MaxHistory => Listed(d, g) \/ ~Kept(d, g)
    BY <2>4, <2>6 DEF Entered, Listed, Kept, KeptByGui
  <2>11. Load(d) = Load(a)
    BY <2>2, <2>3, <2>6 DEF Load, Replaced
  <2> QED BY <2>1, <2>5, <2>9, <2>10, <2>11 DEF Finalized
<1> QED BY <1>1, <1>2

LEMMA FinalizeChatIs ==
  ASSUME setup \in Setups, NEW a \in AgentType, Load(a) <= setup.tasks, a.chat <= a.nextID
  PROVE  LET b == FinalizeChat(a) IN
         b \in AgentType /\ Load(b) = Load(a) /\ Step(a, b) /\ b.slot = a.slot /\ b.stop = a.stop
<1>1. CASE a.chat = Nobody
  <2>1. FinalizeChat(a) = a
    BY <1>1 DEF FinalizeChat
  <2>2. Step(a, a)
    BY NothingCommanded DEF Commanded
  <2> QED BY <2>1, <2>2
<1>2. CASE a.chat # Nobody
  <2> DEFINE g == a.chat
             c == ReplaceChat(a, "replaced")
             e == Record(c, g)
             d == FreeChat(e)
  <2>0. g \in 1 .. a.nextID /\ g \in Task /\ a.nextID \in Nat
    BY <1>2, Bounds DEF AgentType, Ref, Nobody
  <2>1. FinalizeChat(a) = d
    BY <1>2 DEF FinalizeChat
  <2>2. ChatReplaced(a, c)
    BY <1>2, ReplaceChatIs
  <2> HIDE DEF c
  <2>3. Entered(c, e, g)
    BY <2>0, <2>2, RecordIs DEF ChatReplaced
  <2> HIDE DEF e
  <2>4. /\ d \in AgentType /\ Rest(d) = Rest(e)
        /\ d.chat = Nobody
        /\ <<d.slot, d.stop, d.task, d.nextID, d.queue>> = <<e.slot, e.stop, e.task, e.nextID, e.queue>>
    BY <2>3, FreeChatIs DEF Entered
  <2> HIDE DEF d
  <2>5. /\ d.slot = a.slot /\ d.stop = a.stop /\ d.nextID = a.nextID /\ d.first = a.first /\ d.task = c.task
        /\ d.queue = c.queue /\ d.history = e.history /\ c.history = a.history /\ c.nextID = a.nextID
    BY <2>2, <2>3, <2>4 DEF ChatReplaced, Entered, Rest, Table
  <2>6. Fresh(a, d) = {}
    BY <2>0, <2>5, NextAt DEF Fresh
  <2>7. Grows(a, d)
    BY <2>3, <2>5 DEF Grows, Entered, Listed
  <2>8. Step(a, d)
    BY <2>0, <2>2, <2>4, <2>5, <2>6, <2>7 DEF Step, ChatReplaced, Still
  <2>9. Load(d) = Load(a)
    BY <2>2, <2>5 DEF Load, ChatReplaced
  <2> QED BY <2>1, <2>4, <2>5, <2>8, <2>9
<1> QED BY <1>1, <1>2

-----------------------------------------------------------------------------
(* The goroutines                                                           *)

(* The invariants look at the places, the tasks and the history, and at pc, *)
(* bound and err.                                                           *)
LEMMA Alike ==
  ASSUME NEW a, NEW b, NEW r, Rest(b) = Rest(a), Places(b) = Places(a)
  PROVE  /\ Base(a, r) => Base(b, r)
         /\ Own(a, r) => Own(b, r)
         /\ Rec(a, r) => Rec(b, r)
<1>1. /\ b.slot = a.slot /\ b.chat = a.chat /\ b.stop = a.stop /\ b.chatStop = a.chatStop /\ b.task = a.task
      /\ b.nextID = a.nextID /\ b.first = a.first /\ b.history = a.history
  BY DEF Places, Rest
<1>2. Base(a, r) => Base(b, r)
  BY <1>1 DEF Base
<1>3. Own(a, r) => Own(b, r)
  BY <1>1 DEF Own, InPlace
<1>4. Rec(a, r) => Rec(b, r)
  BY <1>1 DEF Rec, Noted, Listed, Kept, KeptByGui
<1> QED BY <1>2, <1>3, <1>4

(* One goroutine moves on.                                                  *)
Moved(r, s, g) ==
  /\ \A h \in Id : h # g => s[h].pc = r[h].pc /\ s[h].bound = r[h].bound /\ s[h].err = r[h].err
  /\ r[g].err => s[g].err

LEMMA MoveBase ==
  ASSUME NEW a \in AgentType, NEW r, NEW s, NEW g \in Id, Moved(r, s, g), Base(a, r), g <= a.nextID,
         a.nextID \in Nat, a.task[g].kind = "chat" => s[g].pc # "page"
  PROVE  Base(a, s)
BY DEF Base, Moved, Id

LEMMA MoveOwn ==
  ASSUME NEW a \in AgentType, NEW r, NEW s, NEW g \in Id, Moved(r, s, g), Own(a, r), a.slot \in Id \cup {Nobody},
         a.chat \in Id \cup {Nobody}, a.first < g, g <= a.nextID,
         s[g].pc \in Unknown => r[g].pc \in Unknown,
         s[g].pc = "serve" => r[g].pc \in {"serve", "page"},
         s[g].pc = "page" => r[g].pc = "page",
         s[g].pc = "wait" => r[g].pc \in {"serve", "wait"},
         s[g].pc \in {"hook", "register", "page", "serve", "wait"} => s[g].bound = g,
         a.task[g].kind = "chat" => r[g].pc # "page"
  PROVE  Own(a, s)
<1>1. a.slot # Nobody =>
       /\ a.first < a.slot /\ a.slot <= a.nextID /\ a.task[a.slot].kind # "chat"
       /\ a.task[a.slot].state # "running" => s[a.slot].pc \notin Unknown
       /\ a.task[a.slot].page \in {a.slot, Nobody}
       /\ s[a.slot].pc \in {"page", "serve", "wait"} => a.stop = a.slot
  BY DEF Own, Moved, Unknown
<1>2. a.chat # Nobody =>
       /\ a.first < a.chat /\ a.chat <= a.nextID /\ a.task[a.chat].kind = "chat"
       /\ a.task[a.chat].state # "running" => s[a.chat].pc \notin Unknown \cup {"serve"}
       /\ a.task[a.chat].page \in {a.chat, Nobody}
       /\ s[a.chat].pc \in {"page", "serve", "wait"} => a.chatStop = a.chat
  BY DEF Own, Moved, Unknown
<1>3. ASSUME NEW h \in Id, a.first < h, h <= a.nextID
      PROVE  /\ s[h].pc \in Unknown \cup {"page", "serve"} => h = InPlace(a, h)
             /\ s[h].pc \in {"hook", "register", "page", "serve", "wait"} => s[h].bound = h
  BY <1>3 DEF Own, Moved, Unknown
<1> QED BY <1>1, <1>2, <1>3 DEF Own

LEMMA MoveRec ==
  ASSUME NEW a \in AgentType, NEW r, NEW s, NEW g \in Id, Moved(r, s, g), Rec(a, r), a.slot \in Id \cup {Nobody},
         s[g].pc \notin Unknown /\ r[g].pc \in Unknown => s[g].err
  PROVE  Rec(a, s)
BY DEF Rec, Moved, Noted

(* The page of a task reaches nobody else.                                  *)
LEMMA PagedKeeps ==
  ASSUME setup \in Setups, NEW a \in AgentType, NEW b, NEW r, NEW g \in Id, NEW s, Paged(a, b, s, g)
  PROVE  /\ Base(a, r) => Base(b, r)
         /\ Own(a, r) /\ s = g => Own(b, r)
         /\ Rec(a, r) => Rec(b, r)
<1>1. /\ b.slot = a.slot /\ b.chat = a.chat /\ b.stop = a.stop /\ b.chatStop = a.chatStop
      /\ b.nextID = a.nextID /\ b.first = a.first /\ b.history = a.history
  BY DEF Paged, Rest
<1>2. a.slot \in Id \cup {Nobody} /\ a.chat \in Id \cup {Nobody}
  BY Bounds DEF AgentType, Ref
<1>3. \A h \in Id : /\ b.task[h].kind = a.task[h].kind /\ b.task[h].state = a.task[h].state
                    /\ b.task[h].moved = a.task[h].moved
                    /\ h # s => b.task[h].page = a.task[h].page
                    /\ b.task[h].page \in {a.task[h].page, g}
  BY DEF Paged
<1>4. Base(a, r) => Base(b, r)
  BY <1>1, <1>3 DEF Base
<1>5. Own(a, r) /\ s = g => Own(b, r)
  <2> SUFFICES ASSUME Own(a, r), s = g PROVE Own(b, r)
    OBVIOUS
  <2>1. b.slot # Nobody =>
       /\ b.first < b.slot /\ b.slot <= b.nextID /\ b.task[b.slot].kind # "chat"
       /\ b.task[b.slot].state # "running" => r[b.slot].pc \notin Unknown
       /\ b.task[b.slot].page \in {b.slot, Nobody}
       /\ r[b.slot].pc \in {"page", "serve", "wait"} => b.stop = b.slot
    BY <1>1, <1>2, <1>3 DEF Own
  <2>2. b.chat # Nobody =>
       /\ b.first < b.chat /\ b.chat <= b.nextID /\ b.task[b.chat].kind = "chat"
       /\ b.task[b.chat].state # "running" => r[b.chat].pc \notin Unknown \cup {"serve"}
       /\ b.task[b.chat].page \in {b.chat, Nobody}
       /\ r[b.chat].pc \in {"page", "serve", "wait"} => b.chatStop = b.chat
    BY <1>1, <1>2, <1>3 DEF Own
  <2>3. ASSUME NEW h \in Id, b.first < h, h <= b.nextID
        PROVE  /\ r[h].pc \in Unknown \cup {"page", "serve"} => h = InPlace(b, h)
               /\ r[h].pc \in {"hook", "register", "page", "serve", "wait"} => r[h].bound = h
    BY <1>1, <1>3, <2>3 DEF Own, InPlace
  <2>4. b.stop \in {b.slot, Nobody}
    BY <1>1 DEF Own
  <2> QED BY <2>1, <2>2, <2>3, <2>4 DEF Own
<1>6. Rec(a, r) => Rec(b, r)
  <2>1. \A h \in Id : Noted(b, r, h) = Noted(a, r, h)
    BY <1>1, <1>3 DEF Noted, Listed, Kept, KeptByGui
  <2> QED BY <1>1, <1>2, <1>3, <2>1 DEF Rec
<1> QED BY <1>4, <1>5, <1>6

(* When the task of the slot may end.                                       *)
LEMMA EndedLeft ==
  ASSUME setup \in Setups, NEW a \in AgentType, NEW b, NEW g \in 1 .. a.nextID, NEW r,
         Own(a, r), Ended(a, b, g), r[g].pc \notin Unknown \cup {"page", "serve"},
         b.slot = g => b.stop = a.stop \/ r[g].pc # "wait"
  PROVE  Left(a, b, r)
<1>1. a.slot = g /\ g # Nobody /\ a.nextID \in Nat /\ a.first \in Nat /\ a.chat \in Nat
  BY Older, Bounds DEF Ended, AgentType
<1>2. a.chat # Nobody => b.chat = a.chat /\ b.task[a.chat].state = a.task[a.chat].state
  <2>1. a.chat # Nobody => a.chat # g /\ a.chat \in 1 .. a.nextID
    BY <1>1 DEF Own
  <2> QED BY <2>1 DEF Ended
<1>3. \/ b.slot = a.slot /\ b.stop = a.stop
      \/ b.stop = Nobody /\ (b.slot = a.slot /\ a.slot # Nobody => ~(r[a.slot].pc \in {"page", "serve", "wait"}))
  BY <1>1 DEF Ended
<1>4. b.chatStop = a.chatStop
  BY DEF Ended
<1> QED BY <1>1, <1>2, <1>3, <1>4 DEF Left

LEMMA EndedTold ==
  ASSUME NEW a, NEW b, NEW g, NEW r, Ended(a, b, g),
         setup.gui /\ b.slot = g /\ b.stop = a.stop /\ a.stop = Nobody =>
            \/ b.task[g].moved = a.task[g].moved
            \/ Len(b.history) < MaxHistory => Listed(b, g) \/ ~Kept(b, g)
  PROVE  Told(a, b, r)
BY DEF Ended, Told, Noted

LEMMA ChatEndedLeft ==
  ASSUME setup \in Setups, NEW a \in AgentType, NEW b, NEW g \in 1 .. a.nextID, NEW r,
         Own(a, r), ChatEnded(a, b, g), r[g].pc \notin Unknown \cup {"serve"}
  PROVE  Left(a, b, r)
<1>1. a.chat = g /\ a.nextID \in Nat /\ a.first \in Nat /\ a.slot \in Nat
  BY Older, Bounds DEF ChatEnded, AgentType
<1>2. a.slot # Nobody => b.slot = a.slot /\ b.task[a.slot].state = a.task[a.slot].state
  <2>1. a.slot # Nobody => a.slot # g /\ a.slot \in 1 .. a.nextID
    BY <1>1 DEF Own, Nobody
  <2> QED BY <2>1 DEF ChatEnded
<1> QED BY <1>1, <1>2 DEF Left, ChatEnded

LEMMA ChatEndedTold ==
  ASSUME setup \in Setups, NEW a \in AgentType, NEW b, NEW g \in 1 .. a.nextID, NEW r, ChatEnded(a, b, g), a.slot <= a.nextID
  PROVE  Told(a, b, r)
<1>1. a.slot # Nobody => a.slot \in 1 .. a.nextID
  <2>1. a.slot \in Nat /\ a.nextID \in Nat
    BY Bounds DEF AgentType
  <2> QED BY <2>1 DEF Nobody
<1> QED BY <1>1 DEF ChatEnded, Told

(* setTaskStop: the callback of the task on show is its own.                *)
Registered(a, g) == IF a.task[g].kind = "chat" THEN [a EXCEPT !.chatStop = g] ELSE [a EXCEPT !.stop = g]

LEMMA RegisterIs ==
  ASSUME setup \in Setups, NEW a \in AgentType, NEW g \in 1 .. a.nextID
  PROVE  LET b == Registered(a, g) IN
         /\ b \in AgentType /\ Rest(b) = Rest(a) /\ Load(b) = Load(a) /\ b.queue = a.queue
         /\ b.slot = a.slot /\ b.chat = a.chat /\ b.task = a.task /\ b.nextID = a.nextID
         /\ IF a.task[g].kind = "chat" THEN b.chatStop = g /\ b.stop = a.stop ELSE b.chatStop = a.chatStop /\ b.stop = g
<1>1. g \in Ref
  BY Older DEF Ref
<1> QED BY <1>1 DEF Registered, AgentType, Rest, Load

LEMMA RegisterKeeps ==
  ASSUME setup \in Setups, NEW a \in AgentType, NEW r \in [Id -> RunType], NEW s, NEW g \in 1 .. a.nextID, a.first < g,
         r[g].pc = "register", Moved(r, s, g), s[g].bound = r[g].bound, s[g].err = r[g].err,
         s[g].pc \in {"page", "serve"}, a.task[g].kind = "chat" => s[g].pc = "serve", Base(a, r)
  PROVE  LET b == Registered(a, g) IN
         /\ Base(b, s)
         /\ Own(a, r) => Own(b, s)
         /\ Rec(a, r) /\ (setup.gui => Own(a, r)) => Rec(b, s)
<1> DEFINE b == Registered(a, g)
<1>0. /\ g \in Id /\ g # Nobody /\ a.slot \in Id \cup {Nobody} /\ a.chat \in Id \cup {Nobody} /\ a.nextID \in Nat
      /\ g <= a.nextID
  <2>1. g \in Id /\ a.nextID \in Nat
    BY Older
  <2>2. a.slot \in Id \cup {Nobody} /\ a.chat \in Id \cup {Nobody}
    BY Bounds DEF AgentType, Ref
  <2> QED BY <2>1, <2>2 DEF Nobody
<1>1. /\ Rest(b) = Rest(a)
      /\ b.slot = a.slot /\ b.chat = a.chat /\ b.task = a.task /\ b.nextID = a.nextID
      /\ IF a.task[g].kind = "chat" THEN b.chatStop = g /\ b.stop = a.stop ELSE b.chatStop = a.chatStop /\ b.stop = g
  BY RegisterIs
<1> HIDE DEF b
<1>2. b.first = a.first /\ b.history = a.history
  BY <1>1 DEF Rest
<1>3. Base(b, s)
  BY <1>0, <1>1, <1>2 DEF Base, Moved, Id
<1>4. ASSUME Own(a, r) PROVE Own(b, s)
  <2>1. g = InPlace(a, g) /\ r[g].bound = g
    BY <1>0, <1>4 DEF Own, Unknown
  <2>2. IF a.task[g].kind = "chat" THEN a.chat = g /\ a.slot # g ELSE a.slot = g /\ a.chat # g
    BY <1>0, <1>4, <2>1 DEF InPlace, Own
  <2>3. b.slot # Nobody =>
       /\ b.first < b.slot /\ b.slot <= b.nextID /\ b.task[b.slot].kind # "chat"
       /\ b.task[b.slot].state # "running" => s[b.slot].pc \notin Unknown
       /\ b.task[b.slot].page \in {b.slot, Nobody}
       /\ s[b.slot].pc \in {"page", "serve", "wait"} => b.stop = b.slot
    <3>1. CASE a.task[g].kind = "chat"
      <4>1. b.slot # Nobody => b.slot \in Id /\ b.slot # g
        BY <1>0, <1>1, <2>2, <3>1
      <4>2. b.slot # Nobody => s[b.slot].pc = r[b.slot].pc
        BY <4>1 DEF Moved
      <4> QED BY <1>1, <1>2, <1>4, <3>1, <4>2 DEF Own
    <3>2. CASE a.task[g].kind # "chat"
      <4>1. b.slot = g /\ b.stop = g /\ a.slot = g
        BY <1>1, <2>2, <3>2
      <4>2. a.task[g].state = "running" /\ a.task[g].page \in {g, Nobody}
        BY <1>0, <1>4, <4>1 DEF Own, Unknown
      <4> QED BY <1>0, <1>1, <1>2, <3>2, <4>1, <4>2
    <3> QED BY <3>1, <3>2
  <2>4. b.chat # Nobody =>
       /\ b.first < b.chat /\ b.chat <= b.nextID /\ b.task[b.chat].kind = "chat"
       /\ b.task[b.chat].state # "running" => s[b.chat].pc \notin Unknown \cup {"serve"}
       /\ b.task[b.chat].page \in {b.chat, Nobody}
       /\ s[b.chat].pc \in {"page", "serve", "wait"} => b.chatStop = b.chat
    <3>1. CASE a.task[g].kind # "chat"
      <4>1. b.chat # Nobody => b.chat \in Id /\ b.chat # g
        BY <1>0, <1>1, <2>2, <3>1
      <4>2. b.chat # Nobody => s[b.chat].pc = r[b.chat].pc
        BY <4>1 DEF Moved
      <4> QED BY <1>1, <1>2, <1>4, <3>1, <4>2 DEF Own
    <3>2. CASE a.task[g].kind = "chat"
      <4>1. b.chat = g /\ b.chatStop = g /\ a.chat = g
        BY <1>1, <2>2, <3>2
      <4>2. a.task[g].state = "running" /\ a.task[g].page \in {g, Nobody}
        BY <1>0, <1>4, <4>1 DEF Own, Unknown
      <4> QED BY <1>0, <1>1, <1>2, <3>2, <4>1, <4>2
    <3> QED BY <3>1, <3>2
  <2>5. ASSUME NEW h \in Id, b.first < h, h <= b.nextID
        PROVE  /\ s[h].pc \in Unknown \cup {"page", "serve"} => h = InPlace(b, h)
               /\ s[h].pc \in {"hook", "register", "page", "serve", "wait"} => s[h].bound = h
    BY <1>1, <1>2, <1>4, <2>1, <2>5 DEF Own, InPlace, Moved
  <2>6. b.stop \in {b.slot, Nobody}
    BY <1>1, <1>4, <2>2 DEF Own
  <2> QED BY <2>3, <2>4, <2>5, <2>6 DEF Own
<1>5. ASSUME Rec(a, r), setup.gui => Own(a, r) PROVE Rec(b, s)
  <2>1. \A h \in Id : Noted(b, s, h) = Noted(a, r, h)
    BY <1>1, <1>2 DEF Noted, Listed, Kept, KeptByGui, Moved
  <2>2. setup.gui /\ b.slot # Nobody /\ b.stop = Nobody => a.stop = Nobody /\ a.slot # g
    BY <1>0, <1>1, <1>5 DEF Own
  <2> QED BY <1>0, <1>1, <1>2, <1>5, <2>1, <2>2 DEF Rec, Moved
<1> QED BY <1>3, <1>4, <1>5 DEF b

-----------------------------------------------------------------------------
(* The invariant                                                            *)

StreamType ==
  [pc: {"off", "sent", "wait", "send"}, fresh: BOOLEAN, known: BOOLEAN, missed: BOOLEAN, signal: BOOLEAN]

(* What the page lacks is on its way: a status of another revision than it  *)
(* knows is there to be sent, and once it has subscribed, the signal for it. *)
Follows(s) ==
  /\ s \in StreamType
  /\ ~s.fresh /\ ~s.missed => s.pc # "sent" /\ (s.pc = "send" => ~s.known) /\ (s.pc = "wait" => s.signal /\ ~s.known)

(* Of the agent a, the goroutines r, the file d, whether it leaves (l), was *)
(* hasty (h), and the page s.  The controls are right until a task is       *)
(* stopped in haste or the agent leaves; the records, until haste or a      *)
(* cleared history.                                                         *)
Valid(a, r, d, l, h, s) ==
  /\ a \in AgentType /\ ~a.touched /\ Load(a) <= setup.tasks /\ r \in [Id -> RunType]
  /\ d \in Seq(Task) /\ l \in BOOLEAN /\ h \in BOOLEAN /\ Follows(s)
  /\ Base(a, r) /\ (setup.gui => ~l)
  /\ ~h /\ ~l => Own(a, r)
  /\ ~h /\ ~Does("clear") => Rec(a, r)
  /\ Once(a.history) /\ Once(d)
Inv == setup \in Setups /\ Valid(agent, run, disk, leaving, hasty, stream)

LEMMA Closes ==
  ASSUME setup \in Setups, setup' = setup, Valid(agent', run', disk', leaving', hasty', stream')
  PROVE  Inv'
BY DEF Inv, Valid, AgentType, RunType, Follows, StreamType, Task, Ref, Load, Base, Own, Rec, Noted, Kept, KeptByGui, Listed,
       InPlace, Unknown, Does, Once

LEMMA SameView ==
  ASSUME NEW a, NEW b, Rest(b) = Rest(a), Table(b) = Table(a)
  PROVE  View(b) = View(a)
<1>1. b.slot = a.slot /\ b.chat = a.chat /\ b.queue = a.queue /\ b.history = a.history /\ b.task = a.task
  BY DEF Rest, Table
<1> QED BY <1>1 DEF View

(* The end of every step under the lock: the page is told of a change, or   *)
(* there is none.                                                           *)
LEMMA TellIs ==
  ASSUME Follows(stream), NEW changed \in BOOLEAN, NEW touched \in BOOLEAN, Tell(changed, touched),
         changed => touched
  PROVE  Follows(stream')
<1> DEFINE f == stream.fresh /\ ~changed
           k == stream.known /\ ~touched
           m == stream.missed \/ (changed /\ stream.pc = "sent")
           n == stream.signal \/ (touched /\ stream.pc \in {"wait", "send"})
<1>1. stream' = [stream EXCEPT !.fresh = f, !.known = k, !.missed = m, !.signal = n] /\ stream \in StreamType
  BY DEF Tell, Follows, StreamType, Subscribed
<1>2. f \in BOOLEAN /\ k \in BOOLEAN /\ m \in BOOLEAN /\ n \in BOOLEAN
  BY <1>1 DEF StreamType
<1>3. ~f /\ ~m => stream.pc # "sent" /\ (stream.pc = "send" => ~k) /\ (stream.pc = "wait" => n /\ ~k)
  BY DEF Follows
<1> HIDE DEF f, k, m, n
<1>4. /\ stream' \in StreamType /\ stream'.pc = stream.pc /\ stream'.fresh = f /\ stream'.known = k
      /\ stream'.missed = m /\ stream'.signal = n
  BY <1>1, <1>2 DEF StreamType
<1> QED BY <1>3, <1>4 DEF Follows

Says(x) == \E e : DoSaying(x, e) /\ (x.touched \/ (View(x) = View(agent) /\ e = lastError))

LEMMA DoSays ==
  ASSUME NEW x, Do(x), x.touched \/ View(x) = View(agent)
  PROVE  Says(x)
BY DEF Do, Says

LEMMA DoIs ==
  ASSUME Inv, setup' = setup, NEW x \in AgentType, Load(x) <= setup.tasks, Says(x),
         Once(x.history), run' \in [Id -> RunType], leaving' \in BOOLEAN, hasty' \in BOOLEAN, setup.gui => ~leaving',
         Base(x, run'), ~hasty' /\ ~leaving' => Own(x, run'), ~hasty' /\ ~Does("clear") => Rec(x, run')
  PROVE  Inv'
<1>0. PICK e : DoSaying(x, e) /\ (x.touched \/ (View(x) = View(agent) /\ e = lastError))
  BY DEF Says
<1>1. /\ agent' \in AgentType /\ ~agent'.touched /\ Rest(agent') = Rest(x) /\ Places(agent') = Places(x)
      /\ Load(agent') = Load(x) /\ agent'.history = x.history
  BY <1>0 DEF DoSaying, AgentType, Rest, Places, Load
<1>2. Base(agent', run') /\ (Own(x, run') => Own(agent', run')) /\ (Rec(x, run') => Rec(agent', run'))
  BY <1>1, Alike
<1>3. disk' \in Seq(Task) /\ Once(disk')
  BY <1>0 DEF DoSaying, Inv, Valid, AgentType
<1>4. Follows(stream')
  <2> DEFINE changed == View(x) # View(agent) \/ e # lastError
  <2>1. Tell(changed, x.touched)
    BY <1>0 DEF DoSaying
  <2>2. changed \in BOOLEAN /\ x.touched \in BOOLEAN /\ (changed => x.touched)
    BY <1>0 DEF AgentType
  <2>3. Follows(stream)
    BY DEF Inv, Valid
  <2> HIDE DEF changed
  <2> QED BY <2>1, <2>2, <2>3, TellIs
<1>5. Valid(agent', run', disk', leaving', hasty', stream')
  BY <1>1, <1>2, <1>3, <1>4 DEF Valid
<1> QED BY <1>5, Closes DEF Inv

-----------------------------------------------------------------------------
(* Every command keeps the invariant                                        *)

LEMMA Apart ==
  ASSUME setup \in Setups, NEW a \in AgentType, NEW r, Own(a, r)
  PROVE  /\ a.slot # Nobody => a.slot \in 1 .. a.nextID /\ a.slot # a.chat
         /\ a.chat # Nobody => a.chat \in 1 .. a.nextID /\ a.slot # a.chat
<1>1. a.slot \in Nat /\ a.chat \in Nat /\ a.nextID \in Nat
  BY Bounds DEF AgentType
<1> QED BY <1>1 DEF Own, Nobody

LEMMA Parts ==
  ASSUME Inv
  PROVE  /\ setup \in Setups /\ agent \in AgentType /\ ~agent.touched /\ Load(agent) <= setup.tasks
         /\ run \in [Id -> RunType] /\ Base(agent, run) /\ agent.slot <= agent.nextID /\ agent.chat <= agent.nextID
         /\ leaving \in BOOLEAN /\ hasty \in BOOLEAN /\ (setup.gui => ~leaving)
         /\ ~hasty /\ ~leaving => Own(agent, run)
         /\ ~hasty /\ ~Does("clear") => Rec(agent, run)
         /\ Once(agent.history)
BY DEF Inv, Valid, Base

(* Nobody but g is stopped, and g only in haste.                            *)
LEMMA CommandKeeps ==
  ASSUME Inv, UNCHANGED <<setup, run, leaving>>, NEW x, Touched(agent, x), Says(x),
         NEW g \in {agent.slot, agent.chat}, Replaces(g),
         Own(agent, run) =>
           /\ agent.slot \notin {g, Nobody} => SlotAlone(agent, x)
           /\ agent.chat \notin {g, Nobody} => ChatAlone(agent, x) \/ agent.task[agent.chat].state # "running"
  PROVE  Inv'
<1>1. Commanded(agent, x) /\ x \in AgentType /\ x.touched /\ Step(agent, x) /\ Load(x) <= setup.tasks /\ x.history = agent.history
  BY DEF Touched, Commanded
<1>2. hasty' \in BOOLEAN /\ (~hasty' => ~hasty /\ (g # Nobody => ~Gets(agent, run, g)))
  BY Parts DEF Replaces, Early, Gets, Unknown
<1>3. Base(x, run)
  BY <1>1, Parts, BaseStep
<1>4. ASSUME ~hasty', Own(agent, run)
      PROVE  /\ agent.slot # Nobody => ~Gets(agent, run, agent.slot) \/ SlotAlone(agent, x)
             /\ agent.chat # Nobody => \/ ~Gets(agent, run, agent.chat) \/ agent.task[agent.chat].state # "running"
                                       \/ ChatAlone(agent, x)
  BY <1>2, <1>4
<1>5. ASSUME ~hasty', ~leaving
      PROVE  Own(x, run)
  <2>1. Own(agent, run)
    BY <1>2, <1>5, Parts
  <2>2. Left(agent, x, run)
    BY <1>1, <1>4, <1>5, <2>1, Parts, CommandLeft
  <2> QED BY <1>1, <2>1, <2>2, Parts, OwnStep
<1>6. ASSUME ~hasty', ~Does("clear")
      PROVE  Rec(x, run)
  <2>1. Rec(agent, run) /\ (setup.gui => Own(agent, run))
    BY <1>2, <1>6, Parts
  <2>2. Told(agent, x, run)
    BY <1>1, <1>4, <1>6, <2>1, Parts, CommandTold
  <2> QED BY <1>1, <2>1, <2>2, Parts, RecStep
<1> QED BY <1>1, <1>2, <1>3, <1>5, <1>6, Parts, DoIs

LEMMA EnqueueKeeps ==
  ASSUME Inv, UNCHANGED <<setup, run, leaving>>, Room, NEW kind \in Transfers, DoSaying(Enqueue(agent, kind), FALSE),
         Replaces(agent.slot)
  PROVE  Inv'
<1> DEFINE x == Enqueue(agent, kind)
<1>1. Touched(agent, x) /\ (agent.chat \in 1 .. agent.nextID /\ agent.chat # agent.slot => ChatAlone(agent, x))
  BY Parts, EnqueueIs DEF Room, Load
<1> HIDE DEF x
<1>2. Own(agent, run) /\ agent.chat # Nobody => ChatAlone(agent, x)
  BY <1>1, Parts, Apart
<1>3. Says(x)
  BY <1>1 DEF x, Says, Touched
<1> QED BY <1>1, <1>2, <1>3, CommandKeeps

LEMMA PushTransferKeeps ==
  ASSUME Inv, NEW kind \in Transfers, PushTransfer(kind)
  PROVE  Inv'
BY EnqueueKeeps DEF PushTransfer

LEMMA PushChatKeeps ==
  ASSUME Inv, PushChat
  PROVE  Inv'
<1> DEFINE b == IF agent.slot # Nobody THEN ReplaceActive(agent, "stopped") ELSE agent
           x == Touch(StartChat(b))
<1>1. Touched(agent, x)
  BY Parts, PushChatIs DEF PushChat, Room, Load
<1>2. DoSaying(x, FALSE) /\ Replaces(agent.slot) /\ UNCHANGED <<setup, run, leaving>>
  BY DEF PushChat
<1>3. agent.chat # Nobody => agent.task[agent.chat].state # "running"
  BY DEF PushChat, ChatIsRunning
<1> HIDE DEF x
<1>4. Says(x)
  BY <1>1, <1>2 DEF Says, Touched
<1> QED BY <1>1, <1>2, <1>3, <1>4, CommandKeeps

(* A push that is refused, or answered with the chat that runs.             *)
LEMMA RefusePushKeeps ==
  ASSUME Inv, NEW kind \in Transfers, RefusePush(kind)
  PROVE  Inv'
<1>1. /\ UNCHANGED <<setup, agent, run, disk, leaving, hasty>>
      /\ stream' = [stream EXCEPT !.fresh = @ /\ ~lastError, !.missed = @ \/ lastError]
  BY DEF RefusePush
<1> DEFINE f == stream.fresh /\ ~lastError
           m == stream.missed \/ lastError
<1>2. Follows(stream) /\ stream \in StreamType
  BY DEF Inv, Valid, Follows
<1>3. f \in BOOLEAN /\ m \in BOOLEAN /\ (~f /\ ~m => ~stream.fresh /\ ~stream.missed)
  BY <1>2 DEF StreamType
<1>4. stream' = [stream EXCEPT !.fresh = f, !.missed = m]
  BY <1>1, <1>2 DEF StreamType
<1> HIDE DEF f, m
<1>5. /\ stream' \in StreamType /\ stream'.pc = stream.pc /\ stream'.known = stream.known
      /\ stream'.signal = stream.signal /\ stream'.fresh = f /\ stream'.missed = m
  BY <1>2, <1>3, <1>4 DEF StreamType
<1>6. Follows(stream')
  BY <1>2, <1>3, <1>5 DEF Follows
<1>7. Valid(agent', run', disk', leaving', hasty', stream')
  BY <1>1, <1>6 DEF Inv, Valid
<1> QED BY <1>1, <1>7, Closes DEF Inv

LEMMA PushChatAgainKeeps ==
  ASSUME Inv, PushChatAgain
  PROVE  Inv'
<1> DEFINE x == Touch(agent)
<1>1. DoSaying(x, FALSE) /\ UNCHANGED <<setup, run, leaving, hasty>>
  BY DEF PushChatAgain
<1>2. x \in AgentType /\ Rest(x) = Rest(agent) /\ Table(x) = Table(agent) /\ x.touched
  BY Parts, TouchIs
<1> HIDE DEF x
<1>3. Places(x) = Places(agent) /\ Load(x) = Load(agent) /\ x.history = agent.history
  BY <1>2 DEF Places, Table, Rest, Load
<1>4. Base(x, run) /\ (Own(agent, run) => Own(x, run)) /\ (Rec(agent, run) => Rec(x, run))
  BY <1>2, <1>3, Parts, Alike
<1>5. Says(x)
  BY <1>1, <1>2 DEF Says
<1> QED BY <1>1, <1>2, <1>3, <1>4, <1>5, Parts, DoIs

LEMMA RepeatKeeps ==
  ASSUME Inv, NEW kind \in setup.kinds, Repeat(kind)
  PROVE  Inv'
<1>1. UNCHANGED <<setup, run, leaving>> /\ Room
  BY DEF Repeat
<1>2. CASE kind # "chat"
  <2>1. kind \in Transfers
    BY <1>2, Parts, Bounds DEF Kinds
  <2>2. DoSaying(Enqueue(agent, kind), FALSE) /\ Replaces(agent.slot)
    BY <1>2 DEF Repeat
  <2> QED BY <1>1, <2>1, <2>2, EnqueueKeeps
<1>3. CASE kind = "chat"
  <2> DEFINE x == Touch(StartChat(IF agent.chat = Nobody THEN agent ELSE ReplaceChat(agent, "replaced")))
  <2>1. DoSaying(x, FALSE) /\ Replaces(agent.chat)
    BY <1>3 DEF Repeat
  <2>2. Touched(agent, x) /\ (agent.slot \in 1 .. agent.nextID /\ agent.slot # agent.chat => SlotAlone(agent, x))
    BY <1>1, Parts, RepeatChatIs DEF Room, Load
  <2> HIDE DEF x
  <2>3. Own(agent, run) /\ agent.slot # Nobody => SlotAlone(agent, x)
    BY <2>2, Parts, Apart
  <2>4. Says(x)
    BY <2>1, <2>2 DEF Says, Touched
  <2> QED BY <1>1, <2>1, <2>2, <2>3, <2>4, CommandKeeps
<1> QED BY <1>2, <1>3

LEMMA StopCurrentKeeps ==
  ASSUME Inv, StopCurrent
  PROVE  Inv'
<1> DEFINE x == Touch(ReplaceActive(agent, "stopped"))
<1>1. Do(x) /\ Replaces(agent.slot) /\ UNCHANGED <<setup, run, leaving>> /\ agent.slot # Nobody
  BY DEF StopCurrent
<1>2. Touched(agent, x) /\ (agent.chat \in 1 .. agent.nextID /\ agent.chat # agent.slot => ChatAlone(agent, x))
  BY <1>1, Parts, StopCurrentIs
<1> HIDE DEF x
<1>3. Own(agent, run) /\ agent.chat # Nobody => ChatAlone(agent, x)
  BY <1>2, Parts, Apart
<1>4. Says(x)
  BY <1>1, <1>2, DoSays DEF Touched
<1> QED BY <1>1, <1>2, <1>3, <1>4, CommandKeeps

LEMMA StopChatKeeps ==
  ASSUME Inv, StopChat
  PROVE  Inv'
<1> DEFINE x == Touch(ReplaceChat(agent, "stopped"))
<1>1. Do(x) /\ Replaces(agent.chat) /\ UNCHANGED <<setup, run, leaving>>
  BY DEF StopChat
<1>2. Touched(agent, x) /\ (agent.slot \in 1 .. agent.nextID /\ agent.slot # agent.chat => SlotAlone(agent, x))
  BY Parts, StopChatIs
<1> HIDE DEF x
<1>3. Own(agent, run) /\ agent.slot # Nobody => SlotAlone(agent, x)
  BY <1>2, Parts, Apart
<1>4. Says(x)
  BY <1>1, <1>2, DoSays DEF Touched
<1> QED BY <1>1, <1>2, <1>3, <1>4, CommandKeeps

LEMMA ClearHistoryKeeps ==
  ASSUME Inv, ClearHistory
  PROVE  Inv'
<1>1. /\ agent' = [agent EXCEPT !.history = <<>>] /\ Does("clear")
      /\ Tell(agent.history # <<>> \/ lastError, TRUE)
      /\ UNCHANGED <<setup, run, disk, leaving, hasty>>
  BY DEF ClearHistory
<1>2. Follows(stream) /\ disk \in Seq(Task) /\ Once(disk)
  BY DEF Inv, Valid
<1>3. /\ agent' \in AgentType /\ ~agent'.touched /\ Load(agent') = Load(agent) /\ agent'.history = <<>>
      /\ agent'.first = agent.first /\ Places(agent') = Places(agent)
  <2>1. agent \in AgentType /\ ~agent.touched
    BY Parts
  <2>2. <<>> \in Seq(Task)
    OBVIOUS
  <2> QED BY <1>1, <2>1, <2>2 DEF AgentType, Load, Places
<1>4. /\ agent'.slot = agent.slot /\ agent'.chat = agent.chat /\ agent'.stop = agent.stop /\ agent'.chatStop = agent.chatStop
      /\ agent'.task = agent.task /\ agent'.nextID = agent.nextID
  BY <1>3 DEF Places
<1>5. Base(agent', run)
  BY <1>3, <1>4, Parts DEF Base
<1>6. Own(agent, run) => Own(agent', run)
  BY <1>3, <1>4 DEF Own, InPlace
<1>7. Once(agent'.history)
  BY <1>3 DEF Once
<1>8. Follows(stream')
  <2> DEFINE changed == agent.history # <<>> \/ lastError
  <2>1. Tell(changed, TRUE) /\ changed \in BOOLEAN
    BY <1>1
  <2> HIDE DEF changed
  <2> QED BY <1>2, <2>1, TellIs
<1>9. Valid(agent', run', disk', leaving', hasty', stream')
  BY <1>1, <1>2, <1>3, <1>5, <1>6, <1>7, <1>8, Parts DEF Valid
<1> QED BY <1>1, <1>9, Parts, Closes

LEMMA ClearDiskKeeps ==
  ASSUME Inv, ClearDisk
  PROVE  Inv'
<1>1. disk' = <<>> /\ UNCHANGED <<setup, agent, run, leaving, hasty, stream>>
  BY DEF ClearDisk
<1>2. disk' \in Seq(Task) /\ Once(disk')
  BY <1>1 DEF Once
<1>3. Valid(agent', run', disk', leaving', hasty', stream')
  BY <1>1, <1>2 DEF Inv, Valid
<1> QED BY <1>1, <1>3, Closes DEF Inv

LEMMA HandleRestartKeeps ==
  ASSUME Inv, HandleRestart
  PROVE  Inv'
<1> DEFINE q == [agent EXCEPT !.queue = <<>>]
           b == Finalize(q)
           c == FinalizeChat(b)
<1>1. ~setup.gui /\ leaving' /\ UNCHANGED <<setup, run, hasty>> /\ (Do(Touch(b)) \/ Do(Touch(c)))
  BY DEF HandleRestart
<1>2. /\ q \in AgentType /\ Rest(q) = Rest(agent) /\ Places(q) = Places(agent)
      /\ q.slot <= q.nextID /\ q.nextID = agent.nextID /\ q.queue = <<>> /\ q.history = agent.history
  <2>1. agent \in AgentType /\ agent.slot <= agent.nextID /\ <<>> \in Seq(Transfers)
    BY Parts
  <2> QED BY <2>1 DEF AgentType, Rest, Places
<1> HIDE DEF q
<1>3. Load(q) <= setup.tasks
  <2>1. agent.nextID \in Nat /\ Len(agent.queue) \in Nat /\ setup.tasks \in Nat
    BY Parts, Bounds DEF AgentType
  <2> QED BY <1>2, <2>1, Parts DEF Load
<1>4. Finalized(q, b)
  BY <1>1, <1>2, <1>3, Parts, FinalizeIs
<1> HIDE DEF b
<1>5. b \in AgentType /\ Load(b) <= setup.tasks /\ Step(q, b)
  BY <1>3, <1>4 DEF Finalized
<1>6. Base(q, run) /\ (~hasty /\ ~Does("clear") => Rec(q, run))
  BY <1>2, Parts, Alike
<1>7. Base(b, run)
  BY <1>2, <1>5, <1>6, Parts, BaseStep
<1>8. Told(q, b, run)
  BY <1>1, <1>4 DEF Finalized, Told, Noted
<1>9. ~hasty /\ ~Does("clear") => Rec(b, run)
  BY <1>2, <1>5, <1>6, <1>8, Parts, RecStep
<1>10. Once(b.history)
  BY <1>2, <1>5, Parts DEF Step, Grows
<1>11. c \in AgentType /\ Load(c) = Load(b) /\ Step(b, c) /\ c.slot = b.slot /\ c.stop = b.stop
  <2>1. b.chat <= b.nextID
    BY <1>7 DEF Base
  <2> QED BY <1>5, <2>1, Parts, FinalizeChatIs
<1> HIDE DEF c
<1>12. Base(c, run) /\ Once(c.history)
  <2>1. Base(c, run)
    BY <1>5, <1>7, <1>11, Parts, BaseStep
  <2> QED BY <1>10, <1>11, <2>1 DEF Step, Grows
<1>13. Told(b, c, run)
  BY <1>1, <1>11 DEF Told
<1>14. ~hasty /\ ~Does("clear") => Rec(c, run)
  BY <1>5, <1>7, <1>9, <1>11, <1>13, Parts, RecStep
<1>15. ASSUME NEW d \in AgentType, Load(d) <= setup.tasks, Base(d, run), Once(d.history),
              ~hasty /\ ~Does("clear") => Rec(d, run), Do(Touch(d))
       PROVE  Inv'
  <2> DEFINE x == Touch(d)
  <2>1. x.touched /\ x \in AgentType /\ Rest(x) = Rest(d) /\ Table(x) = Table(d)
    BY TouchIs
  <2>2. Do(x)
    BY <1>15
  <2> HIDE DEF x
  <2>3. Places(x) = Places(d) /\ Load(x) = Load(d) /\ x.history = d.history
    BY <2>1 DEF Places, Table, Rest, Load
  <2>4. Base(x, run) /\ (Rec(d, run) => Rec(x, run))
    BY <1>15, <2>1, <2>3, Alike
  <2>5. Says(x)
    BY <2>1, <2>2, DoSays
  <2> QED BY <1>1, <1>15, <2>1, <2>3, <2>4, <2>5, Parts, DoIs
<1> QED BY <1>1, <1>5, <1>7, <1>9, <1>10, <1>11, <1>12, <1>14, <1>15

(* loadHistory: the ids go on after the newest one of the history.          *)
Greater == {p \in Nat \X Nat : p[1] < p[2]}
LEMMA NewestIs ==
  ASSUME setup \in Setups, NEW s \in Seq(Task)
  PROVE  Newest(s) \in Ref
<1> DEFINE IsNewest(g) == (g = 0 <=> s = <<>>) /\ \A i \in 1 .. Len(s) : s[i] <= g /\ (g = 0 \/ \E j \in 1 .. Len(s) : s[j] = g)
<1>1. \E g \in Id \cup {0} : IsNewest(g)
  <2>1. CASE s = <<>>
    BY <2>1
  <2>2. CASE s # <<>>
    <3> DEFINE T == {setup.tasks - s[i] : i \in 1 .. Len(s)}
    <3>1. \A i \in 1 .. Len(s) : s[i] \in Task /\ s[i] \in Nat /\ s[i] # 0 /\ s[i] \in Id /\ setup.tasks - s[i] \in Nat
      BY Bounds DEF Task, Nobody
    <3>2. 1 \in 1 .. Len(s)
      BY <2>2
    <3>3. T \subseteq Nat /\ T # {}
      BY <3>1, <3>2
    <3>4. IsWellFoundedOn(Greater, Nat)
      BY NatLessThanWellFounded DEF OpToRel, Greater
    <3>5. PICK t \in T : \A u \in T : ~ (<<u, t>> \in Greater)
      BY <3>3, <3>4, WFMin
    <3>6. PICK i \in 1 .. Len(s) : t = setup.tasks - s[i]
      BY <3>5
    <3>7. \A j \in 1 .. Len(s) : s[j] <= s[i]
      <4> SUFFICES ASSUME NEW j \in 1 .. Len(s) PROVE s[j] <= s[i]
        OBVIOUS
      <4>1. setup.tasks - s[j] \in T /\ setup.tasks - s[j] \in Nat /\ t \in Nat
        BY <3>1, <3>3
      <4>2. ~(setup.tasks - s[j] < t)
        BY <3>5, <4>1 DEF Greater
      <4>3. s[j] \in Nat /\ s[i] \in Nat /\ setup.tasks \in Nat
        BY <3>1, Bounds
      <4> QED BY <3>6, <4>1, <4>2, <4>3
    <3> QED BY <2>2, <3>1, <3>7
  <2> QED BY <2>1, <2>2
<1>2. Newest(s) = CHOOSE g \in Id \cup {0} : IsNewest(g)
  BY DEF Newest
<1>3. IsNewest(Newest(s))
  BY <1>1, <1>2
<1>4. \A i \in 1 .. Len(s) : s[i] \in Task
  OBVIOUS
<1>5. CASE s = <<>>
  BY <1>3, <1>5 DEF Ref, Nobody
<1>6. CASE s # <<>>
  <2>1. 1 \in 1 .. Len(s)
    BY <1>6
  <2> QED BY <1>3, <1>4, <1>6, <2>1 DEF Ref
<1> QED BY <1>5, <1>6

(* A process begins: no task of its own yet.                                *)
LEMMA NewAgentIs ==
  ASSUME setup \in Setups, NEW h \in Seq(Task), NEW n \in Ref
  PROVE  LET b == NewAgent(h, n) IN
         /\ b \in AgentType /\ ~b.touched /\ b.queue = <<>>
         /\ b.slot = Nobody /\ b.chat = Nobody /\ b.stop = Nobody /\ b.first = n /\ b.nextID = n /\ b.history = h
<1>1. Nobody \in Ref /\ NewTask("share") \in TaskType /\ <<>> \in Seq(Transfers)
  BY NewTaskIs, Bounds DEF Kinds, Transfers
<1> DEFINE f == [g \in Id |-> NewTask("share")]
           m == [g \in Id |-> "empty"]
<1>2. f \in [Id -> TaskType] /\ m \in [Id -> {"empty", "ok", "err"}]
  BY <1>1
<1>3. NewAgent(h, n) = [slot |-> Nobody, chat |-> Nobody, queue |-> <<>>, first |-> n, nextID |-> n,
           task |-> f, stop |-> Nobody, chatStop |-> Nobody,
           asked |-> {}, history |-> h, ready |-> Nobody, chatReady |-> Nobody, box |-> m, touched |-> FALSE]
  BY DEF NewAgent
<1> HIDE DEF f, m
<1> QED BY <1>1, <1>2, <1>3 DEF AgentType

LEMMA BeginsWell ==
  ASSUME setup \in Setups, NEW b \in AgentType, ~b.touched, b.queue = <<>>,
         b.slot = Nobody, b.chat = Nobody, b.stop = Nobody, b.first = b.nextID, Once(b.history),
         NEW s, Follows(s)
  PROVE  Valid(b, [g \in Id |-> NewRun], b.history, FALSE, FALSE, s)
<1> DEFINE r == [g \in Id |-> NewRun]
<1>1. b.nextID \in Ref /\ b.history \in Seq(Task)
  BY DEF AgentType
<1>2. b.nextID \in Nat /\ Nobody \in Ref /\ Load(b) <= setup.tasks
  BY <1>1, Bounds DEF Ref, Task, Nobody, Load
<1>3. r \in [Id -> RunType] /\ \A g \in Id : r[g].pc = "start"
  BY <1>2 DEF NewRun, RunType, RunPC
<1> HIDE DEF r
<1>4. Base(b, r)
  BY <1>2, <1>3 DEF Base, Nobody
<1>5. \A g \in Id : ~(b.first < g /\ g <= b.nextID)
  BY <1>2 DEF Id
<1>6. Own(b, r)
  BY <1>5 DEF Own
<1>7. Rec(b, r)
  BY <1>5 DEF Rec
<1> QED BY <1>1, <1>2, <1>3, <1>4, <1>6, <1>7 DEF Valid, r

LEMMA ReloadKeeps ==
  ASSUME Inv, Reload
  PROVE  Inv'
<1>1. /\ agent' = [NewAgent(disk, Newest(disk)) EXCEPT !.task = agent.task]
      /\ run' = [g \in Id |-> NewRun] /\ leaving' = FALSE /\ hasty' = FALSE
      /\ stream' = Off /\ UNCHANGED <<setup, disk>>
  BY DEF Reload
<1>2. disk \in Seq(Task) /\ Once(disk) /\ agent.task \in [Id -> TaskType]
  BY DEF Inv, Valid, AgentType
<1>3. Newest(disk) \in Ref
  BY <1>2, Parts, NewestIs
<1>4. Follows(stream')
  BY <1>1 DEF Follows, StreamType, Off
<1> DEFINE m == NewAgent(disk, Newest(disk))
<1>5. /\ m \in AgentType /\ ~m.touched /\ m.queue = <<>>
      /\ m.slot = Nobody /\ m.chat = Nobody /\ m.stop = Nobody /\ m.first = m.nextID /\ m.history = disk
  BY <1>2, <1>3, Parts, NewAgentIs
<1>6. agent' = [m EXCEPT !.task = agent.task]
  BY <1>1
<1> HIDE DEF m
<1>7. /\ agent' \in AgentType /\ ~agent'.touched /\ agent'.queue = <<>>
      /\ agent'.slot = Nobody /\ agent'.chat = Nobody /\ agent'.stop = Nobody /\ agent'.first = agent'.nextID
      /\ agent'.history = disk
  BY <1>2, <1>5, <1>6 DEF AgentType
<1>8. Valid(agent', run', disk', leaving', hasty', stream')
  BY <1>1, <1>2, <1>4, <1>7, Parts, BeginsWell
<1> QED BY <1>1, <1>8, Parts, Closes

LEMMA InitTyped ==
  ASSUME Init
  PROVE  Inv
<1>1. /\ setup \in Setups /\ agent = NewAgent(<<>>, 0) /\ run = [g \in Id |-> NewRun] /\ disk = <<>>
      /\ leaving = FALSE /\ hasty = FALSE /\ stream = Off
  BY DEF Init
<1>2. 0 \in Ref /\ <<>> \in Seq(Task) /\ Once(<<>>)
  BY DEF Ref, Nobody, Once
<1>3. /\ agent \in AgentType /\ ~agent.touched /\ agent.queue = <<>> /\ agent.history = <<>>
      /\ agent.slot = Nobody /\ agent.chat = Nobody /\ agent.stop = Nobody /\ agent.first = agent.nextID
  <2> DEFINE m == NewAgent(<<>>, 0)
  <2>1. /\ m \in AgentType /\ ~m.touched /\ m.queue = <<>> /\ m.history = <<>>
        /\ m.slot = Nobody /\ m.chat = Nobody /\ m.stop = Nobody /\ m.first = 0 /\ m.nextID = 0
    <3>1. PICK h \in Seq(Task), n \in Ref : h = <<>> /\ n = 0
      BY <1>2
    <3>2. LET b == NewAgent(h, n) IN
          /\ b \in AgentType /\ ~b.touched /\ b.queue = <<>>
          /\ b.slot = Nobody /\ b.chat = Nobody /\ b.stop = Nobody /\ b.first = n /\ b.nextID = n /\ b.history = h
      BY <1>1, NewAgentIs
    <3>3. m = NewAgent(h, n)
      BY <3>1
    <3> HIDE DEF m
    <3> QED BY <3>1, <3>2, <3>3
  <2> HIDE DEF m
  <2>2. agent = m
    BY <1>1 DEF m
  <2> QED BY <2>1, <2>2
<1>4. Follows(stream)
  BY <1>1 DEF Follows, StreamType, Off
<1>5. Valid(agent, run, disk, leaving, hasty, stream)
  BY <1>1, <1>2, <1>3, <1>4, BeginsWell
<1> QED BY <1>1, <1>5 DEF Inv

-----------------------------------------------------------------------------
(* Every step of a goroutine keeps the invariant                            *)

Holds(a, r) ==
  /\ Base(a, r)
  /\ ~hasty /\ ~leaving => Own(a, r)
  /\ ~hasty /\ ~Does("clear") => Rec(a, r)

LEMMA GotoIs ==
  ASSUME Inv, NEW g \in Id, NEW pc \in RunPC, Goto(g, pc)
  PROVE  /\ run' \in [Id -> RunType] /\ Moved(run, run', g)
         /\ run'[g].pc = pc /\ run'[g].bound = run[g].bound /\ run'[g].err = run[g].err
<1> DEFINE u == [run[g] EXCEPT !.pc = pc]
<1>1. run \in [Id -> RunType] /\ run[g] \in RunType
  BY Parts
<1>2. u \in RunType /\ u.pc = pc /\ u.bound = run[g].bound /\ u.err = run[g].err
  BY <1>1 DEF RunType
<1>3. run' = [run EXCEPT ![g] = u]
  BY <1>1 DEF Goto
<1> HIDE DEF u
<1> QED BY <1>1, <1>2, <1>3 DEF Moved

LEMMA FailsIs ==
  ASSUME Inv, NEW g \in Id, Fails(g)
  PROVE  /\ run' \in [Id -> RunType] /\ Moved(run, run', g)
         /\ run'[g].pc = "finish" /\ run'[g].err
<1> DEFINE u == [run[g] EXCEPT !.pc = "finish", !.err = TRUE]
<1>1. run \in [Id -> RunType] /\ run[g] \in RunType
  BY Parts
<1>2. u \in RunType /\ u.pc = "finish" /\ u.err
  BY <1>1 DEF RunType, RunPC
<1>3. run' = [run EXCEPT ![g] = u]
  BY <1>1 DEF Fails
<1> HIDE DEF u
<1> QED BY <1>1, <1>2, <1>3 DEF Moved

LEMMA TokenIs ==
  ASSUME Inv, NEW g \in Id, NEW token \in BOOLEAN, run' = [run EXCEPT ![g].token = token]
  PROVE  /\ run' \in [Id -> RunType]
         /\ \A h \in Id : run'[h].pc = run[h].pc /\ run'[h].bound = run[h].bound /\ run'[h].err = run[h].err
<1> DEFINE u == [run[g] EXCEPT !.token = token]
<1>1. run \in [Id -> RunType] /\ run[g] \in RunType
  BY Parts
<1>2. u \in RunType /\ u.pc = run[g].pc /\ u.bound = run[g].bound /\ u.err = run[g].err
  BY <1>1 DEF RunType
<1>3. run' = [run EXCEPT ![g] = u]
  BY <1>1
<1> HIDE DEF u
<1> QED BY <1>1, <1>2, <1>3

LEMMA TokenKeeps ==
  ASSUME Inv, NEW s, \A h \in Id : s[h].pc = run[h].pc /\ s[h].bound = run[h].bound /\ s[h].err = run[h].err
  PROVE  Holds(agent, s)
<1>1. agent.slot \in Id \cup {Nobody} /\ agent.chat \in Id \cup {Nobody}
  BY Parts, Bounds DEF AgentType, Ref
<1>2. Base(agent, s)
  BY Parts DEF Base
<1>3. Own(agent, run) => Own(agent, s)
  BY <1>1 DEF Own
<1>4. Rec(agent, run) => Rec(agent, s)
  BY <1>1 DEF Rec, Noted
<1> QED BY <1>2, <1>3, <1>4, Parts DEF Holds

(* The goroutine of g moves on.                                             *)
LEMMA MoveKeeps ==
  ASSUME Inv, NEW g \in Id, g \in Begun, NEW s, Moved(run, s, g),
         agent.task[g].kind = "chat" => s[g].pc # "page",
         s[g].pc \in Unknown => run[g].pc \in Unknown,
         s[g].pc = "serve" => run[g].pc \in {"serve", "page"},
         s[g].pc = "page" => run[g].pc = "page",
         s[g].pc = "wait" => run[g].pc \in {"serve", "wait"},
         Own(agent, run) /\ s[g].pc \in {"hook", "register", "page", "serve", "wait"} => s[g].bound = g,
         s[g].pc \notin Unknown /\ run[g].pc \in Unknown => s[g].err
  PROVE  Holds(agent, s)
<1>1. /\ agent.slot \in Id \cup {Nobody} /\ agent.chat \in Id \cup {Nobody} /\ agent.nextID \in Nat
      /\ agent \in AgentType /\ agent.first < g /\ g <= agent.nextID
  BY Parts, Bounds DEF AgentType, Ref, Begun
<1>2. Base(agent, s)
  BY <1>1, Parts, MoveBase
<1>3. Own(agent, run) => Own(agent, s)
  <2>1. agent.task[g].kind = "chat" => run[g].pc # "page"
    BY <1>1, Parts DEF Base
  <2> QED BY <1>1, <2>1, MoveOwn
<1>4. Rec(agent, run) => Rec(agent, s)
  BY <1>1, MoveRec
<1> QED BY <1>2, <1>3, <1>4, Parts DEF Holds

(* A step that touches nothing else, and one under the lock.                *)
LEMMA QuietKeeps ==
  ASSUME Inv, UNCHANGED <<setup, agent, disk, stream, leaving, hasty>>, run' \in [Id -> RunType], Holds(agent, run')
  PROVE  Inv'
<1>1. Valid(agent', run', disk', leaving', hasty', stream')
  BY DEF Inv, Valid, Holds
<1> QED BY <1>1, Closes, Parts

LEMMA LockSays ==
  ASSUME Inv, UNCHANGED <<setup, leaving, hasty>>, run' \in [Id -> RunType],
         NEW x \in AgentType, Load(x) <= setup.tasks, Says(x),
         Once(x.history), Holds(x, run')
  PROVE  Inv'
BY Parts, DoIs DEF Holds

LEMMA LockKeeps ==
  ASSUME Inv, UNCHANGED <<setup, leaving, hasty>>, run' \in [Id -> RunType],
         NEW x \in AgentType, Load(x) <= setup.tasks, Do(x), x.touched \/ View(x) = View(agent),
         Once(x.history), Holds(x, run')
  PROVE  Inv'
BY DoSays, LockSays

LEMMA ResolveKeeps ==
  ASSUME Inv, NEW g \in Id, Resolve(g)
  PROVE  Inv'
<1>1. g \in Begun /\ run[g].pc = "start" /\ UNCHANGED <<setup, agent, disk, stream, leaving, hasty>>
  BY DEF Resolve, At, Stays
<1>2. CASE Fails(g)
  <2>1. run' \in [Id -> RunType] /\ Moved(run, run', g) /\ run'[g].pc = "finish" /\ run'[g].err
    BY <1>2, FailsIs
  <2>2. Holds(agent, run')
    BY <1>1, <2>1, MoveKeeps DEF Unknown
  <2> QED BY <1>1, <2>1, <2>2, QuietKeeps
<1>3. CASE run' = [run EXCEPT ![g].pc = "hook", ![g].bound = IF IsChat(g) THEN agent.chat ELSE agent.slot]
  <2> DEFINE n == IF IsChat(g) THEN agent.chat ELSE agent.slot
             u == [run[g] EXCEPT !.pc = "hook", !.bound = n]
  <2>1. run \in [Id -> RunType] /\ run[g] \in RunType /\ n \in Ref
    BY Parts DEF AgentType
  <2>2. n = InPlace(agent, g)
    BY DEF InPlace, IsChat
  <2>3. run' = [run EXCEPT ![g] = u]
    BY <1>3, <2>1
  <2> HIDE DEF n
  <2>4. u \in RunType /\ u.pc = "hook" /\ u.bound = n /\ u.err = run[g].err
    BY <2>1 DEF RunType, RunPC
  <2> HIDE DEF u
  <2>5. run' \in [Id -> RunType] /\ Moved(run, run', g) /\ run'[g] = u
    BY <2>1, <2>3, <2>4 DEF Moved
  <2>6. Own(agent, run) => n = g
    BY <1>1, <2>2 DEF Own, Unknown, Begun
  <2>7. Holds(agent, run')
    BY <1>1, <2>4, <2>5, <2>6, MoveKeeps DEF Unknown
  <2> QED BY <1>1, <2>5, <2>7, QuietKeeps
<1> QED BY <1>2, <1>3 DEF Resolve

LEMMA HookKeeps ==
  ASSUME Inv, NEW g \in Id, Hook(g)
  PROVE  Inv'
<1> DEFINE n == run[g].bound
           x == Observe(agent, n, "waiting")
<1>1. /\ g \in Begun /\ run[g].pc = "hook" /\ UNCHANGED <<setup, leaving, hasty>>
      /\ Goto(g, "register") /\ Do(x)
  BY DEF Hook, At, Stays
<1>2. /\ run' \in [Id -> RunType] /\ Moved(run, run', g)
      /\ run'[g].pc = "register" /\ run'[g].bound = n
  BY <1>1, GotoIs DEF RunPC
<1>3. Own(agent, run) => n = g /\ g = InPlace(agent, g)
  BY <1>1 DEF Own, Unknown, Begun
<1>4. Holds(agent, run')
  BY <1>1, <1>2, <1>3, MoveKeeps DEF Unknown
<1>5. n \in Ref
  BY Parts DEF RunType
<1> HIDE DEF n
<1>6. \/ x = agent
      \/ /\ x.touched /\ Ended(agent, x, n) /\ n \in 1 .. agent.nextID
         /\ agent.task[n].state = "running" =>
              x.slot = n /\ x.stop = agent.stop /\ x.task[n].moved = agent.task[n].moved /\ x.task[n].state = "running"
  <2>1. "waiting" \in Statuses
    BY DEF Statuses
  <2> QED BY <1>5, <2>1, Parts, ObserveIs
<1> HIDE DEF x
<1>7. CASE x = agent
  BY <1>1, <1>2, <1>4, <1>7, Parts, LockKeeps
<1>8. CASE x # agent
  <2>1. /\ x.touched /\ Ended(agent, x, n) /\ n \in 1 .. agent.nextID /\ agent.slot = n /\ n # Nobody /\ n \in Id
        /\ x \in AgentType /\ Load(x) <= setup.tasks /\ Step(agent, x)
    BY <1>6, <1>8, Parts, Older, Bounds DEF Ended
  <2>2. Base(x, run')
    BY <1>2, <1>4, <2>1, Parts, BaseStep DEF Holds
  <2>3. Own(agent, run) =>
          x.slot = n /\ x.stop = agent.stop /\ x.task[n].moved = agent.task[n].moved /\ x.task[n].state = "running"
    <3>1. Own(agent, run) => agent.task[n].state = "running"
      BY <1>1, <1>3, <2>1 DEF Own, Unknown
    <3> QED BY <1>6, <1>8, <3>1
  <2>4. ASSUME ~hasty, ~leaving PROVE Own(x, run')
    <3>1. Own(agent, run) /\ Own(agent, run')
      BY <1>4, <2>4, Parts DEF Holds
    <3>2. agent.chat # Nobody => x.chat = agent.chat /\ x.task[agent.chat].state = agent.task[agent.chat].state
      <4>1. agent.chat # Nobody => agent.chat # n /\ agent.chat \in 1 .. agent.nextID
        BY <2>1, <3>1, Parts, Apart
      <4> QED BY <2>1, <4>1 DEF Ended
    <3>3. x.slot = agent.slot /\ x.stop = agent.stop /\ x.task[agent.slot].state = "running" /\ x.chatStop = agent.chatStop
      BY <2>1, <2>3, <3>1 DEF Ended
    <3>4. Left(agent, x, run')
      BY <3>2, <3>3 DEF Left
    <3> QED BY <1>2, <1>4, <2>1, <3>1, <3>4, Parts, OwnStep DEF Holds
  <2>5. ASSUME ~hasty, ~Does("clear") PROVE Rec(x, run')
    <3>1. setup.gui => x.task[n].moved = agent.task[n].moved
      BY <2>3, <2>5, Parts
    <3>2. Told(agent, x, run')
      BY <2>1, <3>1, EndedTold
    <3> QED BY <1>2, <1>4, <2>1, <2>5, <3>2, Parts, RecStep DEF Holds
  <2>6. Once(x.history)
    BY <2>1, Parts DEF Step, Grows
  <2> QED BY <1>1, <1>2, <2>1, <2>2, <2>4, <2>5, <2>6, LockKeeps DEF Holds
<1> QED BY <1>7, <1>8

LEMMA RegisterStepKeeps ==
  ASSUME Inv, NEW g \in Id, Register(g)
  PROVE  Inv'
<1> DEFINE x == Registered(agent, g)
           to == IF setup.gui \/ IsChat(g) THEN "serve" ELSE "page"
<1>1. /\ g \in Begun /\ run[g].pc = "register" /\ UNCHANGED <<setup, leaving, hasty>> /\ Goto(g, to)
  BY DEF Register, At, Stays
<1>2. Do(x)
  BY DEF Register, Registered, IsChat
<1>3. to \in RunPC /\ to \in {"page", "serve"} /\ (agent.task[g].kind = "chat" => to = "serve")
  BY DEF RunPC, IsChat
<1> HIDE DEF to
<1>4. /\ run' \in [Id -> RunType] /\ Moved(run, run', g)
      /\ run'[g].pc = to /\ run'[g].bound = run[g].bound /\ run'[g].err = run[g].err
  BY <1>1, <1>3, GotoIs
<1>5. g \in 1 .. agent.nextID /\ agent.first < g
  BY <1>1, Parts, Bounds DEF Begun, AgentType, Id
<1>6. /\ Base(x, run')
      /\ Own(agent, run) => Own(x, run')
      /\ Rec(agent, run) /\ (setup.gui => Own(agent, run)) => Rec(x, run')
  BY <1>1, <1>3, <1>4, <1>5, Parts, RegisterKeeps
<1>7. /\ x \in AgentType /\ Rest(x) = Rest(agent) /\ Load(x) = Load(agent) /\ x.queue = agent.queue
      /\ x.slot = agent.slot /\ x.chat = agent.chat /\ x.task = agent.task /\ x.nextID = agent.nextID
  BY <1>5, Parts, RegisterIs
<1> HIDE DEF x
<1>8. View(x) = View(agent) /\ x.history = agent.history
  BY <1>7 DEF View, Rest
<1>9. Holds(x, run')
  BY <1>6, Parts DEF Holds
<1> QED BY <1>1, <1>2, <1>4, <1>7, <1>8, <1>9, Parts, LockKeeps

LEMMA ShowPageKeeps ==
  ASSUME Inv, NEW g \in Id, ShowPage(g)
  PROVE  Inv'
<1> DEFINE x == SetPage(agent, g)
<1>1. g \in Begun /\ run[g].pc = "page" /\ UNCHANGED <<setup, leaving, hasty>> /\ Goto(g, "serve") /\ Do(x)
  BY DEF ShowPage, At, Stays
<1>2. /\ run' \in [Id -> RunType] /\ Moved(run, run', g)
      /\ run'[g].pc = "serve" /\ run'[g].bound = run[g].bound
  BY <1>1, GotoIs DEF RunPC
<1>3. Own(agent, run) => run[g].bound = g /\ InPlace(agent, g) = g
  BY <1>1 DEF Own, Begun
<1>4. Holds(agent, run')
  BY <1>1, <1>2, <1>3, MoveKeeps DEF Unknown
<1>5. x = agent \/ (x.touched /\ Paged(agent, x, InPlace(agent, g), g))
  BY Parts, SetPageIs
<1> HIDE DEF x
<1>6. CASE x = agent
  BY <1>1, <1>2, <1>4, <1>6, Parts, LockKeeps
<1>7. CASE x.touched /\ Paged(agent, x, InPlace(agent, g), g)
  <2>1. Holds(x, run')
    BY <1>3, <1>4, <1>7, Parts, PagedKeeps DEF Holds
  <2>2. x \in AgentType /\ Load(x) = Load(agent) /\ x.history = agent.history
    BY <1>7 DEF Paged, Rest, Load
  <2> QED BY <1>1, <1>2, <1>7, <2>1, <2>2, Parts, LockKeeps
<1> QED BY <1>5, <1>6, <1>7

LEMMA FailsKeeps ==
  ASSUME Inv, NEW g \in Id, g \in Begun, Fails(g), UNCHANGED <<setup, agent, disk, stream, leaving, hasty>>
  PROVE  Inv'
<1>1. run' \in [Id -> RunType] /\ Moved(run, run', g) /\ run'[g].pc = "finish" /\ run'[g].err
  BY FailsIs
<1>2. Holds(agent, run')
  BY <1>1, MoveKeeps DEF Unknown
<1> QED BY <1>1, <1>2, QuietKeeps

LEMMA ServeKeeps ==
  ASSUME Inv, NEW g \in Id, Serve(g)
  PROVE  Inv'
<1> DEFINE x == IF setup.gui THEN SetPageOfGui(agent, g) ELSE IF IsChat(g) THEN SetPage(agent, g) ELSE agent
<1>1. g \in Begun /\ run[g].pc = "serve" /\ UNCHANGED <<setup, leaving, hasty>>
  BY DEF Serve, At, Stays
<1>2. CASE Fails(g) /\ UNCHANGED <<agent, disk, stream>>
  BY <1>1, <1>2, FailsKeeps
<1>3. CASE Goto(g, "wait") /\ Do(x)
  <2>1. /\ run' \in [Id -> RunType] /\ Moved(run, run', g)
        /\ run'[g].pc = "wait" /\ run'[g].bound = run[g].bound
    BY <1>3, GotoIs DEF RunPC
  <2>2. Own(agent, run) => run[g].bound = g /\ InPlace(agent, g) = g
    BY <1>1 DEF Own, Begun
  <2>3. Holds(agent, run')
    BY <1>1, <2>1, <2>2, MoveKeeps DEF Unknown
  <2>4. x = agent \/ (x.touched /\ Paged(agent, x, InPlace(agent, g), g))
    BY Parts, SetPageIs, SetPageOfGuiIs
  <2>5. Do(x)
    BY <1>3
  <2> HIDE DEF x
  <2>6. CASE x = agent
    BY <1>1, <2>1, <2>3, <2>5, <2>6, Parts, LockKeeps
  <2>7. CASE x.touched /\ Paged(agent, x, InPlace(agent, g), g)
    <3>1. Holds(x, run')
      BY <2>2, <2>3, <2>7, Parts, PagedKeeps DEF Holds
    <3>2. x \in AgentType /\ Load(x) = Load(agent) /\ x.history = agent.history
      BY <2>7 DEF Paged, Rest, Load
    <3> QED BY <1>1, <2>1, <2>5, <2>7, <3>1, <3>2, Parts, LockKeeps
  <2> QED BY <2>4, <2>6, <2>7
<1> QED BY <1>2, <1>3 DEF Serve

(* A task that is served, or was, ends, and with it its callback.           *)
LEMMA EndedKeeps ==
  ASSUME Inv, NEW x, NEW n \in 1 .. agent.nextID, NEW s \in [Id -> RunType], Holds(agent, s), Ended(agent, x, n),
         Own(agent, s) =>
           /\ s[n].pc \notin Unknown \cup {"page", "serve"}
           /\ x.slot = n => x.stop = agent.stop \/ s[n].pc # "wait"
           /\ setup.gui /\ x.slot = n /\ x.stop = agent.stop /\ agent.stop = Nobody =>
                (Len(x.history) < MaxHistory => Listed(x, n) \/ ~Kept(x, n))
  PROVE  Holds(x, s) /\ x \in AgentType /\ Load(x) <= setup.tasks /\ Once(x.history)
<1>1. x \in AgentType /\ Load(x) <= setup.tasks /\ Step(agent, x)
  BY Parts DEF Ended
<1>2. Base(x, s)
  BY <1>1, Parts, BaseStep DEF Holds
<1>3. ASSUME ~hasty, ~leaving PROVE Own(x, s)
  <2>1. Own(agent, s)
    BY <1>3 DEF Holds
  <2>2. Left(agent, x, s)
    BY <2>1, Parts, EndedLeft
  <2> QED BY <1>1, <2>1, <2>2, Parts, OwnStep DEF Holds
<1>4. ASSUME ~hasty, ~Does("clear") PROVE Rec(x, s)
  <2>1. setup.gui => Own(agent, s)
    BY <1>4, Parts DEF Holds
  <2>2. Told(agent, x, s)
    BY <2>1, EndedTold
  <2> QED BY <1>1, <1>4, <2>2, Parts, RecStep DEF Holds
<1>5. Once(x.history)
  BY <1>1, Parts DEF Step, Grows
<1> QED BY <1>1, <1>2, <1>3, <1>4, <1>5 DEF Holds

LEMMA ReportKeeps ==
  ASSUME Inv, NEW g \in Id, NEW status \in Ending \cup {"transferring"}, Report(g, status)
  PROVE  Inv'
<1> DEFINE n == run[g].bound
           o == Observe(agent, n, status)
           x == IF IsChat(g) THEN agent ELSE o
<1>1. g \in Begun /\ run[g].pc = "wait" /\ UNCHANGED <<setup, leaving, hasty>> /\ Do(x)
  BY DEF Report, At, Stays
<1>2. /\ run' \in [Id -> RunType]
      /\ \A h \in Id : run'[h].pc = run[h].pc /\ run'[h].bound = run[h].bound /\ run'[h].err = run[h].err
  <2> DEFINE token == status \in {"completed", "stopped"}
  <2>1. token \in BOOLEAN /\ run' = [run EXCEPT ![g].token = token]
    BY DEF Report
  <2> HIDE DEF token
  <2> QED BY <2>1, TokenIs
<1>3. Holds(agent, run')
  BY <1>2, TokenKeeps
<1>4. Own(agent, run') => n = g
  BY <1>1, <1>2 DEF Own, Begun
<1>5. n \in Ref
  BY Parts DEF RunType
<1> HIDE DEF n
<1>6. \/ o = agent
      \/ o.touched /\ Ended(agent, o, n) /\ n \in 1 .. agent.nextID /\ (o.slot = n => o.stop = agent.stop)
  <2>1. status \in Statuses
    BY DEF Statuses
  <2> QED BY <1>5, <2>1, Parts, ObserveIs
<1> HIDE DEF o
<1>7. x = agent \/ (x.touched /\ Ended(agent, x, n) /\ n \in 1 .. agent.nextID /\ (x.slot = n => x.stop = agent.stop))
  BY <1>6
<1> HIDE DEF x
<1>8. CASE x = agent
  BY <1>1, <1>2, <1>3, <1>8, Parts, LockKeeps
<1>9. CASE x # agent
  <2>1. agent.slot = n
    BY <1>7, <1>9 DEF Ended
  <2>2. n # Nobody
    BY <1>7, <1>9, Older, Parts, Bounds
  <2>3. Own(agent, run') => run'[n].pc = "wait" /\ agent.stop = n
    BY <1>1, <1>2, <1>4, <2>1, <2>2 DEF Own
  <2>4. Holds(x, run') /\ x \in AgentType /\ Load(x) <= setup.tasks /\ Once(x.history)
    BY <1>2, <1>3, <1>7, <1>9, <2>2, <2>3, EndedKeeps DEF Unknown
  <2> QED BY <1>1, <1>2, <1>7, <1>9, <2>4, LockKeeps
<1> QED BY <1>8, <1>9

LEMMA RunStopKeeps ==
  ASSUME Inv, NEW g \in Id, RunStop(g)
  PROVE  Inv'
<1>1. /\ agent' = [agent EXCEPT !.asked = @ \ {g}] /\ run' = [run EXCEPT ![g].token = TRUE]
      /\ UNCHANGED <<setup, disk, stream, leaving, hasty>>
  BY DEF RunStop, Stays
<1>2. /\ run' \in [Id -> RunType]
      /\ \A h \in Id : run'[h].pc = run[h].pc /\ run'[h].bound = run[h].bound /\ run'[h].err = run[h].err
  BY <1>1, TokenIs
<1>3. Holds(agent, run')
  BY <1>2, TokenKeeps
<1>4. /\ agent' \in AgentType /\ ~agent'.touched /\ Load(agent') = Load(agent) /\ agent'.history = agent.history
      /\ Rest(agent') = Rest(agent) /\ Places(agent') = Places(agent)
  <2>1. agent \in AgentType /\ ~agent.touched
    BY Parts
  <2> QED BY <1>1, <2>1 DEF AgentType, Load, Rest, Places
<1>5. Base(agent', run') /\ (Own(agent, run') => Own(agent', run')) /\ (Rec(agent, run') => Rec(agent', run'))
  BY <1>3, <1>4, Alike DEF Holds
<1>6. Valid(agent', run', disk', leaving', hasty', stream')
  BY <1>1, <1>2, <1>3, <1>4, <1>5 DEF Inv, Valid, Holds
<1> QED BY <1>1, <1>6, Parts, Closes

LEMMA WaitKeeps ==
  ASSUME Inv, NEW g \in Id, Wait(g)
  PROVE  Inv'
<1>1. g \in Begun /\ run[g].pc = "wait" /\ UNCHANGED <<setup, agent, disk, stream, leaving, hasty>>
  BY DEF Wait, At, Stays
<1>2. CASE Fails(g)
  BY <1>1, <1>2, FailsKeeps
<1>3. CASE Goto(g, "finish")
  <2>1. run' \in [Id -> RunType] /\ Moved(run, run', g) /\ run'[g].pc = "finish"
    BY <1>3, GotoIs DEF RunPC
  <2>2. Holds(agent, run')
    BY <1>1, <2>1, MoveKeeps DEF Unknown
  <2> QED BY <1>1, <2>1, <2>2, QuietKeeps
<1> QED BY <1>2, <1>3 DEF Wait

LEMMA SameHolds ==
  ASSUME Inv, NEW x, NEW s, Same(agent, x), Holds(agent, s)
  PROVE  /\ Holds(x, s) /\ x \in AgentType /\ Load(x) <= setup.tasks /\ Once(x.history) /\ View(x) = View(agent)
<1>1. x \in AgentType /\ Rest(x) = Rest(agent) /\ Table(x) = Table(agent)
  BY DEF Same
<1>2. Places(x) = Places(agent) /\ Load(x) = Load(agent) /\ x.history = agent.history
  BY <1>1 DEF Places, Table, Rest, Load
<1>3. Holds(x, s)
  BY <1>1, <1>2, Alike DEF Holds
<1> QED BY <1>1, <1>2, <1>3, Parts, SameView

LEMMA FinishKeeps ==
  ASSUME Inv, NEW g \in Id, Finish(g)
  PROVE  Inv'
<1> DEFINE err == run[g].err
           b == Execute(agent, g, err)
           c == ExecuteInGui(agent, g, err)
           d == ExecuteChat(agent, g, err)
           e == IF Blames(g) THEN TRUE ELSE lastError
<1>1. /\ g \in Begun /\ run[g].pc = "finish" /\ UNCHANGED <<setup, leaving, hasty>> /\ Goto(g, "done")
      /\ DoSaying(IF IsChat(g) THEN d ELSE IF setup.gui THEN c ELSE b, e)
  BY DEF Finish, At, Stays
<1>2. run' \in [Id -> RunType] /\ Moved(run, run', g) /\ run'[g].pc = "done"
  BY <1>1, GotoIs DEF RunPC
<1>3. Holds(agent, run')
  BY <1>1, <1>2, MoveKeeps DEF Unknown
<1>4. (b = agent /\ agent.slot # g) \/ (b.touched /\ g \in 1 .. agent.nextID /\ Ended(agent, b, g))
  BY Parts, ExecuteIs
<1>5. \/ Same(agent, c) /\ agent.slot # g
      \/ /\ c.touched /\ g \in 1 .. agent.nextID /\ Ended(agent, c, g)
         /\ Len(c.history) < MaxHistory => Listed(c, g) \/ ~Kept(c, g)
  BY Parts, ExecuteInGuiIs
<1>6. (Same(agent, d) /\ agent.chat # g) \/ (d.touched /\ g \in 1 .. agent.nextID /\ ChatEnded(agent, d, g))
  BY Parts, ExecuteChatIs
<1>7. ASSUME NEW x, DoSaying(x, e), Same(agent, x), ~Blames(g)
      PROVE  Inv'
  <2>1. Do(x)
    BY <1>7 DEF Do
  <2> QED BY <1>1, <1>2, <1>3, <1>7, <2>1, SameHolds, LockKeeps
<1> HIDE DEF b, c, d, e
<1>8. ASSUME NEW x, DoSaying(x, e), x.touched, g \in 1 .. agent.nextID, Ended(agent, x, g),
             setup.gui /\ Len(x.history) < MaxHistory => Listed(x, g) \/ ~Kept(x, g)
      PROVE  Inv'
  <2>1. Holds(x, run') /\ x \in AgentType /\ Load(x) <= setup.tasks /\ Once(x.history)
    BY <1>2, <1>3, <1>8, EndedKeeps DEF Unknown
  <2>2. Says(x)
    BY <1>8 DEF Says
  <2> QED BY <1>1, <1>2, <1>8, <2>1, <2>2, LockSays
<1>9. CASE IsChat(g)
  <2>1. CASE Same(agent, d) /\ agent.chat # g
    <3>1. ~Blames(g)
      BY <1>9, <2>1 DEF Blames, InPlace, IsChat
    <3> QED BY <1>1, <1>7, <1>9, <2>1, <3>1
  <2>2. CASE d.touched /\ g \in 1 .. agent.nextID /\ ChatEnded(agent, d, g)
    <3>1. d \in AgentType /\ Load(d) <= setup.tasks /\ Step(agent, d)
      BY <2>2, Parts DEF ChatEnded
    <3>2. Base(d, run') /\ Once(d.history)
      <4>1. Base(d, run')
        BY <1>2, <1>3, <3>1, Parts, BaseStep DEF Holds
      <4> QED BY <3>1, <4>1, Parts DEF Step, Grows
    <3>3. ASSUME Own(agent, run') PROVE Own(d, run')
      <4>1. Left(agent, d, run')
        BY <1>2, <2>2, <3>3, Parts, ChatEndedLeft DEF Unknown
      <4> QED BY <1>2, <1>3, <3>1, <3>3, <4>1, Parts, OwnStep DEF Holds
    <3>4. ASSUME Rec(agent, run') PROVE Rec(d, run')
      <4>1. Told(agent, d, run')
        BY <2>2, Parts, ChatEndedTold
      <4> QED BY <1>2, <1>3, <3>1, <3>4, <4>1, Parts, RecStep DEF Holds
    <3>5. Holds(d, run')
      BY <1>3, <3>2, <3>3, <3>4 DEF Holds
    <3>6. Says(d)
      BY <1>1, <1>9, <2>2 DEF Says
    <3> QED BY <1>1, <1>2, <1>9, <2>2, <3>1, <3>2, <3>5, <3>6, LockSays
  <2> QED BY <1>6, <2>1, <2>2
<1>10. agent.slot # g /\ ~IsChat(g) => ~Blames(g)
  BY DEF Blames, InPlace, IsChat
<1>11. CASE ~IsChat(g) /\ setup.gui
  BY <1>1, <1>5, <1>7, <1>8, <1>10, <1>11
<1>12. CASE ~IsChat(g) /\ ~setup.gui
  <2>1. CASE b = agent /\ agent.slot # g
    <3>1. Same(agent, agent)
      BY Parts DEF Same
    <3> QED BY <1>1, <1>7, <1>10, <1>12, <2>1, <3>1
  <2>2. CASE ~(b = agent /\ agent.slot # g)
    BY <1>1, <1>4, <1>8, <1>12, <2>2
  <2> QED BY <2>1, <2>2
<1> QED BY <1>9, <1>11, <1>12

LEMMA AnswerKeeps ==
  ASSUME Inv, NEW g \in Id, Answer(g)
  PROVE  Inv'
<1> DEFINE p == IF IsChat(g) THEN agent.ready ELSE Nobody
           q == IF IsChat(g) THEN Nobody ELSE agent.chatReady
           m == [agent.box EXCEPT ![g] = "empty"]
           y == [agent EXCEPT !.ready = p, !.chatReady = q, !.box = m]
           x == Touch(y)
<1>1. UNCHANGED <<setup, run, leaving, hasty>>
  BY DEF Answer
<1>2. agent.ready \in Ref /\ agent.chatReady \in Ref /\ agent.box \in [Id -> {"empty", "ok", "err"}] /\ Nobody \in Ref
  BY Parts, Bounds DEF AgentType
<1>3. p \in Ref /\ q \in Ref /\ m \in [Id -> {"empty", "ok", "err"}]
  BY <1>2
<1>4. [agent EXCEPT !.ready = IF IsChat(g) THEN @ ELSE Nobody,
                    !.chatReady = IF IsChat(g) THEN Nobody ELSE @,
                    !.box[g] = "empty"] = y
  BY Parts DEF AgentType
<1>5. \E e : DoSaying(x, e)
  BY <1>4 DEF Answer
<1> HIDE DEF p, q, m
<1>6. Same(agent, y)
  BY <1>3, Parts DEF Same, AgentType, Rest, Table
<1> HIDE DEF y
<1>7. Holds(agent, run)
  BY Parts DEF Holds
<1>8. Holds(y, run) /\ Load(y) <= setup.tasks /\ Once(y.history) /\ y \in AgentType
  BY <1>6, <1>7, SameHolds
<1>9. x \in AgentType /\ Rest(x) = Rest(y) /\ Table(x) = Table(y) /\ x.touched
  BY <1>8, TouchIs
<1>10. Says(x)
  BY <1>5, <1>9 DEF Says
<1> HIDE DEF x
<1>11. Places(x) = Places(y) /\ Load(x) = Load(y) /\ x.history = y.history
  BY <1>9 DEF Places, Table, Rest, Load
<1>12. Holds(x, run)
  BY <1>8, <1>9, <1>11, Parts, Alike DEF Holds
<1> QED BY <1>1, <1>8, <1>9, <1>10, <1>11, <1>12, Parts, LockSays

(* The page on /events.                                                     *)
LEMMA StreamKeeps ==
  ASSUME Inv, UNCHANGED <<setup, agent, run, disk, leaving, hasty>>, Follows(stream')
  PROVE  Inv'
<1>1. Valid(agent', run', disk', leaving', hasty', stream')
  BY DEF Inv, Valid
<1> QED BY <1>1, Parts, Closes

LEMMA PageKeeps ==
  ASSUME Inv, SendFirst \/ subscribeEvents \/ TakeSignal \/ SendStatus \/ PageLeaves
  PROVE  Inv'
<1>1. Follows(stream) /\ stream \in StreamType
  BY DEF Inv, Valid, Follows
<1>2. CASE SendFirst
  BY <1>2, StreamKeeps DEF SendFirst, Sent, Follows, StreamType
<1>3. CASE subscribeEvents
  <2>1. Follows(stream')
    BY <1>1, <1>3 DEF subscribeEvents, Follows, StreamType
  <2> QED BY <1>3, <2>1, StreamKeeps DEF subscribeEvents
<1>4. CASE TakeSignal
  <2>1. Follows(stream')
    BY <1>1, <1>4 DEF TakeSignal, Follows, StreamType
  <2> QED BY <1>4, <2>1, StreamKeeps DEF TakeSignal
<1>5. CASE SendStatus
  <2>1. CASE stream.known
    <3>1. Follows(stream')
      BY <1>1, <1>5, <2>1 DEF SendStatus, Follows, StreamType
    <3> QED BY <1>5, <3>1, StreamKeeps DEF SendStatus
  <2>2. CASE ~stream.known
    <3>1. Follows(stream')
      BY <1>1, <1>5, <2>2 DEF SendStatus, Sent, Follows, StreamType
    <3> QED BY <1>5, <3>1, StreamKeeps DEF SendStatus
  <2> QED BY <2>1, <2>2
<1>6. CASE PageLeaves
  BY <1>6, StreamKeeps DEF PageLeaves, Off, Follows, StreamType
<1> QED BY <1>2, <1>3, <1>4, <1>5, <1>6

LEMMA StutterKeeps ==
  ASSUME Inv, UNCHANGED agentVars
  PROVE  Inv'
<1>1. UNCHANGED <<setup, agent, run, disk, leaving, hasty, stream>>
  BY DEF agentVars
<1>2. Valid(agent', run', disk', leaving', hasty', stream')
  BY <1>1 DEF Inv, Valid
<1> QED BY <1>1, <1>2, Parts, Closes

LEMMA NextKeeps ==
  ASSUME Inv, [Next]_agentVars
  PROVE  Inv'
<1>1. CASE \E kind \in Transfers : PushTransfer(kind) \/ RefusePush(kind)
  BY <1>1, PushTransferKeeps, RefusePushKeeps
<1>2. CASE \E kind \in setup.kinds : Repeat(kind)
  BY <1>2, RepeatKeeps
<1>3. CASE PushChat \/ PushChatAgain \/ StopCurrent \/ StopChat
  BY <1>3, PushChatKeeps, PushChatAgainKeeps, StopCurrentKeeps, StopChatKeeps
<1>4. CASE ClearHistory \/ ClearDisk \/ HandleRestart \/ Reload
  BY <1>4, ClearHistoryKeeps, ClearDiskKeeps, HandleRestartKeeps, ReloadKeeps
<1>5. ASSUME NEW g \in Id, RunStep(g)
      PROVE  Inv'
  BY <1>5, ResolveKeeps, HookKeeps, RegisterStepKeeps, ShowPageKeeps, ServeKeeps, WaitKeeps, FinishKeeps DEF RunStep
<1>6. ASSUME NEW g \in Id, RunStop(g) \/ Answer(g)
      PROVE  Inv'
  BY <1>6, RunStopKeeps, AnswerKeeps
<1>7. ASSUME NEW g \in Id, NEW status \in Ending \cup {"transferring"}, Report(g, status)
      PROVE  Inv'
  BY <1>7, ReportKeeps
<1>8. CASE SendFirst \/ subscribeEvents \/ TakeSignal \/ SendStatus \/ PageLeaves
  BY <1>8, PageKeeps
<1>9. CASE UNCHANGED agentVars
  BY <1>9, StutterKeeps
<1> QED BY <1>1, <1>2, <1>3, <1>4, <1>5, <1>6, <1>7, <1>8, <1>9 DEF Next, Command

(***************************************************************************)
(* The invariant holds in every state the agents reach.                     *)
(***************************************************************************)
THEOREM AgentInvariant == Spec => []Inv
<1>1. Init => Inv
  BY InitTyped
<1>2. Inv /\ [Next]_agentVars => Inv'
  BY NextKeeps
<1> QED BY <1>1, <1>2, PTL DEF Spec

(***************************************************************************)
(* setTaskStop, setTaskPageURL: the stop button reaches the server of the   *)
(* task on show, and its page is its server's, whatever was queued,         *)
(* replaced, repeated or stopped meanwhile.                                 *)
(***************************************************************************)
THEOREM ControlsAreOwn == Spec => []OwnControls
<1>1. Inv => OwnControls
  <2> SUFFICES ASSUME Inv, ~hasty, ~leaving PROVE OwnControls
    BY DEF OwnControls
  <2>1. Own(agent, run)
    BY Parts
  <2> QED BY <2>1 DEF OwnControls, Own, Served
<1> QED BY <1>1, AgentInvariant, PTL

(***************************************************************************)
(* addHistoryLocked: what left the current place is in the history, once,   *)
(* whichever of its many ways out it took.                                  *)
(***************************************************************************)
THEOREM RecordedOnce == Spec => []OneRecord
<1>1. Inv => OneRecord
  <2> SUFFICES ASSUME Inv PROVE OneRecord
    OBVIOUS
  <2>1. \A i, j \in 1 .. Len(agent.history) : i # j => agent.history[i] # agent.history[j]
    BY Parts DEF Once
  <2>2. ASSUME ~hasty, ~Does("clear"), Len(agent.history) < MaxHistory,
               NEW g \in Begun, agent.slot # g, Recorded(g)
        PROVE  Listed(agent, g)
    <3>1. Noted(agent, run, g)
      BY <2>2, Parts DEF Rec, Begun, Recorded, IsChat
    <3> QED BY <2>2, <3>1 DEF Noted, Recorded
  <2> QED BY <2>1, <2>2 DEF OneRecord
<1> QED BY <1>1, AgentInvariant, PTL

(***************************************************************************)
(* touchLocked: no operation that changes what a page shows forgets to      *)
(* signal it.                                                               *)
(***************************************************************************)
THEOREM StreamsWake == Spec => []StreamWakes
<1>1. Inv => StreamWakes
  BY DEF Inv, Valid, Follows, StreamWakes
<1> QED BY <1>1, AgentInvariant, PTL

=============================================================================
