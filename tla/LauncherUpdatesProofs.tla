------------------------ MODULE LauncherUpdatesProofs ------------------------
(***************************************************************************)
(* Theorems about Launcher, for every number of launchers and agents, of    *)
(* ports tried and ports of other programs, and of agents that die; and     *)
(* about Updates, for every number of versions published, whatever of them  *)
(* do not stay up, and every number of crashes.                             *)
(***************************************************************************)
EXTENDS Launcher, Updates, FiniteSetTheorems, WellFoundedInduction, TLAPS

(***************************************************************************)
(* The launcher                                                            *)
(***************************************************************************)
-----------------------------------------------------------------------------
(* Type correctness *)

AgentPC == {"off", "helper", "probe", "listen", "record", "serve", "closing", "close"}
AgentType == [pc: AgentPC, port: Nat, met: SUBSET Agents]
LauncherType == [pc: {"idle", "post", "first", "start", "wait", "again", "second", "direct", "done"},
                 port: Nat, answer: {"none", "ok", "rejected", "failed"}]
RequestType == [by: SUBSET Agents, state: {"none", "sent", "taken", "refused", "cut"}]
CommandType == [pc: {"idle", "look", "note", "check", "start", "await", "done"}, port: Nat, url: Nat]

LauncherTyped ==
  /\ portFile \in Nat
  /\ agent \in [Agents -> AgentType]
  /\ launcher \in [Launchers -> LauncherType]
  /\ request \in [Posts -> RequestType]
  /\ command \in CommandType

LEMMA BegunTyped ==
  ASSUME LauncherTyped, NEW a \in Agents
  PROVE  /\ Begun(a) \in [Agents -> AgentType]
         /\ Begun(a)[a] = [pc |-> "probe", port |-> 1, met |-> {b \in Agents : Bound(b)}]
         /\ \A b \in Agents \ {a} : Begun(a)[b] = agent[b]
<1>1. [pc |-> "probe", port |-> 1, met |-> {b \in Agents : Bound(b)}] \in AgentType
  BY DEF AgentType, AgentPC
<1> QED BY <1>1 DEF Begun, LauncherTyped

LEMMA EndedTyped ==
  ASSUME LauncherTyped, NEW a \in Agents
  PROVE  /\ Ended(a) \in [Agents -> AgentType]
         /\ Ended(a)[a] = Off
         /\ \A b \in Agents \ {a} : /\ Ended(a)[b].pc = agent[b].pc
                                    /\ Ended(a)[b].port = agent[b].port
                                    /\ Ended(a)[b].met = agent[b].met \ {a}
<1>1. Off \in AgentType
  BY DEF Off, NoPort, AgentType, AgentPC
<1>2. ASSUME NEW b \in Agents
      PROVE  /\ [agent[b] EXCEPT !.met = @ \ {a}] \in AgentType
             /\ [agent[b] EXCEPT !.met = @ \ {a}].pc = agent[b].pc
             /\ [agent[b] EXCEPT !.met = @ \ {a}].port = agent[b].port
             /\ [agent[b] EXCEPT !.met = @ \ {a}].met = agent[b].met \ {a}
  BY DEF LauncherTyped, AgentType
<1> QED BY <1>1, <1>2 DEF Ended

LEMMA NewAgentTyped ==
  ASSUME LauncherTyped, NewAgent(TRUE)
  PROVE  \E a \in Agents : AgentAt(a, "off") /\ agent' = Begun(a)
BY DEF NewAgent

LEMMA LauncherInitTyped == LauncherInit => LauncherTyped
<1> SUFFICES ASSUME LauncherInit PROVE LauncherTyped
  OBVIOUS
<1>1. Off \in AgentType
  BY DEF Off, NoPort, AgentType, AgentPC
<1>2. Taken \subseteq Nat
  BY LauncherAssumption
<1> QED BY <1>1, <1>2 DEF LauncherInit, LauncherTyped, NoPort, LauncherType, RequestType, CommandType

LEMMA AgencyTyped == ASSUME LauncherTyped, NEW a \in Agents, Agency(a) PROVE LauncherTyped'
<1>0. /\ UNCHANGED <<launcher, command>>
      /\ agent \in [Agents -> AgentType] /\ portFile \in Nat /\ request \in [Posts -> RequestType]
  BY DEF Agency, Probe, Listen, ListenAnywhere, Record, Shutdown, Restart, Help, RemoveFile, Close, AgentDies,
     handleTasks, LauncherTyped
<1>1. portFile' \in Nat
  BY <1>0 DEF Agency, Probe, Listen, ListenAnywhere, Record, Shutdown, Restart, Help, RemoveFile, Close, AgentDies,
       handleTasks, AgentType, NoPort
<1>9. request' \in [Posts -> RequestType]
  <2>1. Cut(a) \in [Posts -> RequestType]
    BY <1>0 DEF Cut, RequestType
  <2>2. \A x \in Posts, s \in {"taken", "refused"} :
           [request EXCEPT ![x].state = s] \in [Posts -> RequestType]
    BY <1>0 DEF RequestType
  <2>3. request' = request \/ request' = Cut(a)
          \/ \E x \in Posts, s \in {"taken", "refused"} : request' = [request EXCEPT ![x].state = s]
    BY DEF Agency, Probe, Listen, ListenAnywhere, Record, Shutdown, Restart, Help, RemoveFile, Close, AgentDies,
       handleTasks, posted
  <2>4. CASE \E x \in Posts, s \in {"taken", "refused"} : request' = [request EXCEPT ![x].state = s]
    <3>1. PICK x \in Posts, s \in {"taken", "refused"} : request' = [request EXCEPT ![x].state = s]
      BY <2>4
    <3> QED BY <2>2, <3>1
  <2> QED BY <1>0, <2>1, <2>3, <2>4
<1>2. CASE agent' = Begun(a) \/ agent' = Ended(a)
  BY <1>0, <1>1, <1>9, <1>2, BegunTyped, EndedTyped DEF LauncherTyped
<1>3. ASSUME NEW l \in AgentPC, NEW p \in Nat, agent' = [agent EXCEPT ![a].pc = l, ![a].port = p]
      PROVE  LauncherTyped'
  <2>1. agent'[a] = [agent[a] EXCEPT !.pc = l, !.port = p] /\ agent[a] \in AgentType
    BY <1>0, <1>3
  <2>2. \A b \in Agents \ {a} : agent'[b] = agent[b]
    BY <1>0, <1>3
  <2>3. agent'[a] \in AgentType
    BY <2>1 DEF AgentType
  <2>4. agent' \in [Agents -> AgentType]
    BY <1>0, <1>3, <2>2, <2>3
  <2> QED BY <1>0, <1>1, <1>9, <2>4 DEF LauncherTyped
<1>4. CASE \E l \in AgentPC : agent' = [agent EXCEPT ![a].pc = l]
  BY <1>0, <1>1, <1>9, <1>4 DEF LauncherTyped, AgentType
<1>5. CASE Restart(a)
  BY <1>0, <1>1, <1>9, <1>5 DEF Restart, LauncherTyped, AgentType, AgentPC
<1>6. CASE Listen(a)
  <2>1. agent[a].port + 1 \in Nat
    BY <1>0 DEF AgentType
  <2>2. CASE agent' = [agent EXCEPT ![a].pc = "record"]
    BY <1>4, <2>2 DEF AgentPC
  <2>3. CASE agent' = [agent EXCEPT ![a].pc = "probe", ![a].port = @ + 1]
    <3>1. agent' = [agent EXCEPT ![a].pc = "probe", ![a].port = agent[a].port + 1]
      BY <2>3
    <3> QED BY <1>3, <2>1, <3>1 DEF AgentPC
  <2> QED BY <1>6, <2>2, <2>3 DEF Listen
<1>7. CASE ListenAnywhere(a)
  <2>1. Ports \subseteq Nat
    BY DEF Ports
  <2> QED BY <1>3, <1>7, <2>1 DEF ListenAnywhere, AgentPC
<1>8. CASE handleTasks(a)
  BY <1>0, <1>1, <1>8, <1>9 DEF handleTasks, LauncherTyped
<1> QED BY <1>2, <1>4, <1>5, <1>6, <1>7, <1>8
        DEF Agency, Probe, Record, Shutdown, Help, RemoveFile, Close, AgentDies, AgentPC

LEMMA LaunchTyped == ASSUME LauncherTyped, NEW l \in Launchers, Launch(l) PROVE LauncherTyped'
<1>0. /\ UNCHANGED <<portFile, command>>
      /\ launcher \in [Launchers -> LauncherType] /\ request \in [Posts -> RequestType]
  BY DEF Launch, Read, First, StartAgent, Wait, Second, RunDirect, Answered, Unanswered, LauncherTyped
<1>1. agent' \in [Agents -> AgentType]
  BY NewAgentTyped, BegunTyped
     DEF Launch, Read, First, StartAgent, Wait, Second, RunDirect, Answered, Unanswered, LauncherTyped
<1>2. request' \in [Posts -> RequestType]
  <2>1. ASSUME NEW r \in Rounds, postAgentTask(l, r) PROVE request' \in [Posts -> RequestType]
    <3>1. CASE UNCHANGED request
      BY <1>0, <3>1
    <3>2. ASSUME NEW a \in Agents, request' = [request EXCEPT ![<<l, r>>] = [by |-> {a}, state |-> "sent"]]
          PROVE  request' \in [Posts -> RequestType]
      <4>1. [by |-> {a}, state |-> "sent"] \in RequestType
        BY DEF RequestType
      <4> QED BY <1>0, <3>2, <4>1
    <3> QED BY <2>1, <3>1, <3>2 DEF postAgentTask, Owner
  <2>2. CASE UNCHANGED request
    BY <1>0, <2>2
  <2>3. UNCHANGED request \/ \E r \in Rounds : postAgentTask(l, r)
    BY DEF Launch, Read, First, StartAgent, Wait, Second, RunDirect, Answered, Unanswered, posted, Rounds
  <2> QED BY <2>1, <2>2, <2>3
<1>3. ASSUME NEW answer \in {"ok", "rejected", "failed"}, Done(l, answer)
      PROVE  launcher' \in [Launchers -> LauncherType]
  BY <1>0, <1>3 DEF Done, LauncherType, NoPort
<1>4. ASSUME NEW pc \in {"first", "second", "start", "wait", "direct"}, To(l, pc)
      PROVE  launcher' \in [Launchers -> LauncherType]
  BY <1>0, <1>4 DEF To, LauncherType
<1>5. Known(1) \in Nat /\ Known(launcher[l].port) \in Nat
  BY <1>0 DEF Known, LauncherTyped, LauncherType
<1>6. ASSUME Read(l) PROVE launcher' \in [Launchers -> LauncherType]
  BY <1>0, <1>5, <1>6 DEF Read, LauncherType
<1>7. ASSUME Wait(l) PROVE launcher' \in [Launchers -> LauncherType]
  <2>1. PICK pc \in {"again", "wait", "direct"} :
          launcher' = [launcher EXCEPT ![l].pc = pc, ![l].port = Known(launcher[l].port)]
    BY <1>7 DEF Wait
  <2> QED BY <1>0, <1>5, <2>1 DEF LauncherType
<1>8. ASSUME First(l) \/ Second(l) \/ StartAgent(l) \/ RunDirect(l)
      PROVE  launcher' \in [Launchers -> LauncherType]
  BY <1>3, <1>4, <1>8 DEF First, Second, StartAgent, RunDirect, postAgentTask, After
<1>9. ASSUME NEW r \in Rounds, Answered(l, r) \/ Unanswered(l, r)
      PROVE  launcher' \in [Launchers -> LauncherType]
  BY <1>3, <1>4, <1>9 DEF Answered, Unanswered, After
<1>10. launcher' \in [Launchers -> LauncherType]
  BY <1>6, <1>7, <1>8, <1>9 DEF Launch
<1> QED BY <1>0, <1>1, <1>2, <1>10 DEF LauncherTyped

LEMMA BackgroundTyped == ASSUME LauncherTyped, Background PROVE LauncherTyped'
<1>0. UNCHANGED <<launcher, request>> /\ command \in CommandType /\ portFile \in Nat
  BY DEF Background, ReadFile, Look, Note, Check, StartBackground, waitForDesktopAgentReady, posted, LauncherTyped
<1>1. agent' \in [Agents -> AgentType]
  BY NewAgentTyped, BegunTyped
     DEF Background, ReadFile, Look, Note, Check, StartBackground, waitForDesktopAgentReady, LauncherTyped
<1>2. portFile' \in Nat
  BY <1>0 DEF Background, ReadFile, Look, Note, Check, StartBackground, waitForDesktopAgentReady, CommandType
<1>3. command' \in CommandType
  <2>1. command.port + 1 \in Nat /\ Known(1) \in Nat /\ Known(command.url) \in Nat
    BY <1>0 DEF CommandType, Known
  <2>2. CASE ReadFile
    BY <1>0, <2>1, <2>2 DEF ReadFile, CommandType
  <2>3. CASE Look
    BY <1>0, <2>1, <2>3 DEF Look, CommandType
  <2>4. CASE Check \/ StartBackground
    <3>1. \A l \in {"done", "start", "await"} : [command EXCEPT !.pc = l] \in CommandType
      BY <1>0 DEF CommandType
    <3> QED BY <2>4, <3>1 DEF Check, StartBackground
  <2>5. CASE Note
    BY <1>0, <2>5 DEF Note, CommandType
  <2>6. CASE waitForDesktopAgentReady
    <3>1. PICK pc \in {"done", "await"} : command' = [command EXCEPT !.pc = pc, !.url = Known(command.url)]
      BY <2>6 DEF waitForDesktopAgentReady
    <3> QED BY <1>0, <2>1, <3>1 DEF CommandType
  <2> QED BY <2>2, <2>3, <2>4, <2>5, <2>6 DEF Background
<1> QED BY <1>0, <1>1, <1>2, <1>3 DEF LauncherTyped

LEMMA LauncherTypedStep == LauncherTyped /\ [LauncherNext]_launcherVars => LauncherTyped'
<1>1. CASE LauncherNext
  BY <1>1, AgencyTyped, LaunchTyped, BackgroundTyped DEF LauncherNext
<1>2. CASE UNCHANGED launcherVars
  BY <1>2 DEF launcherVars, LauncherTyped
<1> QED BY <1>1, <1>2

-----------------------------------------------------------------------------
(* What the user is told of a task *)

(* A request still on its way has not been taken up, one answered 202 has;  *)
(* it is the round its launcher waits in, or one it gave up.  So what was   *)
(* taken up and not given up is the round waited in, until the launcher is  *)
(* through; a round it has not come to is untouched.                        *)
Outcomes == Rounds \cup {"direct"}
State(l, r) == request[<<l, r>>].state
Took(l, o) == <<l, o>> \in started
Lost(l, r) == <<l, r>> \in lost
Owed(l) == {o \in Outcomes : Took(l, o) /\ ~Lost(l, o)}
Fresh(l, r) == State(l, r) = "none" /\ ~Lost(l, r)

TrueOf(l) ==
  Is(l, "done") => CASE launcher[l].answer = "ok" -> \E o \in Outcomes : Owed(l) = {o}
                     [] launcher[l].answer = "rejected" -> Owed(l) = {}
                     [] OTHER -> Owed(l) \subseteq {"direct"}

Told(l) ==
  /\ \A r \in Rounds : /\ State(l, r) \in {"none", "sent", "refused"} => ~Took(l, r)
                       /\ State(l, r) = "taken" => Took(l, r)
                       /\ State(l, r) = "sent" => Is(l, r) \/ Lost(l, r)
                       /\ State(l, r) = "none" => request[<<l, r>>].by = {}
                       /\ Is(l, r) => ~Lost(l, r)
  /\ Is(l, "idle") \/ Is(l, "post") => Fresh(l, "first")
  /\ ~Is(l, "second") /\ ~Is(l, "direct") /\ ~Is(l, "done") => Fresh(l, "second")
  /\ Took(l, "direct") => Is(l, "done")
  /\ ~Lost(l, "direct")
  /\ ~Is(l, "done") => \A o \in Owed(l) : Is(l, o)
  /\ TrueOf(l)

(* What a step changes of one launcher.                                     *)
Same(l) ==
  /\ launcher'[l] = launcher[l]
  /\ \A r \in Rounds : request'[<<l, r>>] = request[<<l, r>>]
  /\ \A o \in Outcomes : (<<l, o>> \in started') = (<<l, o>> \in started)
  /\ \A o \in Outcomes : (<<l, o>> \in lost') = (<<l, o>> \in lost)

LEMMA SameTold == ASSUME NEW l \in Launchers, Told(l), Same(l) PROVE Told(l)'
<1>1. \A r \in Rounds : State(l, r)' = State(l, r) /\ request'[<<l, r>>].by = request[<<l, r>>].by
  BY DEF Same, State
<1>2. \A o \in Outcomes : Took(l, o)' = Took(l, o) /\ Lost(l, o)' = Lost(l, o)
  BY DEF Same, Took, Lost
<1>3. Owed(l)' = Owed(l)
  BY <1>2 DEF Owed
<1>4. \A pc : Is(l, pc)' = Is(l, pc)
  BY DEF Same, Is
<1>5. TrueOf(l)' = TrueOf(l)
  BY <1>3, <1>4 DEF TrueOf, Same
<1>6. Fresh(l, "first")' = Fresh(l, "first") /\ Fresh(l, "second")' = Fresh(l, "second")
  BY <1>1, <1>2 DEF Fresh, Rounds, Outcomes
<1> QED BY <1>1, <1>2, <1>3, <1>4, <1>5, <1>6 DEF Told, Rounds, Outcomes

(* The handler, wherever the launcher is by now.                            *)
LEMMA HandledTold ==
  ASSUME LauncherTyped, \A l \in Launchers : Told(l), NEW a \in Agents, handleTasks(a)
  PROVE  \A l \in Launchers : Told(l)'
<1>1. PICK x \in Posts :
        /\ request[x] = [by |-> {a}, state |-> "sent"]
        /\ \/ request' = [request EXCEPT ![x].state = "taken"] /\ started' = started \cup {x}
           \/ request' = [request EXCEPT ![x].state = "refused"] /\ started' = started
  BY DEF handleTasks
<1>2. PICK l \in Launchers, r \in Rounds : x = <<l, r>>
  BY DEF Posts
<1>3. launcher' = launcher /\ lost' = lost /\ request \in [Posts -> RequestType]
  BY DEF handleTasks, LauncherTyped
<1>4. ASSUME NEW k \in Launchers, k # l PROVE Told(k)'
  <2>1. \A q \in Outcomes : <<k, q>> # x
    BY <1>2, <1>4
  <2>2. Same(k)
    BY <1>1, <1>3, <2>1 DEF Same, Posts, Outcomes
  <2> QED BY <2>2, SameTold
<1>5. Told(l)'
  <2>1. /\ \A q \in Rounds \ {r} : State(l, q)' = State(l, q) /\ request'[<<l, q>>].by = request[<<l, q>>].by
        /\ State(l, r) = "sent"
        /\ State(l, r)' \in {"taken", "refused"}
    BY <1>1, <1>2, <1>3 DEF State, Posts, RequestType
  <2>2. /\ \A o \in Outcomes \ {r} : Took(l, o)' = Took(l, o)
        /\ \A o \in Outcomes : Lost(l, o)' = Lost(l, o)
        /\ ~Took(l, r) /\ Took(l, r)' = (State(l, r)' = "taken")
    <3>1. ~Took(l, r)
      BY <2>1 DEF Told
    <3>2. Took(l, r)' = (State(l, r)' = "taken")
      <4>1. CASE request' = [request EXCEPT ![x].state = "taken"] /\ started' = started \cup {x}
        BY <1>2, <1>3, <4>1 DEF Took, State, Posts, RequestType
      <4>2. CASE request' = [request EXCEPT ![x].state = "refused"] /\ started' = started
        BY <1>2, <1>3, <3>1, <4>2 DEF Took, State, Posts, RequestType
      <4> QED BY <1>1, <4>1, <4>2
    <3> QED BY <1>1, <1>2, <1>3, <3>1, <3>2 DEF Took, Lost
  <2>3. \A pc : Is(l, pc)' = Is(l, pc)
    BY <1>3 DEF Is
  <2>4. Is(l, r) \/ Lost(l, r)
    BY <2>1 DEF Told
  <2>5. CASE Lost(l, r)
    <3>1. Owed(l)' = Owed(l)
      BY <2>2, <2>5 DEF Owed, Outcomes
    <3>2. TrueOf(l)' = TrueOf(l)
      BY <1>3, <2>3, <3>1 DEF TrueOf
    <3>3. (Fresh(l, "first") => Fresh(l, "first")') /\ (Fresh(l, "second") => Fresh(l, "second")')
      BY <2>1, <2>2, <2>5 DEF Fresh, Rounds, Outcomes
    <3> QED BY <2>1, <2>2, <2>3, <2>5, <3>1, <3>2, <3>3 DEF Told, Rounds, Outcomes
  <2>6. CASE Is(l, r) /\ ~Lost(l, r)
    <3>1. ~Is(l, "done") /\ \A o \in Owed(l)' : o = r \/ o \in Owed(l)
      BY <2>2, <2>6 DEF Owed, Is, Rounds
    <3>2. TrueOf(l)'
      BY <2>3, <3>1 DEF TrueOf
    <3>3. (Fresh(l, "first") => Fresh(l, "first")') /\ (Fresh(l, "second") => Fresh(l, "second")')
      BY <2>1, <2>2 DEF Fresh, Rounds, Outcomes
    <3> QED BY <2>1, <2>2, <2>3, <2>6, <3>1, <3>2, <3>3 DEF Told, Rounds, Outcomes
  <2> QED BY <2>4, <2>5, <2>6
<1> QED BY <1>4, <1>5

(* An agent that ends, wherever its requests are.                           *)
LEMMA CutTold ==
  ASSUME LauncherTyped, NEW l \in Launchers, Told(l), NEW a \in Agents,
         request' = Cut(a), UNCHANGED <<launcher, started, lost>>
  PROVE  Told(l)'
<1>1. ASSUME NEW r \in Rounds
      PROVE  \/ State(l, r)' = State(l, r) /\ request'[<<l, r>>].by = request[<<l, r>>].by
             \/ State(l, r)' = "cut" /\ State(l, r) # "none"
  <2>1. <<l, r>> \in Posts
    BY DEF Posts
  <2>2. request'[<<l, r>>] = IF a \in request[<<l, r>>].by THEN [by |-> {}, state |-> "cut"] ELSE request[<<l, r>>]
    BY <2>1 DEF Cut
  <2>3. a \in request[<<l, r>>].by => State(l, r) # "none"
    BY DEF Told
  <2> QED BY <2>2, <2>3 DEF State
<1>2. \A o \in Outcomes : Took(l, o)' = Took(l, o) /\ Lost(l, o)' = Lost(l, o)
  BY DEF Took, Lost
<1>3. Owed(l)' = Owed(l) /\ \A pc : Is(l, pc)' = Is(l, pc)
  BY <1>2 DEF Owed, Is
<1>4. TrueOf(l)' = TrueOf(l)
  BY <1>3 DEF TrueOf
<1>5. (Fresh(l, "first") => Fresh(l, "first")') /\ (Fresh(l, "second") => Fresh(l, "second")')
  BY <1>1, <1>2 DEF Fresh, Rounds, Outcomes
<1> QED BY <1>1, <1>2, <1>3, <1>4, <1>5 DEF Told, Rounds, Outcomes

(* A launcher that goes on from where it does not wait, to where it does    *)
(* not wait and is not through.                                             *)
LEMMA OnTold ==
  ASSUME NEW l \in Launchers, Told(l), launcher \in [Launchers -> LauncherType],
         launcher[l].pc \in {"idle", "post", "start", "wait", "again"},
         launcher'[l].pc \in {"post", "start", "wait", "again", "direct"},
         launcher'[l].pc = "post" => launcher[l].pc = "idle",
         UNCHANGED <<request, started, lost>>
  PROVE  Told(l)'
<1>1. /\ \A r \in Rounds : State(l, r)' = State(l, r) /\ request'[<<l, r>>].by = request[<<l, r>>].by
      /\ \A o \in Outcomes : Took(l, o)' = Took(l, o) /\ Lost(l, o)' = Lost(l, o)
  BY DEF State, Took, Lost
<1>2. /\ \A r \in Rounds : ~Is(l, r) /\ ~Is(l, r)'
      /\ ~Is(l, "done") /\ ~Is(l, "done")' /\ ~Is(l, "direct")
  BY DEF Is, Rounds
<1>3. Owed(l) = {}
  <2>1. ASSUME NEW o \in Owed(l) PROVE FALSE
    <3>1. Is(l, o) /\ o \in Outcomes
      BY <1>2, <2>1 DEF Told, Owed
    <3> QED BY <1>2, <3>1 DEF Outcomes
  <2> QED BY <2>1
<1>4. Owed(l)' = {}
  BY <1>1, <1>3 DEF Owed
<1>5. TrueOf(l)'
  BY <1>2 DEF TrueOf
<1>6. /\ Is(l, "idle")' \/ Is(l, "post")' => Fresh(l, "first")'
      /\ Fresh(l, "second")'
  BY <1>1 DEF Fresh, Is, Told, Rounds, Outcomes
<1> QED BY <1>1, <1>2, <1>4, <1>5, <1>6 DEF Told, Rounds, Outcomes

(* A launcher that is through.                                              *)
LEMMA DoneTold ==
  ASSUME NEW l \in Launchers, Told(l), launcher'[l].pc = "done", TrueOf(l)',
         \A r \in Rounds : State(l, r) = "sent" => Lost(l, r),
         \A r \in Rounds : <<l, r>> \in started' <=> <<l, r>> \in started,
         UNCHANGED <<request, lost>>
  PROVE  Told(l)'
<1>1. /\ \A r \in Rounds : State(l, r)' = State(l, r) /\ request'[<<l, r>>].by = request[<<l, r>>].by
      /\ \A r \in Rounds : Took(l, r)' = Took(l, r) /\ Lost(l, r)' = Lost(l, r)
      /\ Lost(l, "direct")' = Lost(l, "direct")
  BY DEF State, Took, Lost
<1>2. Is(l, "done")' /\ \A pc : pc # "done" => ~Is(l, pc)'
  BY DEF Is
<1> QED BY <1>1, <1>2 DEF Told, Rounds

LEMMA LaunchTold ==
  ASSUME LauncherTyped, NEW l \in Launchers, Told(l), Launch(l)
  PROVE  Told(l)'
<1>0. launcher \in [Launchers -> LauncherType] /\ request \in [Posts -> RequestType]
  BY DEF LauncherTyped
<1>1. ASSUME NEW pc \in {"first", "second", "start", "wait", "direct"}, To(l, pc) PROVE launcher'[l].pc = pc /\ launcher'[l].answer = launcher[l].answer
  BY <1>0, <1>1 DEF To, LauncherType
<1>2. ASSUME NEW answer \in {"ok", "rejected", "failed"}, Done(l, answer)
      PROVE  launcher'[l].pc = "done" /\ launcher'[l].answer = answer
  BY <1>0, <1>2 DEF Done
<1>3. (\A r \in Rounds : ~Is(l, r)) => \A r \in Rounds : State(l, r) = "sent" => Lost(l, r)
  BY DEF Told
<1>4. ~Is(l, "done") /\ ~Is(l, "direct") /\ (\A r \in Rounds : ~Is(l, r)) => Owed(l) = {}
  BY DEF Told, Owed, Outcomes
<1>5. CASE Read(l) \/ Wait(l) \/ StartAgent(l)
  <2>1. UNCHANGED <<request, started, lost>>
    BY <1>5 DEF Read, Wait, StartAgent, posted
  <2>2. CASE Read(l)
    <3>1. launcher[l].pc = "idle" /\ launcher'[l].pc = "post"
      BY <1>0, <2>2 DEF Read, Is, LauncherType
    <3> QED BY <1>0, <2>1, <3>1, OnTold
  <2>3. CASE Wait(l)
    <3>1. PICK pc \in {"again", "wait", "direct"} :
            launcher' = [launcher EXCEPT ![l].pc = pc, ![l].port = Known(launcher[l].port)]
      BY <2>3 DEF Wait
    <3>2. launcher[l].pc = "wait" /\ launcher'[l].pc = pc
      BY <1>0, <2>3, <3>1 DEF Wait, Is, LauncherType
    <3> QED BY <1>0, <2>1, <3>2, OnTold
  <2>4. CASE StartAgent(l)
    <3>1. launcher[l].pc = "start" /\ launcher'[l].pc \in {"wait", "direct"}
      BY <1>1, <2>4 DEF StartAgent, Is
    <3> QED BY <1>0, <2>1, <3>1, OnTold
  <2> QED BY <1>5, <2>2, <2>3, <2>4
<1>6. ASSUME NEW r \in Rounds, postAgentTask(l, r), UNCHANGED <<started, lost>>,
             r = "first" => Is(l, "post"), r = "second" => Is(l, "again")
      PROVE  Told(l)'
  <2>1. /\ \A q \in Rounds : ~Is(l, q)
        /\ ~Is(l, "done") /\ ~Is(l, "direct")
        /\ Fresh(l, r) /\ (r = "first" => Fresh(l, "second"))
        /\ After(r) \in {"start", "direct"} /\ (r = "second" => launcher[l].pc = "again")
    BY <1>6 DEF Told, Is, Rounds, After
  <2>2. CASE request' = request /\ To(l, After(r))
    <3>1. launcher'[l].pc \in {"start", "direct"} /\ launcher[l].pc \in {"post", "again"}
      BY <1>1, <1>6, <2>1, <2>2 DEF Is, Rounds
    <3> QED BY <1>0, <1>6, <2>2, <3>1, OnTold
  <2>3. CASE request' = request /\ Done(l, "rejected")
    <3>1. launcher'[l].pc = "done" /\ launcher'[l].answer = "rejected"
      BY <1>2, <2>3
    <3>2. Owed(l)' = {}
      BY <1>4, <1>6, <2>1 DEF Owed, Took, Lost
    <3>3. TrueOf(l)'
      BY <3>1, <3>2 DEF TrueOf
    <3> QED BY <1>3, <1>6, <2>1, <2>3, <3>1, <3>3, DoneTold
  <2>4. ASSUME NEW a \in Agents, To(l, r),
               request' = [request EXCEPT ![<<l, r>>] = [by |-> {a}, state |-> "sent"]]
        PROVE  Told(l)'
    <3>1. /\ State(l, r)' = "sent"
          /\ \A q \in Rounds \ {r} : State(l, q)' = State(l, q) /\ request'[<<l, q>>].by = request[<<l, q>>].by
      <4>1. \A q \in Rounds : <<l, q>> \in Posts
        BY DEF Posts
      <4> QED BY <1>0, <2>4, <4>1 DEF State
    <3>2. launcher'[l].pc = r
      BY <1>1, <2>4 DEF Rounds
    <3>3. \A o \in Outcomes : Took(l, o)' = Took(l, o) /\ Lost(l, o)' = Lost(l, o)
      BY <1>6 DEF Took, Lost
    <3>4. ~Took(l, r) /\ ~Lost(l, r) /\ Owed(l) = {}
      BY <1>4, <2>1 DEF Fresh, Told
    <3>5. Owed(l)' = {}
      BY <3>3, <3>4 DEF Owed
    <3>6. \A pc : Is(l, pc)' <=> pc = r
      BY <3>2 DEF Is
    <3>7. TrueOf(l)'
      BY <3>6 DEF TrueOf, Rounds
    <3>8. ~Is(l, "second")' => Fresh(l, "second")'
      BY <2>1, <3>1, <3>3, <3>6 DEF Fresh, Rounds, Outcomes
    <3> QED BY <3>1, <3>3, <3>4, <3>5, <3>6, <3>7, <3>8, <2>1 DEF Told, Rounds, Outcomes
  <2> QED BY <1>6, <2>2, <2>3, <2>4 DEF postAgentTask, Owner
<1>7. CASE First(l) \/ Second(l)
  BY <1>6, <1>7 DEF First, Second, Rounds
<1>8. ASSUME NEW r \in Rounds, Answered(l, r) PROVE Told(l)'
  <2>1. Is(l, r) /\ State(l, r) \in {"taken", "refused"} /\ UNCHANGED <<request, started, lost>>
    BY <1>8 DEF Answered, State, posted
  <2>2. /\ Owed(l) \subseteq {r} /\ ~Lost(l, r) /\ \A q \in Rounds : State(l, q) = "sent" => Lost(l, q)
        /\ State(l, r) = "taken" => Took(l, r)
        /\ State(l, r) = "refused" => ~Took(l, r)
    BY <2>1 DEF Told, Is, Rounds
  <2>3. Owed(l)' = Owed(l)
    BY <2>1 DEF Owed, Took, Lost
  <2>4. launcher'[l].pc = "done" /\ TrueOf(l)'
    <3>1. CASE State(l, r) = "taken" /\ Done(l, "ok")
      <4>1. r \in Outcomes /\ Owed(l)' = {r}
        BY <2>2, <2>3, <3>1 DEF Owed, Outcomes
      <4> QED BY <1>2, <3>1, <4>1 DEF TrueOf
    <3>2. CASE State(l, r) = "refused" /\ Done(l, "rejected")
      <4>1. Owed(l)' = {}
        BY <2>2, <2>3, <3>2 DEF Owed
      <4> QED BY <1>2, <3>2, <4>1 DEF TrueOf
    <3> QED BY <1>8, <3>1, <3>2 DEF Answered, State
  <2> QED BY <2>1, <2>2, <2>4, DoneTold
<1>9. ASSUME NEW r \in Rounds, Unanswered(l, r) PROVE Told(l)'
  <2>1. /\ Is(l, r) /\ To(l, After(r)) /\ lost' = lost \cup {<<l, r>>} /\ UNCHANGED <<request, started>>
    BY <1>9 DEF Unanswered
  <2>2. /\ launcher'[l].pc = After(r) /\ After(r) \in {"start", "direct"}
        /\ r = "first" => After(r) = "start"
    BY <1>1, <2>1 DEF After
  <2>3. /\ \A q \in Rounds : State(l, q)' = State(l, q) /\ request'[<<l, q>>].by = request[<<l, q>>].by
        /\ \A o \in Outcomes : Took(l, o)' = Took(l, o)
        /\ \A o \in Outcomes \ {r} : Lost(l, o)' = Lost(l, o)
        /\ Lost(l, r)'
    BY <2>1 DEF State, Took, Lost
  <2>4. /\ \A q \in Rounds : ~Is(l, q)'
        /\ ~Is(l, "done")' /\ ~Is(l, "idle")' /\ ~Is(l, "post")'
        /\ ~Is(l, "done") /\ \A o \in Outcomes \ {r} : ~Is(l, o)
    BY <2>1, <2>2 DEF Is, Rounds, Outcomes
  <2>5. Owed(l)' = {}
    BY <2>3, <2>4 DEF Owed, Told
  <2>6. TrueOf(l)'
    BY <2>4 DEF TrueOf
  <2>7. ~Is(l, "direct")' => Fresh(l, "second")'
    <3>1. r # "first" => After(r) = "direct"
      BY DEF After
    <3> QED BY <2>1, <2>2, <2>3, <3>1 DEF Told, Fresh, Is, Rounds, Outcomes
  <2> QED BY <2>3, <2>4, <2>5, <2>6, <2>7 DEF Told, Rounds, Outcomes
<1>10. CASE RunDirect(l)
  <2>1. /\ Is(l, "direct") /\ \A o \in Outcomes \ {"direct"} : ~Is(l, o)
        /\ ~Is(l, "done") /\ UNCHANGED <<request, lost>>
        /\ started' = started \/ started' = started \cup {<<l, "direct">>}
    BY <1>10 DEF RunDirect, Is, Outcomes, Rounds
  <2>2. Owed(l) = {} /\ ~Lost(l, "direct")
    BY <2>1 DEF Told, Owed
  <2>3. /\ \A r \in Rounds : Took(l, r)' = Took(l, r) /\ (<<l, r>> \in started' <=> <<l, r>> \in started)
        /\ \A o \in Outcomes : Lost(l, o)' = Lost(l, o)
    BY <2>1 DEF Took, Lost, Rounds
  <2>4. Owed(l)' \subseteq {"direct"}
    BY <2>2, <2>3 DEF Owed, Outcomes
  <2>5. launcher'[l].pc = "done" /\ TrueOf(l)'
    <3>1. CASE Done(l, "failed")
      BY <1>2, <2>4, <3>1 DEF TrueOf
    <3>2. CASE started' = started \cup {<<l, "direct">>} /\ Done(l, "ok")
      <4>1. Took(l, "direct")' /\ ~Lost(l, "direct")'
        BY <2>1, <2>2, <3>2 DEF Took, Lost
      <4>2. Owed(l)' = {"direct"} /\ "direct" \in Outcomes
        BY <2>4, <4>1 DEF Owed, Outcomes
      <4> QED BY <1>2, <3>2, <4>2 DEF TrueOf
    <3> QED BY <1>10, <3>1, <3>2 DEF RunDirect
  <2> QED BY <1>3, <2>1, <2>3, <2>5, DoneTold DEF Outcomes, Rounds
<1> QED BY <1>5, <1>7, <1>8, <1>9, <1>10 DEF Launch

LEMMA ToldStep ==
  ASSUME LauncherTyped, \A l \in Launchers : Told(l), [LauncherNext]_launcherVars
  PROVE  \A l \in Launchers : Told(l)'
<1>1. CASE UNCHANGED <<launcher, request, started, lost>>
  BY <1>1, SameTold DEF Same
<1>2. ASSUME NEW a \in Agents, Agency(a) PROVE \A l \in Launchers : Told(l)'
  <2>1. CASE handleTasks(a)
    BY <2>1, HandledTold
  <2>2. CASE Close(a) \/ AgentDies(a)
    BY <2>2, CutTold DEF Close, AgentDies
  <2>3. CASE UNCHANGED <<launcher, request, started, lost>>
    BY <1>1, <2>3
  <2> QED BY <1>2, <2>1, <2>2, <2>3
          DEF Agency, Probe, Listen, ListenAnywhere, Record, Shutdown, Restart, Help, RemoveFile, posted
<1>3. ASSUME NEW l \in Launchers, Launch(l) PROVE \A k \in Launchers : Told(k)'
  <2>1. launcher \in [Launchers -> LauncherType] /\ request \in [Posts -> RequestType]
    BY DEF LauncherTyped
  <2>2. ASSUME NEW k \in Launchers, k # l PROVE Same(k)
    <3>1. launcher'[k] = launcher[k]
      BY <1>3, <2>1, <2>2 DEF Launch, Read, First, StartAgent, Wait, Second, RunDirect, Answered, Unanswered,
         postAgentTask, Done, To
    <3>2. \A r \in Rounds : request'[<<k, r>>] = request[<<k, r>>]
      BY <1>3, <2>1, <2>2 DEF Launch, Read, First, StartAgent, Wait, Second, RunDirect, Answered, Unanswered,
         postAgentTask, posted, Posts
    <3>3. \A o \in Outcomes : /\ (<<k, o>> \in started') = (<<k, o>> \in started)
                             /\ (<<k, o>> \in lost') = (<<k, o>> \in lost)
      <4>1. started' = started \/ started' = started \cup {<<l, "direct">>}
        BY <1>3 DEF Launch, Read, First, StartAgent, Wait, Second, RunDirect, Answered, Unanswered, posted
      <4>2. lost' = lost \/ \E r \in Rounds : lost' = lost \cup {<<l, r>>}
        BY <1>3 DEF Launch, Read, First, StartAgent, Wait, Second, RunDirect, Answered, Unanswered, posted
      <4> QED BY <2>2, <4>1, <4>2
    <3> QED BY <3>1, <3>2, <3>3 DEF Same
  <2> QED BY <1>3, <2>2, SameTold, LaunchTold
<1>4. CASE Background
  BY <1>1, <1>4 DEF Background, ReadFile, Look, Note, Check, StartBackground, waitForDesktopAgentReady, posted
<1> QED BY <1>1, <1>2, <1>3, <1>4 DEF LauncherNext, launcherVars

(* Launcher!AnswerTrue, for any number of launchers and agents: of the      *)
(* requests a launcher has an answer of and of its own process, exactly one *)
(* took the task up if it ends without an error, none if it shows a         *)
(* refusal, and no agent if it shows that its own process failed.  Agents   *)
(* may end or die between taking a task up and their answer, and a request  *)
(* that was given up may still be taken up at any time.                     *)
THEOREM AnswersTrue == LauncherSpec => []AnswerTrue
<1> DEFINE Inv == LauncherTyped /\ \A l \in Launchers : Told(l)
<1>1. LauncherInit => Inv
  <2> SUFFICES ASSUME LauncherInit PROVE Inv
    OBVIOUS
  <2>1. ASSUME NEW l \in Launchers PROVE Told(l)
    <3>1. \A r \in Rounds : State(l, r) = "none" /\ request[<<l, r>>].by = {}
      BY DEF LauncherInit, State, Posts
    <3>2. \A o : ~Took(l, o) /\ ~Lost(l, o)
      BY DEF LauncherInit, Took, Lost
    <3>3. launcher[l].pc = "idle"
      BY DEF LauncherInit
    <3> QED BY <3>1, <3>2, <3>3 DEF Told, TrueOf, Fresh, Owed, Is, Rounds
  <2> QED BY <2>1, LauncherInitTyped
<1>2. Inv /\ [LauncherNext]_launcherVars => Inv'
  BY LauncherTypedStep, ToldStep
<1>3. Inv => AnswerTrue
  <2> SUFFICES ASSUME Inv, NEW l \in Launchers
               PROVE  LET owed == {o \in Rounds \cup {"direct"} : <<l, o>> \in started \ lost}
                      IN  Is(l, "done") =>
                            CASE launcher[l].answer = "ok" -> \E o \in Rounds \cup {"direct"} : owed = {o}
                              [] launcher[l].answer = "rejected" -> owed = {}
                              [] OTHER -> owed \subseteq {"direct"}
    BY DEF AnswerTrue
  <2>1. Owed(l) = {o \in Rounds \cup {"direct"} : <<l, o>> \in started \ lost} /\ TrueOf(l)
    BY DEF Owed, Outcomes, Took, Lost, Told
  <2> QED BY <2>1 DEF TrueOf, Outcomes
<1> QED BY <1>1, <1>2, <1>3, PTL DEF LauncherSpec

-----------------------------------------------------------------------------
(* A second agent *)

LEMMA FirstFreeIs ==
  /\ FirstFree \in Nat /\ FirstFree >= 1 /\ FirstFree <= Tried /\ FirstFree \notin Taken
  /\ \A q \in 1..(FirstFree - 1) : q \in Taken
<1> DEFINE Open == {p \in Nat : p \in 1..Tried /\ p \notin Taken}
           Less == {p \in Nat \X Nat : p[1] < p[2]}
<1>1. Open # {} /\ Open \subseteq Nat
  <2>1. \E p \in 1..Tried : p \notin Taken
    BY LauncherAssumption
  <2> QED BY <2>1
<1>2. PICK p \in Open : \A q \in Open : <<q, p>> \notin Less
  <2>1. IsWellFoundedOn(Less, Nat)
    BY NatLessThanWellFounded DEF OpToRel
  <2> HIDE DEF Open, Less
  <2> QED BY <1>1, <2>1, WFMin
<1>3. ASSUME NEW q \in 1..(p - 1) PROVE q \in Taken
  <2>1. q \in Nat /\ q < p /\ q \in 1..Tried
    BY LauncherAssumption
  <2>2. q \in Open => <<q, p>> \in Less
    BY <2>1
  <2> QED BY <1>2, <2>1, <2>2
<1>4. p \in Ports
  <2>1. Cardinality(Agents) \in Nat
    BY FS_CardinalityType, LauncherAssumption
  <2> QED BY <2>1, LauncherAssumption DEF Ports, Last
<1>5. FirstFree \in Ports /\ FirstFree \notin Taken /\ \A q \in 1..(FirstFree - 1) : q \in Taken
  <2>1. p \notin Taken
    OBVIOUS
  <2> QED BY <1>3, <1>4, <2>1 DEF FirstFree
<1>6. FirstFree \in Nat /\ FirstFree >= 1
  BY <1>5 DEF Ports
<1>7. FirstFree <= p
  <2>1. ASSUME p < FirstFree PROVE FALSE
    <3>1. p \in 1..(FirstFree - 1)
      BY <1>6, <2>1
    <3> QED BY <1>5, <3>1
  <2> QED BY <1>6, <2>1
<1> QED BY <1>5, <1>6, <1>7, LauncherAssumption

(* An agent that met another one on the first free port when it began still *)
(* looks for its port, and has not got past that one.                       *)
Behind(b) ==
  /\ agent[b].pc \in {"probe", "listen"}
  /\ agent[b].port <= FirstFree
  /\ agent[b].pc = "listen" => agent[b].port < FirstFree

MetInv ==
  /\ \A a, b \in Agents : a \in agent[b].met => Bound(a)
  /\ \A b \in Agents : agent[b].pc \in {"probe", "listen"} => agent[b].port >= 1
  /\ \A a, b \in Agents : a \in agent[b].met /\ agent[a].port = FirstFree => Behind(b)

LEMMA BeginMet ==
  ASSUME LauncherTyped, MetInv, NEW a \in Agents, ~Bound(a), agent' = Begun(a)
  PROVE  MetInv'
<1>1. /\ agent'[a].pc = "probe" /\ agent'[a].port = 1 /\ agent'[a].met = {b \in Agents : Bound(b)}
      /\ \A b \in Agents \ {a} : agent'[b] = agent[b]
  <2> DEFINE r == [pc |-> "probe", port |-> 1, met |-> {b \in Agents : Bound(b)}]
  <2>1. agent'[a] = r /\ \A b \in Agents \ {a} : agent'[b] = agent[b]
    BY BegunTyped
  <2>2. r.pc = "probe" /\ r.port = 1 /\ r.met = {b \in Agents : Bound(b)}
    OBVIOUS
  <2> HIDE DEF r
  <2> QED BY <2>1, <2>2
<1>2. \A b \in Agents : (Bound(b) => Bound(b)') /\ (Bound(b) => agent'[b] = agent[b])
  BY <1>1 DEF Bound
<1>3. \A b \in Agents : a \notin agent'[b].met
  BY <1>1 DEF MetInv
<1> QED BY <1>1, <1>2, <1>3, FirstFreeIs DEF MetInv, Behind

LEMMA EndMet ==
  ASSUME LauncherTyped, MetInv, NEW a \in Agents, agent' = Ended(a)
  PROVE  MetInv'
<1>1. /\ agent'[a] = Off
      /\ \A b \in Agents \ {a} : /\ agent'[b].pc = agent[b].pc /\ agent'[b].port = agent[b].port
                                 /\ agent'[b].met = agent[b].met \ {a}
  BY EndedTyped
<1>2. agent'[a].pc = "off" /\ agent'[a].met = {}
  BY <1>1 DEF Off
<1>3. \A c \in Agents \ {a} : Bound(c) => Bound(c)'
  BY <1>1 DEF Bound
<1> QED BY <1>1, <1>2, <1>3 DEF MetInv, Behind

(* An agent that goes on, keeping what it met.                              *)
LEMMA MoveMet ==
  ASSUME LauncherTyped, MetInv, NEW a \in Agents,
         \A b \in Agents \ {a} : agent'[b] = agent[b],
         agent'[a].met = agent[a].met,
         Bound(a) => Bound(a)' /\ agent'[a].port = agent[a].port,
         agent'[a].pc \in {"probe", "listen"} => agent'[a].port >= 1,
         Behind(a) => Behind(a)' \/ \A c \in agent[a].met : agent[c].port # FirstFree
  PROVE  MetInv'
<1>1. \A b \in Agents : a \in agent[b].met => Bound(a)
  BY DEF MetInv
<1>2. \A c, b \in Agents : c \in agent'[b].met => c \in agent[b].met /\ agent'[c].port = agent[c].port
  BY <1>1
<1>3. \A c, b \in Agents : c \in agent'[b].met => Bound(c)'
  BY <1>1, <1>2 DEF MetInv, Bound
<1>4. \A b \in Agents \ {a} : Behind(b) => Behind(b)'
  BY DEF Behind
<1> QED BY <1>2, <1>3, <1>4 DEF MetInv

LEMMA AgencyMet == ASSUME LauncherTyped, MetInv, NEW a \in Agents, Agency(a) PROVE MetInv'
<1>0. agent \in [Agents -> AgentType] /\ FirstFree \in Nat /\ FirstFree <= Tried /\ Tried \in Nat
  BY FirstFreeIs, LauncherAssumption DEF LauncherTyped
<1>1. CASE Help(a)
  BY <1>1, BeginMet DEF Help, AgentAt, Bound
<1>2. CASE Close(a) \/ AgentDies(a) \/ (Probe(a) /\ Answers(agent[a].port))
  BY <1>2, EndMet DEF Close, AgentDies, Probe
<1>3. CASE Probe(a) /\ ~Answers(agent[a].port)
  <2>1. /\ agent[a].pc = "probe" /\ agent'[a].pc = "listen" /\ agent'[a].port = agent[a].port
        /\ agent'[a].met = agent[a].met /\ \A b \in Agents \ {a} : agent'[b] = agent[b]
        /\ agent[a].port \in Nat
    BY <1>0, <1>3 DEF Probe, AgentAt, AgentType
  <2>2. ASSUME NEW c \in agent[a].met, agent[c].port = FirstFree PROVE agent[a].port # FirstFree
    <3>1. c \in Agents
      BY <1>0 DEF AgentType
    <3>2. Bound(c)
      BY <3>1 DEF MetInv
    <3> QED BY <1>3, <2>2, <3>1, <3>2 DEF Answers, Owner
  <2>3. Behind(a) => Behind(a)' \/ \A c \in agent[a].met : agent[c].port # FirstFree
    BY <1>0, <2>1, <2>2 DEF Behind
  <2> QED BY <2>1, <2>3, MoveMet DEF MetInv, Bound
<1>4. CASE Listen(a) /\ Free(agent[a].port)
  <2>1. /\ agent[a].pc = "listen" /\ agent'[a].pc = "record" /\ agent'[a].port = agent[a].port
        /\ agent'[a].met = agent[a].met /\ \A b \in Agents \ {a} : agent'[b] = agent[b]
        /\ agent[a].port \in Nat /\ agent[a].port >= 1
    BY <1>0, <1>4 DEF Listen, AgentAt, AgentType, MetInv
  <2>2. ~Behind(a)
    <3>1. ASSUME agent[a].port < FirstFree PROVE FALSE
      <4>1. agent[a].port \in 1..(FirstFree - 1)
        BY <1>0, <2>1, <3>1
      <4> QED BY <1>4, <4>1, FirstFreeIs DEF Free
    <3> QED BY <2>1, <3>1 DEF Behind
  <2> QED BY <2>1, <2>2, MoveMet DEF Bound
<1>5. CASE Listen(a) /\ ~Free(agent[a].port)
  <2>1. /\ agent[a].pc = "listen" /\ agent'[a].pc = "probe" /\ agent'[a].port = agent[a].port + 1
        /\ agent'[a].met = agent[a].met /\ \A b \in Agents \ {a} : agent'[b] = agent[b]
        /\ agent[a].port \in Nat
    BY <1>0, <1>5 DEF Listen, AgentAt, AgentType
  <2>2. Behind(a) => Behind(a)'
    BY <1>0, <2>1 DEF Behind
  <2>3. agent'[a].port >= 1 /\ ~Bound(a)
    BY <2>1 DEF Bound
  <2> QED BY <2>1, <2>2, <2>3, MoveMet
<1>6. CASE ListenAnywhere(a)
  <2>1. /\ agent[a].pc = "probe" /\ agent'[a].pc = "record" /\ agent[a].port > Tried
        /\ agent'[a].met = agent[a].met /\ \A b \in Agents \ {a} : agent'[b] = agent[b]
        /\ agent[a].port \in Nat
    BY <1>0, <1>6 DEF ListenAnywhere, AgentAt, AgentType
  <2>2. ~Behind(a)
    BY <1>0, <2>1 DEF Behind
  <2> QED BY <2>1, <2>2, MoveMet DEF Bound
<1>7. CASE Record(a) \/ Shutdown(a) \/ RemoveFile(a)
  <2>1. /\ Bound(a) /\ Bound(a)' /\ agent'[a].port = agent[a].port
        /\ agent'[a].met = agent[a].met /\ \A b \in Agents \ {a} : agent'[b] = agent[b]
    BY <1>0, <1>7 DEF Record, Shutdown, RemoveFile, AgentAt, AgentType, Bound
  <2> QED BY <2>1, MoveMet DEF Bound, Behind
<1>8. CASE Restart(a)
  <2>1. PICK b \in Agents : /\ agent[b].pc = "off" /\ agent[a].pc = "serve"
                            /\ agent' = [agent EXCEPT ![a].pc = "closing", ![b].pc = "helper"]
    BY <1>8 DEF Restart, AgentAt
  <2>2. /\ agent'[a].pc = "closing" /\ agent'[b].pc = "helper"
        /\ \A c \in Agents : agent'[c].port = agent[c].port /\ agent'[c].met = agent[c].met
        /\ \A c \in Agents \ {a, b} : agent'[c].pc = agent[c].pc
    BY <1>0, <2>1 DEF AgentType
  <2>3. \A c \in Agents : (Bound(c) => Bound(c)') /\ (Behind(c) => Behind(c)')
    BY <2>1, <2>2 DEF Bound, Behind
  <2>4. \A c \in Agents : agent'[c].pc \in {"probe", "listen"} => agent'[c].pc = agent[c].pc
    BY <2>1, <2>2
  <2> QED BY <2>2, <2>3, <2>4 DEF MetInv
<1>9. CASE handleTasks(a)
  BY <1>9 DEF handleTasks, MetInv, Bound, Behind
<1> QED BY <1>1, <1>2, <1>3, <1>4, <1>5, <1>6, <1>7, <1>8, <1>9 DEF Agency

LEMMA MetStep == LauncherTyped /\ MetInv /\ [LauncherNext]_launcherVars => MetInv'
<1> SUFFICES ASSUME LauncherTyped, MetInv, [LauncherNext]_launcherVars PROVE MetInv'
  OBVIOUS
<1>1. CASE UNCHANGED agent
  BY <1>1 DEF MetInv, Bound, Behind
<1>2. CASE NewAgent(TRUE)
  <2>1. PICK a \in Agents : AgentAt(a, "off") /\ agent' = Begun(a)
    BY <1>2 DEF NewAgent
  <2> QED BY <2>1, BeginMet DEF AgentAt, Bound
<1>3. CASE \E a \in Agents : Agency(a)
  BY <1>3, AgencyMet
<1>4. UNCHANGED agent \/ NewAgent(TRUE) \/ \E a \in Agents : Agency(a)
  BY DEF LauncherNext, Launch, Read, First, StartAgent, Wait, Second, RunDirect, Answered, Unanswered,
     Background, ReadFile, Look, Note, Check, StartBackground, waitForDesktopAgentReady, launcherVars
<1> QED BY <1>1, <1>2, <1>3, <1>4

(* Launcher!NoSecond: with an agent on the first port that other programs   *)
(* leave free, none of the processes started meanwhile listens too,         *)
(* whatever fails, comes late or dies.                                      *)
THEOREM NoSecondAgent == LauncherSpec => []NoSecond
<1>1. LauncherInit => MetInv
  BY DEF LauncherInit, MetInv, Off
<1>2. MetInv => NoSecond
  BY DEF MetInv, Behind, NoSecond, Bound
<1> QED BY LauncherInitTyped, LauncherTypedStep, MetStep, <1>1, <1>2, PTL DEF LauncherSpec

(***************************************************************************)
(* Updates                                                                 *)
(***************************************************************************)
USE DEF Whole, None, Torn

-----------------------------------------------------------------------------
(* Type correctness: a file is the number of a version, None or Torn, and   *)
(* what is looked for, offered or fetched is a version that was published.  *)

ProcPC == {"off", "begin", "back", "restore", "main", "applying", "young", "saved", "up"}
SwapPC == {"off", "sleep", "begin", "rename", "write", "written", "put", "spawn"}
LoadPC == {"off", "fetch", "pkg", "sig", "meta"}

ProcType == [pc: ProcPC, ver: Nat, fresh: BOOLEAN, moved: BOOLEAN]
SwapType == [pc: SwapPC, data: Nat]
LoadType == [pc: LoadPC, ver: Whole \cup {None}]

Typed ==
  /\ program \in {"gui", "agent"} /\ windows \in BOOLEAN /\ latest \in Whole
  /\ exe \in Nat /\ old \in Nat /\ new \in Nat /\ pkg \in Nat /\ sig \in Nat
  /\ lsv \in Nat /\ good \subseteq Nat /\ offer \in Whole \cup {None}
  /\ proc \in ProcType /\ swap \in SwapType /\ load \in LoadType

(* What the start of a process and the end of a failed replacement do.      *)
LEMMA SpawnedIs ==
  ASSUME NEW image \in Nat, NEW fresh \in BOOLEAN, Spawned(image, fresh)
  PROVE  /\ proc' \in ProcType /\ swap' \in SwapType /\ load' \in LoadType /\ offer' = None
         /\ proc'.pc = IF program = "gui" THEN "begin" ELSE "up"
         /\ proc'.ver = image /\ proc'.moved = FALSE
         /\ swap'.pc = "off" /\ load'.pc = "off"
BY DEF Spawned, NoSwap, NoLoad, ProcType, SwapType, LoadType, ProcPC, SwapPC, LoadPC

LEMMA GiveUpIs ==
  ASSUME Typed, NEW cause, NEW home \in BOOLEAN, GiveUp(cause, home)
  PROVE  /\ proc' \in ProcType /\ swap' \in SwapType /\ UNCHANGED offer
         /\ proc'.pc = IF proc.pc = "applying" THEN "young" ELSE proc.pc
         /\ proc'.ver = proc.ver /\ proc'.moved = (proc.moved /\ ~home)
         /\ swap'.pc = "off"
<1>1. swap' \in SwapType /\ swap'.pc = "off" /\ UNCHANGED offer
  BY DEF GiveUp, NoSwap, SwapType, SwapPC
<1>2. proc \in ProcType
  BY DEF Typed
<1>3. proc' = [proc EXCEPT !.pc = IF @ = "applying" THEN "young" ELSE @, !.moved = @ /\ ~home]
  BY DEF GiveUp
<1>4. proc'.pc = (IF proc.pc = "applying" THEN "young" ELSE proc.pc) /\ proc'.ver = proc.ver
      /\ proc'.moved = (proc.moved /\ ~home) /\ proc' \in ProcType
  BY <1>2, <1>3 DEF ProcType, ProcPC
<1> QED BY <1>1, <1>4

LEMMA InitTyped == UpdatesInit => Typed
BY UpdatesAssumption DEF UpdatesInit, Typed, Stopped, NoSwap, NoLoad, ProcType, SwapType, LoadType, ProcPC, SwapPC, LoadPC

LEMMA TypedStep == Typed /\ [UpdatesNext]_vars => Typed'
<1> SUFFICES ASSUME Typed, [UpdatesNext]_vars PROVE Typed'
  OBVIOUS
<1>0. /\ exe \in Nat /\ old \in Nat /\ new \in Nat /\ pkg \in Nat /\ sig \in Nat /\ latest \in Nat
      /\ proc \in ProcType /\ swap \in SwapType /\ load \in LoadType
      /\ swap.data \in Nat
  BY UpdatesAssumption DEF Typed, SwapType
<1>a. ASSUME UNCHANGED <<world, lsv, good>>, exe' \in Nat, old' \in Nat, new' \in Nat, pkg' \in Nat, sig' \in Nat,
             offer' \in {offer, None}, proc' \in ProcType, swap' \in SwapType, load' \in LoadType
      PROVE  Typed'
  BY <1>a DEF Typed, world
<1>1. CASE Restore
  <2>1. exe' \in {exe, old} /\ old' \in {None, old} /\ UNCHANGED <<world, new, cache, lsv, good>>
    BY <1>1 DEF Restore
  <2>2. Spawned(old, FALSE) \/ (Go("main") /\ UNCHANGED <<swap, load, page>>)
    BY <1>1 DEF Restore
  <2>3. Go("main") => proc' \in ProcType
    BY <1>0 DEF Go, ProcType, ProcPC
  <2>4. Spawned(old, FALSE) => proc' \in ProcType /\ swap' \in SwapType /\ load' \in LoadType /\ offer' = None
    BY <1>0, SpawnedIs
  <2>5. exe' \in Nat /\ old' \in Nat /\ new' \in Nat /\ pkg' \in Nat /\ sig' \in Nat
    BY <1>0, <2>1 DEF cache
  <2>6. offer' \in {offer, None} /\ proc' \in ProcType /\ swap' \in SwapType /\ load' \in LoadType
    BY <1>0, <2>2, <2>3, <2>4 DEF page
  <2> QED BY <1>a, <2>1, <2>5, <2>6
<1>2. CASE RenameExe
  <2>1. exe' \in {exe, None} /\ old' \in {exe, old} /\ UNCHANGED <<world, new, cache, lsv, good, load>>
    BY <1>2 DEF RenameExe
  <2>2. GiveUp("other", FALSE) \/ (Swap("write") /\ proc' = [proc EXCEPT !.moved = TRUE] /\ UNCHANGED page)
    BY <1>2 DEF RenameExe
  <2>3. Swap("write") /\ proc' = [proc EXCEPT !.moved = TRUE] => swap' \in SwapType /\ proc' \in ProcType
    BY <1>0 DEF Swap, SwapType, SwapPC, ProcType
  <2>4. GiveUp("other", FALSE) =>
          proc' \in ProcType /\ swap' \in SwapType /\ UNCHANGED offer
    BY GiveUpIs
  <2>5. exe' \in Nat /\ old' \in Nat /\ new' \in Nat /\ pkg' \in Nat /\ sig' \in Nat /\ load' \in LoadType
    BY <1>0, <2>1 DEF cache
  <2>6. offer' \in {offer, None} /\ proc' \in ProcType /\ swap' \in SwapType
    BY <1>0, <2>2, <2>3, <2>4 DEF page
  <2> QED BY <1>a, <2>1, <2>5, <2>6
<1>3. CASE Written
  <2>1. /\ exe' \in {exe, swap.data, old} /\ old' \in {None, old} /\ new' \in {new, swap.data}
        /\ UNCHANGED <<world, cache, lsv, good, load>>
    BY <1>3 DEF Written, files
  <2>2. GiveUp("other", TRUE) \/ GiveUp("other", FALSE) \/ (Swap("put") /\ UNCHANGED <<proc, page>>)
    BY <1>3 DEF Written
  <2>3. Swap("put") => swap' \in SwapType
    BY <1>0 DEF Swap, SwapType, SwapPC
  <2>4. GiveUp("other", TRUE) \/ GiveUp("other", FALSE) =>
          proc' \in ProcType /\ swap' \in SwapType /\ UNCHANGED offer
    BY GiveUpIs
  <2>5. exe' \in Nat /\ old' \in Nat /\ new' \in Nat /\ pkg' \in Nat /\ sig' \in Nat /\ load' \in LoadType
    BY <1>0, <2>1 DEF cache
  <2>6. offer' \in {offer, None} /\ proc' \in ProcType /\ swap' \in SwapType
    BY <1>0, <2>2, <2>3, <2>4 DEF page
  <2> QED BY <1>a, <2>1, <2>5, <2>6
<1>4. CASE Put
  <2>1. /\ exe' \in {exe, new} /\ new' \in {None, new} /\ (NoCache \/ UNCHANGED cache)
        /\ UNCHANGED <<world, old, lsv, good, load>>
    BY <1>4 DEF Put
  <2>2. GiveUp("other", TRUE) \/ (Swap("spawn") /\ UNCHANGED <<proc, page>>)
    BY <1>4 DEF Put
  <2>3. Swap("spawn") => swap' \in SwapType
    BY <1>0 DEF Swap, SwapType, SwapPC
  <2>4. pkg' \in Nat /\ sig' \in Nat
    BY <1>0, <2>1 DEF NoCache, cache
  <2>5. GiveUp("other", TRUE) => proc' \in ProcType /\ swap' \in SwapType /\ UNCHANGED offer
    BY GiveUpIs
  <2>6. exe' \in Nat /\ old' \in Nat /\ new' \in Nat /\ pkg' \in Nat /\ sig' \in Nat /\ load' \in LoadType
    BY <1>0, <2>1, <2>4
  <2>7. offer' \in {offer, None} /\ proc' \in ProcType /\ swap' \in SwapType
    BY <1>0, <2>2, <2>3, <2>5 DEF page
  <2> QED BY <1>a, <2>1, <2>6, <2>7
<1>5. CASE ReadPackage
  <2>1. UNCHANGED <<world, files, cache, lsv, load, good>>
    BY <1>5 DEF ReadPackage
  <2>2. GiveUp("missing", FALSE) \/ (swap' = [pc |-> "begin", data |-> pkg] /\ UNCHANGED <<proc, page>>)
    BY <1>5 DEF ReadPackage
  <2>3. [pc |-> "begin", data |-> pkg] \in SwapType
    BY <1>0 DEF SwapType, SwapPC
  <2>4. GiveUp("missing", FALSE) =>
          proc' \in ProcType /\ swap' \in SwapType /\ UNCHANGED offer
    BY GiveUpIs
  <2>5. exe' \in Nat /\ old' \in Nat /\ new' \in Nat /\ pkg' \in Nat /\ sig' \in Nat /\ load' \in LoadType
    BY <1>0, <2>1 DEF files, cache
  <2>6. offer' \in {offer, None} /\ proc' \in ProcType /\ swap' \in SwapType
    BY <1>0, <2>2, <2>3, <2>4 DEF page
  <2> QED BY <1>a, <2>1, <2>5, <2>6
<1> USE UpdatesAssumption DEF files, cache, page, world, Typed, Go, At, Swap, NoCache, NoSwap, NoLoad,
        Down, Stopped, Download, NotLoaded, ProcType, SwapType, LoadType, ProcPC, SwapPC, LoadPC
<1>6. CASE Start
  BY <1>6, SpawnedIs DEF Start
<1>7. CASE Begin
  BY <1>7 DEF Begin
<1>8. CASE SetAside
  BY <1>8 DEF SetAside
<1>9. CASE Main
  BY <1>9 DEF Main
<1>10. CASE SaveVersion
  BY <1>10 DEF SaveVersion
<1>11. CASE CleanLingering
  BY <1>11 DEF CleanLingering
<1>12. CASE Die
  BY <1>12 DEF Die
<1>13. CASE RemoveOld
  BY <1>13 DEF RemoveOld
<1>14. CASE WriteNew
  BY <1>14 DEF WriteNew
<1>15. CASE WriteExe
  BY <1>15 DEF WriteExe
<1>16. CASE Spawn
  BY <1>16, SpawnedIs, GiveUpIs DEF Spawn
<1>17. CASE Fetch
  BY <1>17 DEF Fetch
<1>18. CASE SavePackage
  BY <1>18 DEF SavePackage
<1>19. CASE SaveSignature
  BY <1>19 DEF SaveSignature
<1>20. CASE SaveMeta
  BY <1>20 DEF SaveMeta
<1>21. CASE CheckPending
  BY <1>21 DEF CheckPending
<1>22. CASE CheckForUpdates
  BY <1>22 DEF CheckForUpdates
<1>23. CASE DownloadNow
  BY <1>23 DEF DownloadNow
<1>24. CASE SetMode
  BY <1>24 DEF SetMode
<1>25. CASE InstallUpdate
  BY <1>25 DEF InstallUpdate
<1>26. CASE AgentDownload
  BY <1>26 DEF AgentDownload
<1>27. CASE AgentInstall
  BY <1>27 DEF AgentInstall
<1>28. CASE Quit
  BY <1>28 DEF Quit
<1>29. CASE Crash
  BY <1>29 DEF Crash
<1>30. CASE Publish
  BY <1>30 DEF Publish
<1>31. CASE UNCHANGED vars
  BY <1>31 DEF vars
<1> QED BY <1>1, <1>2, <1>3, <1>4, <1>5, <1>6, <1>7, <1>8, <1>9, <1>10, <1>11, <1>12, <1>13, <1>14, <1>15, <1>16, <1>17, <1>18, <1>19, <1>20, <1>21, <1>22, <1>23, <1>24, <1>25, <1>26, <1>27, <1>28, <1>29, <1>30, <1>31 DEF UpdatesNext, StartUp, Replace, Loading, Requests

(* Updates!NoCache may leave the package that is being written.             *)
LEMMA NoCacheIs == NoCache => pkg' \in {pkg, None} /\ sig' = None
BY DEF NoCache

(* A machine and a program stay what they are.                              *)
LEMMA SameProgram == [UpdatesNext]_vars => UNCHANGED <<program, windows>>
BY DEF UpdatesNext, StartUp, Replace, Loading, Requests, Start, Begin, SetAside, Restore, Main, SaveVersion,
   CleanLingering, Die, RemoveOld, RenameExe, WriteNew, WriteExe, Written, Put, Spawn, Fetch, SavePackage,
   SaveSignature, SaveMeta, CheckPending, CheckForUpdates, DownloadNow, SetMode, InstallUpdate, ReadPackage,
   AgentDownload, AgentInstall, Quit, Crash, Publish, world, vars

-----------------------------------------------------------------------------
(* The package that is installed *)

Swapping == swap.pc \notin {"off", "sleep"}

(* What is put in the place of the executable was read as a whole: the      *)
(* installation that the page allowed waits while no package is written.    *)
SafeInv == program = "gui" =>
  /\ Swapping => swap.data \in Whole
  /\ swap.pc = "sleep" => pkg \in Whole \cup {None} /\ load.pc # "pkg"
  /\ load.pc = "pkg" => pkg \notin Whole
  /\ load.pc # "off" => load.ver \in Whole

LEMMA SafeStep ==
  ASSUME "hurry" \notin Faults, Typed, SafeInv, [UpdatesNext]_vars
  PROVE  SafeInv'
<1> SUFFICES ASSUME program = "gui", program' = "gui" PROVE SafeInv'
  BY SameProgram DEF SafeInv
<1>0. /\ swap \in SwapType /\ load \in LoadType /\ pkg \in Nat
      /\ offer \in Whole \cup {None} /\ latest \in Whole /\ MaxVersion \in Nat
  BY UpdatesAssumption DEF Typed
<1> USE DEF SafeInv, Swapping
<1>a. ASSUME UNCHANGED <<swap, load>>, pkg' \in {pkg, None} PROVE SafeInv'
  BY <1>a
<1>b. ASSUME swap'.pc = "off", UNCHANGED load, pkg' \in {pkg, None} PROVE SafeInv'
  BY <1>b
<1>c. ASSUME swap'.pc = "off", load'.pc = "off" PROVE SafeInv'
  BY <1>c
<1>d. ASSUME swap'.data = swap.data, Swapping, swap'.pc # "sleep", UNCHANGED load, pkg' \in {pkg, None} PROVE SafeInv'
  BY <1>d
<1>1. CASE Begin \/ SetAside \/ SaveVersion \/ CleanLingering \/ Publish \/ SetMode \/ CheckPending
  BY <1>1, <1>a, NoCacheIs DEF Begin, SetAside, SaveVersion, CleanLingering, Publish, SetMode, CheckPending, cache
<1>2. CASE Main
  BY <1>0, <1>2, NoCacheIs DEF Main, Verified, cache, SwapType
<1>3. CASE Start \/ Die \/ Quit \/ Crash
  BY <1>3, <1>c DEF Start, Die, Quit, Crash, Down, Spawned, NoSwap, NoLoad
<1>4. CASE Restore
  BY <1>4, <1>a, <1>c DEF Restore, Spawned, NoSwap, NoLoad, cache
<1>5. CASE RemoveOld \/ WriteNew \/ WriteExe
  BY <1>0, <1>5, <1>d DEF RemoveOld, WriteNew, WriteExe, Swap, SwapType, cache
<1>6. CASE RenameExe
  BY <1>0, <1>6, <1>b, <1>d DEF RenameExe, Swap, GiveUp, NoSwap, SwapType, cache
<1>7. CASE Written
  BY <1>0, <1>7, <1>b, <1>d DEF Written, Swap, GiveUp, NoSwap, SwapType, cache
<1>8. CASE Put
  BY <1>0, <1>8, <1>b, <1>d, NoCacheIs DEF Put, Swap, GiveUp, NoSwap, SwapType, cache
<1>9. CASE Spawn
  BY <1>9, <1>b, <1>c DEF Spawn, Spawned, GiveUp, NoSwap, NoLoad, cache
<1>10. CASE ReadPackage
  BY <1>0, <1>10, <1>b DEF ReadPackage, GiveUp, NoSwap, SwapType, cache
<1>11. CASE Fetch \/ SavePackage
  BY <1>0, <1>11 DEF Fetch, SavePackage, NotLoaded, NoLoad, Fails, LoadType
<1>12. CASE SaveSignature \/ SaveMeta
  BY <1>0, <1>12 DEF SaveSignature, SaveMeta, NotLoaded, NoLoad, LoadType
<1>13. CASE CheckForUpdates \/ DownloadNow
  BY <1>0, <1>13 DEF CheckForUpdates, DownloadNow, Download, cache, NoLoad
<1>14. CASE InstallUpdate
  BY <1>0, <1>14, <1>a DEF InstallUpdate, Verified, Swap, SwapType, cache
<1>15. CASE AgentDownload \/ AgentInstall
  BY <1>15 DEF AgentDownload, AgentInstall
<1>16. CASE UNCHANGED vars
  BY <1>16, <1>a DEF vars, cache
<1> QED BY <1>1, <1>2, <1>3, <1>4, <1>5, <1>6, <1>7, <1>8, <1>9, <1>10, <1>11, <1>12, <1>13, <1>14, <1>15, <1>16
        DEF UpdatesNext, StartUp, Replace, Loading, Requests

(* Updates!OnlyVerified, when no download of the page reaches the disk in   *)
(* the half second before the installation that was allowed: the executable *)
(* is replaced by a package that was read as a whole.                       *)
THEOREM OnlyVerifiedInstalled ==
  ASSUME "hurry" \notin Faults
  PROVE  UpdatesSpec => []OnlyVerified
<1>1. UpdatesInit => SafeInv
  BY DEF UpdatesInit, SafeInv, Swapping, NoSwap, NoLoad
<1>2. Typed /\ SafeInv /\ [UpdatesNext]_vars => SafeInv'
  BY SafeStep
<1>3. SafeInv => OnlyVerified
  BY DEF SafeInv, Swapping, OnlyVerified
<1> QED BY InitTyped, TypedStep, <1>1, <1>2, <1>3, PTL DEF UpdatesSpec

-----------------------------------------------------------------------------
(* The executable *)

(* The executable is missing or written in part only while its predecessor  *)
(* is beside it: while a replacement is under way on Windows, between the   *)
(* two renames of a rollback, and after a stop in the midst of either.      *)
BootInv == program = "gui" =>
  /\ old \in Whole \cup {None} /\ (~windows => old = None)
  /\ \/ exe \in Whole
     \/ /\ windows /\ old \in Whole
        /\ proc.pc \in {"off", "restore"} \/ swap.pc \in {"write", "written"}
  /\ swap.pc \in {"rename", "write"} => windows
  /\ ~windows /\ swap.pc = "put" => new = swap.data
  /\ windows /\ swap.pc \in {"write", "written"} => old \in Whole /\ proc.moved
  /\ proc.pc \in {"back", "restore"} => windows /\ old \in Whole
  /\ proc.pc \in {"off", "begin", "back", "restore", "main"} => swap.pc = "off"

LEMMA BootStep ==
  ASSUME {"hurry", "locked"} \cap Faults = {}, Typed, SafeInv, BootInv, [UpdatesNext]_vars
  PROVE  BootInv'
<1> SUFFICES ASSUME program = "gui", program' = "gui", windows' = windows PROVE BootInv'
  BY SameProgram DEF BootInv
<1>0. /\ swap \in SwapType /\ proc \in ProcType /\ MaxVersion \in Nat
      /\ ~Fails("locked") /\ (Swapping => swap.data \in Whole)
  BY UpdatesAssumption DEF Typed, Fails, SafeInv
<1> USE DEF BootInv
<1>a. ASSUME UNCHANGED <<exe, old, new, proc, swap>> PROVE BootInv'
  BY <1>a
<1>b. ASSUME UNCHANGED files, proc'.pc = "off", swap'.pc = "off" PROVE BootInv'
  BY <1>b DEF files
<1>c. ASSUME exe' \in Whole, old' \in Whole \cup {None}, ~windows => old' = None,
             proc'.pc \notin {"back", "restore"}, swap'.pc = "off"
      PROVE  BootInv'
  BY <1>c
<1>d. ASSUME UNCHANGED files, swap.pc \notin {"off", "write", "written"}, swap'.pc = "off",
             proc'.pc \in {proc.pc, "begin", "young"}
      PROVE  BootInv'
  BY <1>d DEF files
<1>e. ASSUME UNCHANGED files, UNCHANGED proc, proc.pc \in {"applying", "young", "saved", "up"},
             swap.pc \in {"off", "sleep"}, swap'.pc \in {"sleep", "begin"}
      PROVE  BootInv'
  BY <1>e DEF files
<1>f. ASSUME NEW cause, NEW home \in BOOLEAN, GiveUp(cause, home)
      PROVE  swap'.pc = "off" /\ proc'.pc \in {proc.pc, "young"}
  BY <1>f, GiveUpIs
<1>1. CASE Publish \/ CheckPending \/ CheckForUpdates \/ DownloadNow \/ SetMode \/ Loading
  BY <1>1, <1>a DEF Publish, CheckPending, CheckForUpdates, DownloadNow, SetMode, Loading, Fetch, SavePackage,
     SaveSignature, SaveMeta, files
<1>2. CASE Start
  BY <1>0, <1>2, <1>c DEF Start, Spawned, NoSwap, files
<1>3. CASE Begin
  BY <1>0, <1>3 DEF Begin, Disaster, At, Go, ProcType, files
<1>4. CASE SetAside
  BY <1>0, <1>4 DEF SetAside, At, Go, ProcType
<1>5. CASE Restore
  BY <1>0, <1>5, <1>c DEF Restore, At, Go, Spawned, NoSwap, ProcType
<1>6. CASE Main
  BY <1>0, <1>6 DEF Main, At, Go, ProcType, files
<1>7. CASE RemoveOld
  BY <1>0, <1>7 DEF RemoveOld, Swap, SwapType
<1>8. CASE RenameExe
  <2>1. CASE swap'.pc = "off"
    BY <1>0, <1>8, <2>1, <1>c DEF RenameExe, Swap, SwapType, GiveUp, ProcType
  <2>2. CASE exe # None /\ ~proc.moved /\ old' = exe /\ exe' = None /\ Swap("write") /\ proc' = [proc EXCEPT !.moved = TRUE]
    BY <1>0, <1>8, <2>2 DEF RenameExe, Swap, SwapType, ProcType
  <2> QED BY <1>8, <2>1, <2>2 DEF RenameExe, GiveUp, NoSwap
<1>9. CASE WriteNew
  BY <1>0, <1>9 DEF WriteNew, Swap, SwapType
<1>10. CASE WriteExe
  BY <1>0, <1>10 DEF WriteExe, Swap, SwapType
<1>11. CASE Written
  <2>0. swap.data \in Whole /\ swap.pc = "written" /\ (windows => old \in Whole /\ proc.moved)
    BY <1>0, <1>11 DEF Written, Swapping
  <2>1. CASE Swap("put") /\ UNCHANGED <<old, proc>> /\ IF windows THEN exe' = swap.data /\ UNCHANGED new
                                                              ELSE new' = swap.data /\ UNCHANGED exe
    <3>1. swap'.pc = "put" /\ swap'.data = swap.data
      BY <1>0, <2>1 DEF Swap, SwapType
    <3>2. CASE windows
      BY <2>0, <2>1, <3>1, <3>2
    <3>3. CASE ~windows
      BY <2>0, <2>1, <3>1, <3>3
    <3> QED BY <3>2, <3>3
  <2>2. CASE GiveUp("other", TRUE) /\ UNCHANGED new /\ IF windows THEN exe' = old /\ old' = None
                                                               ELSE UNCHANGED <<exe, old>>
    <3>1. swap'.pc = "off" /\ proc'.pc \in {proc.pc, "young"} /\ proc.pc \notin {"off", "back", "restore"}
      BY <1>f, <2>0, <2>2
    <3>2. CASE windows
      BY <1>c, <2>0, <2>2, <3>1, <3>2
    <3>3. CASE ~windows
      BY <1>c, <2>0, <2>2, <3>1, <3>3
    <3> QED BY <3>2, <3>3
  <2> QED BY <1>0, <1>11, <2>1, <2>2 DEF Written, page
<1>12. CASE Put
  BY <1>0, <1>12 DEF Put, Swap, SwapType, Swapping, GiveUp, NoSwap, ProcType
<1>13. CASE Spawn
  <2>1. swap.pc = "spawn" /\ UNCHANGED files /\ (Spawned(exe, TRUE) \/ GiveUp("other", FALSE))
    BY <1>13 DEF Spawn
  <2>2. Spawned(exe, TRUE) => swap'.pc = "off" /\ proc'.pc = "begin"
    BY DEF Spawned, NoSwap
  <2>3. GiveUp("other", FALSE) => swap'.pc = "off" /\ proc'.pc \in {proc.pc, "young"}
    BY <1>f
  <2> QED BY <1>d, <2>1, <2>2, <2>3
<1>14. CASE SaveVersion
  BY <1>0, <1>14 DEF SaveVersion, At, Go, ProcType, files
<1>15. CASE CleanLingering
  BY <1>0, <1>15 DEF CleanLingering, At, Go, ProcType
<1>16. CASE Die \/ Quit \/ Crash
  BY <1>16, <1>b DEF Die, Quit, Crash, Down, Stopped, NoSwap
<1>17. CASE InstallUpdate
  <2>1. UNCHANGED <<exe, old, new, proc>> /\ proc.pc \in {"young", "saved", "up"}
        /\ swap.pc = "off" /\ (UNCHANGED swap \/ Swap("sleep"))
    BY <1>17 DEF InstallUpdate, OnPage, Running, files, NoSwap
  <2>2. Swap("sleep") => swap'.pc = "sleep"
    BY <1>0 DEF Swap, SwapType
  <2> QED BY <1>a, <1>e, <2>1, <2>2 DEF files
<1>18. CASE ReadPackage
  <2>1. UNCHANGED files /\ swap.pc = "sleep" /\ proc.pc \in {"applying", "young", "saved", "up"}
        /\ (GiveUp("missing", FALSE) \/ (UNCHANGED proc /\ swap' = [pc |-> "begin", data |-> pkg]))
    BY <1>0, <1>18 DEF ReadPackage, ProcType, ProcPC
  <2>2. GiveUp("missing", FALSE) => swap'.pc = "off" /\ proc'.pc \in {proc.pc, "young"}
    BY <1>f
  <2>3. swap' = [pc |-> "begin", data |-> pkg] => swap'.pc = "begin"
    OBVIOUS
  <2> QED BY <1>d, <1>e, <2>1, <2>2, <2>3
<1>19. CASE AgentDownload \/ AgentInstall
  BY <1>19 DEF AgentDownload, AgentInstall
<1>20. CASE UNCHANGED vars
  BY <1>20, <1>a DEF vars, files
<1> QED BY <1>1, <1>2, <1>3, <1>4, <1>5, <1>6, <1>7, <1>8, <1>9, <1>10, <1>11, <1>12, <1>13, <1>14, <1>15, <1>16,
           <1>17, <1>18, <1>19, <1>20
        DEF UpdatesNext, StartUp, Replace, Requests

(* Updates!Bootable, when in addition the system refuses no rename and no   *)
(* removal: wherever the program stops, its executable is whole, or on      *)
(* Windows the previous one, beside it.                                     *)
THEOREM StaysBootable ==
  ASSUME {"hurry", "locked"} \cap Faults = {}
  PROVE  UpdatesSpec => []Bootable
<1>1. UpdatesInit => SafeInv /\ BootInv
  BY UpdatesAssumption DEF UpdatesInit, SafeInv, BootInv, Swapping, NoSwap, NoLoad, Stopped
<1>2. Typed /\ SafeInv /\ [UpdatesNext]_vars => SafeInv'
  BY SafeStep
<1>3. Typed /\ SafeInv /\ BootInv /\ [UpdatesNext]_vars => BootInv'
  BY BootStep
<1>4. BootInv => Bootable
  BY DEF BootInv, Bootable
<1> QED BY InitTyped, TypedStep, <1>1, <1>2, <1>3, <1>4, PTL DEF UpdatesSpec

-----------------------------------------------------------------------------
(* The rollback *)

NotAbove(v) == \A g \in good : g <= v

Moved == {"write", "written", "put", "spawn"}

(* On Windows, where alone there is a version to go back to: the versions   *)
(* noted as good are never newer than the one that runs, nor than the       *)
(* executable; exe.old, which is never newer either, is not older than      *)
(* they are, unless the executable is the one noted last.  A program whose  *)
(* own file was renamed is being replaced, or left a partial executable     *)
(* that nothing starts.                                                     *)
RollInv == program = "gui" /\ windows =>
  /\ proc.pc \in {"off", "begin", "back", "restore", "main"} => swap.pc = "off" /\ ~proc.moved
  /\ good \subseteq Whole /\ old \in Whole \cup {None}
  /\ lsv # None => lsv \in good /\ NotAbove(lsv)
  /\ ~At("off") => proc.ver \in Whole /\ NotAbove(proc.ver)
  /\ exe \in Whole => NotAbove(exe)
  /\ proc.moved => old = proc.ver /\ (swap.pc \in Moved \/ exe = Torn)
  /\ swap.pc \in Moved => proc.moved
  /\ swap.pc = "written" => exe = Torn
  /\ ~At("off") /\ ~proc.moved => exe \in {proc.ver, None}
  /\ proc.pc \in {"begin", "back"} => exe = proc.ver
  /\ old \in Whole /\ exe \in Whole => old <= exe /\ (NotAbove(old) \/ lsv = exe)
  /\ At("back") => proc.ver \notin good
  /\ proc.pc \in {"back", "restore"} => old \in Whole /\ NotAbove(old) /\ old <= proc.ver

(* Whatever is pending, offered, fetched or about to be put in place is not *)
(* older than what runs, and each is not older than what was there before.  *)
Placing == Swapping /\ swap.data \in Whole
OrderInv == program = "gui" /\ windows =>
  /\ exe \in Whole => exe <= latest
  /\ proc.ver <= latest /\ offer <= latest
  /\ pkg \in Whole => /\ pkg <= latest /\ proc.ver <= pkg
                      /\ exe \in Whole => exe <= pkg
                      /\ Placing => swap.data <= pkg
                      /\ load.pc # "off" => pkg <= load.ver
                      /\ offer # None => pkg <= offer
  /\ Placing => proc.ver <= swap.data /\ swap.data <= latest /\ (offer # None => swap.data <= offer)
  /\ load.pc # "off" => /\ load.ver \in Whole /\ proc.ver <= load.ver /\ load.ver <= latest
                        /\ exe \in Whole => exe <= load.ver
                        /\ Placing => swap.data <= load.ver
                        /\ offer # None => load.ver <= offer
  /\ offer # None => proc.ver <= offer /\ (exe \in Whole => exe <= offer)

(* Only the desktop program goes through the steps of a start, and only on  *)
(* Windows is there an exe.old.                                             *)
AgentInv == program = "agent" => proc.pc \in {"off", "up"}
PosixInv == ~windows => old = None /\ swap.pc \notin {"rename", "write"} /\ proc.pc \notin {"back", "restore"}

Inv == Typed /\ AgentInv /\ PosixInv /\ RollInv /\ OrderInv

LEMMA AgentStep == Typed /\ AgentInv /\ [UpdatesNext]_vars => AgentInv'
<1> SUFFICES ASSUME Typed, AgentInv, [UpdatesNext]_vars, program = "agent", program' = "agent"
             PROVE  proc'.pc \in {"off", "up"}
  BY SameProgram DEF AgentInv
<1>0. proc \in ProcType /\ proc.pc \in {"off", "up"}
  BY DEF Typed, AgentInv
<1>1. ASSUME NEW image, NEW fresh, Spawned(image, fresh) PROVE proc'.pc = "up"
  BY <1>1 DEF Spawned
<1>2. ASSUME NEW cause, NEW home \in BOOLEAN, GiveUp(cause, home) PROVE proc'.pc = proc.pc
  BY <1>0, <1>2, GiveUpIs
<1>3. CASE Start \/ Spawn
  BY <1>0, <1>1, <1>2, <1>3 DEF Start, Spawn
<1>4. CASE Begin \/ SetAside \/ Restore \/ Main \/ SaveVersion \/ CleanLingering
  BY <1>0, <1>4 DEF Begin, SetAside, Restore, Main, SaveVersion, CleanLingering, At
<1>5. CASE Die \/ Quit \/ Crash
  BY <1>5 DEF Die, Quit, Crash, Down, Stopped
<1>6. CASE RenameExe
  BY <1>0, <1>2, <1>6 DEF RenameExe, ProcType
<1>7. CASE RemoveOld \/ WriteNew \/ WriteExe \/ Written \/ Put
  BY <1>0, <1>2, <1>7 DEF RemoveOld, WriteNew, WriteExe, Written, Put
<1>8. CASE Loading \/ Publish
  BY <1>0, <1>8 DEF Loading, Fetch, SavePackage, SaveSignature, SaveMeta, Publish
<1>9. CASE Requests
  BY <1>0, <1>2, <1>9 DEF Requests, CheckPending, CheckForUpdates, DownloadNow, SetMode, InstallUpdate, ReadPackage,
     AgentDownload, AgentInstall
<1>10. CASE UNCHANGED vars
  BY <1>0, <1>10 DEF vars
<1> QED BY <1>3, <1>4, <1>5, <1>6, <1>7, <1>8, <1>9, <1>10 DEF UpdatesNext, StartUp, Replace

LEMMA PosixStep == Typed /\ PosixInv /\ [UpdatesNext]_vars => PosixInv'
<1> SUFFICES ASSUME Typed, PosixInv, [UpdatesNext]_vars, ~windows, ~windows' PROVE PosixInv'
  BY SameProgram DEF PosixInv
<1>0. /\ proc \in ProcType /\ swap \in SwapType
      /\ old = None /\ swap.pc \notin {"rename", "write"} /\ proc.pc \notin {"back", "restore"}
  BY DEF Typed, PosixInv
<1> USE DEF PosixInv
<1>a. ASSUME NEW image, NEW fresh, Spawned(image, fresh)
      PROVE  swap'.pc = "off" /\ proc'.pc \notin {"back", "restore"}
  BY <1>a DEF Spawned, NoSwap
<1>b. ASSUME NEW cause, NEW home \in BOOLEAN, GiveUp(cause, home)
      PROVE  swap'.pc = "off" /\ proc'.pc \notin {"back", "restore"}
  BY <1>0, <1>b, GiveUpIs
<1>1. CASE Start \/ Spawn
  BY <1>0, <1>a, <1>b, <1>1 DEF Start, Spawn, files
<1>2. CASE Begin \/ Main \/ SaveVersion \/ CleanLingering
  BY <1>0, <1>2 DEF Begin, Main, SaveVersion, CleanLingering, At, Go, Disaster, ProcType, files
<1>3. CASE SetAside \/ Restore \/ RemoveOld \/ RenameExe \/ WriteExe
  BY <1>0, <1>3 DEF SetAside, Restore, RemoveOld, RenameExe, WriteExe, At
<1>4. CASE WriteNew
  BY <1>0, <1>4 DEF WriteNew, Swap, SwapType
<1>5. CASE Written \/ Put
  <2>1. UNCHANGED old
    BY <1>5 DEF Written, Put, files
  <2>2. \/ Swap("put") /\ UNCHANGED proc
        \/ Swap("spawn") /\ UNCHANGED proc
        \/ GiveUp("other", TRUE)
    BY <1>5 DEF Written, Put
  <2>3. Swap("put") \/ Swap("spawn") => swap'.pc \in {"put", "spawn"}
    BY <1>0 DEF Swap, SwapType
  <2> QED BY <1>0, <1>b, <2>1, <2>2, <2>3
<1>6. CASE Die \/ Quit \/ Crash
  BY <1>0, <1>6 DEF Die, Quit, Crash, Down, Stopped, NoSwap, files
<1>7. CASE Loading \/ Publish \/ CheckPending \/ CheckForUpdates \/ DownloadNow \/ SetMode \/ AgentDownload
  BY <1>0, <1>7 DEF Loading, Fetch, SavePackage, SaveSignature, SaveMeta, Publish, CheckPending, CheckForUpdates,
     DownloadNow, SetMode, AgentDownload, files
<1>8. CASE InstallUpdate \/ AgentInstall
  BY <1>0, <1>8 DEF InstallUpdate, AgentInstall, Swap, SwapType, files
<1>9. CASE ReadPackage
  <2>1. /\ UNCHANGED old
        /\ \/ GiveUp("missing", FALSE)
           \/ swap' = [pc |-> "begin", data |-> pkg] /\ UNCHANGED proc
    BY <1>0, <1>9 DEF ReadPackage, files
  <2>2. swap' = [pc |-> "begin", data |-> pkg] => swap'.pc = "begin"
    OBVIOUS
  <2> QED BY <1>0, <1>b, <2>1, <2>2
<1>10. CASE UNCHANGED vars
  BY <1>0, <1>10 DEF vars, files
<1> QED BY <1>1, <1>2, <1>3, <1>4, <1>5, <1>6, <1>7, <1>8, <1>9, <1>10 DEF UpdatesNext, StartUp, Replace, Requests

LEMMA OrderStep ==
  ASSUME "spawn" \notin Faults, Inv, [UpdatesNext]_vars
  PROVE  OrderInv'
<1> SUFFICES ASSUME program = "gui", program' = "gui", windows, windows' PROVE OrderInv'
  BY SameProgram DEF OrderInv, Inv
<1>0. /\ swap \in SwapType /\ proc \in ProcType /\ load \in LoadType /\ MaxVersion \in Nat
      /\ latest \in Whole /\ offer \in Whole \cup {None} /\ pkg \in Nat /\ exe \in Nat /\ old \in Nat
      /\ ~Fails("spawn") /\ swap.data \in Nat /\ proc.ver \in Nat /\ load.ver \in Nat
  BY UpdatesAssumption DEF Inv, Typed, Fails, SwapType, ProcType, LoadType
<1>i. OrderInv
  BY DEF Inv
<1>r. /\ proc.pc \in {"off", "begin", "back", "restore", "main"} => swap.pc = "off"
      /\ proc.pc = "restore" => old \in Whole /\ old <= proc.ver
      /\ swap.pc \in Moved => old = proc.ver
  BY DEF Inv, RollInv
<1> USE DEF OrderInv, Placing, Swapping
<1>a. ASSUME exe' \in {exe, None, Torn}, UNCHANGED <<proc, load, offer, latest>>, pkg' \in {pkg, None},
             swap'.pc \in {"off", "sleep"} \/ (Swapping /\ swap'.data = swap.data)
      PROVE  OrderInv'
  BY <1>0, <1>i, <1>a
<1>b. ASSUME exe' \in {exe, None}, proc'.ver \in {proc.ver, None}, UNCHANGED <<latest, pkg>>, offer' \in {offer, None},
             swap'.pc = "off", load'.pc = "off" \/ UNCHANGED load
      PROVE  OrderInv'
  BY <1>0, <1>i, <1>b
<1>c. ASSUME UNCHANGED <<exe, latest, pkg, offer, load, swap>>, proc'.ver = proc.ver PROVE OrderInv'
  BY <1>0, <1>i, <1>c
<1>1. CASE Begin \/ SaveVersion \/ CleanLingering
  BY <1>0, <1>1, <1>c DEF Begin, SaveVersion, CleanLingering, Go, ProcType, files, cache, world, page
<1>2. CASE SetAside
  <2>1. exe' \in {exe, None} /\ UNCHANGED <<latest, pkg, offer, load, swap>> /\ proc'.ver = proc.ver
    BY <1>0, <1>2 DEF SetAside, Go, ProcType, cache, world, page
  <2> QED BY <1>0, <1>i, <2>1
<1>3. CASE Start
  <2>1. /\ exe \in Whole /\ UNCHANGED <<exe, pkg, latest>> /\ Spawned(exe, FALSE)
    BY <1>3 DEF Start, files, cache, world
  <2>2. proc'.ver = exe /\ swap'.pc = "off" /\ load'.pc = "off" /\ offer' = None
    BY <2>1 DEF Spawned, NoSwap, NoLoad
  <2> QED BY <1>0, <1>i, <2>1, <2>2
<1>4. CASE Restore
  <2>1. /\ UNCHANGED <<pkg, latest>> /\ old \in Whole /\ old <= proc.ver
        /\ \/ exe' = old /\ Spawned(old, FALSE)
           \/ UNCHANGED exe /\ Go("main") /\ UNCHANGED <<swap, load, page>>
    BY <1>0, <1>r, <1>4 DEF Restore, cache, world, At
  <2>2. CASE exe' = old /\ Spawned(old, FALSE)
    <3>1. proc'.ver = old /\ swap'.pc = "off" /\ load'.pc = "off" /\ offer' = None
      BY <2>2 DEF Spawned, NoSwap, NoLoad
    <3> QED BY <1>0, <1>i, <2>1, <2>2, <3>1
  <2>3. CASE UNCHANGED exe /\ Go("main") /\ UNCHANGED <<swap, load, page>>
    BY <1>0, <1>c, <2>1, <2>3 DEF Go, ProcType, page
  <2> QED BY <2>1, <2>2, <2>3
<1>5. CASE Main
  <2>1. UNCHANGED <<exe, load, offer, latest>> /\ swap.pc = "off"
    BY <1>5, <1>r DEF Main, files, page, world, At
  <2>2. proc'.ver = proc.ver
    BY <1>0, <1>5 DEF Main, Go, ProcType
  <2>3. CASE pkg \in Whole /\ UNCHANGED cache /\ swap' = [pc |-> "begin", data |-> pkg]
    <3>1. pkg' = pkg /\ swap'.pc = "begin" /\ swap'.data = pkg
      BY <2>3 DEF cache
    <3> QED BY <1>0, <1>i, <2>1, <2>2, <2>3, <3>1
  <2>4. CASE (NoCache \/ UNCHANGED cache) /\ UNCHANGED swap
    <3>1. pkg' \in {pkg, None}
      BY <2>4, NoCacheIs DEF cache
    <3> QED BY <1>0, <1>i, <2>1, <2>2, <2>4, <3>1
  <2> QED BY <1>5, <2>3, <2>4 DEF Main, Verified
<1>6. CASE RemoveOld \/ WriteNew \/ WriteExe
  <2>1. exe' \in {exe, Torn} /\ UNCHANGED <<proc, load, offer, latest, pkg>>
    BY <1>6 DEF RemoveOld, WriteNew, WriteExe, cache, page, world
  <2>2. Swapping /\ swap'.data = swap.data
    BY <1>0, <1>6 DEF RemoveOld, WriteNew, WriteExe, Swap, SwapType
  <2> QED BY <1>a, <2>1, <2>2
<1>7. CASE RenameExe
  <2>1. /\ exe' \in {exe, None} /\ UNCHANGED <<load, latest, pkg>> /\ swap.pc = "rename"
        /\ \/ GiveUp("other", FALSE)
           \/ Swap("write") /\ proc' = [proc EXCEPT !.moved = TRUE] /\ UNCHANGED page
    BY <1>7 DEF RenameExe, cache, world
  <2>2. GiveUp("other", FALSE) => swap'.pc = "off" /\ proc'.ver = proc.ver /\ UNCHANGED offer
    BY GiveUpIs DEF Inv
  <2>3. CASE GiveUp("other", FALSE)
    BY <1>b, <2>1, <2>2, <2>3
  <2>4. CASE Swap("write") /\ proc' = [proc EXCEPT !.moved = TRUE] /\ UNCHANGED page
    <3>1. swap'.pc = "write" /\ swap'.data = swap.data /\ proc'.ver = proc.ver /\ offer' = offer
      BY <1>0, <2>4 DEF Swap, SwapType, ProcType, page
    <3> QED BY <1>0, <1>i, <2>1, <3>1
  <2> QED BY <2>1, <2>3, <2>4
<1>8. CASE Written
  <2>0. swap.pc = "written" /\ old = proc.ver /\ UNCHANGED <<load, latest, pkg>>
    BY <1>0, <1>r, <1>8 DEF Written, cache, world, Moved
  <2>1. \/ Swap("put") /\ UNCHANGED <<proc, page>> /\ exe' = swap.data
        \/ GiveUp("other", TRUE) /\ exe' = old
        \/ GiveUp("other", FALSE) /\ exe' = exe
    BY <1>0, <1>8 DEF Written, files
  <2>2. CASE Swap("put") /\ UNCHANGED <<proc, page>> /\ exe' = swap.data
    <3>1. swap'.pc = "put" /\ swap'.data = swap.data /\ offer' = offer
      BY <1>0, <2>2 DEF Swap, SwapType, page
    <3> QED BY <1>0, <1>i, <2>0, <2>2, <3>1
  <2>3. CASE (GiveUp("other", TRUE) /\ exe' = old) \/ (GiveUp("other", FALSE) /\ exe' = exe)
    <3>1. swap'.pc = "off" /\ proc'.ver = proc.ver /\ UNCHANGED offer
      BY <2>3, GiveUpIs DEF Inv
    <3>2. exe' \in {exe, proc.ver}
      BY <2>0, <2>3
    <3> QED BY <1>0, <1>i, <2>0, <3>1, <3>2
  <2> QED BY <2>1, <2>2, <2>3
<1>9. CASE Put
  <2>1. /\ Swap("spawn") /\ NoCache /\ UNCHANGED <<exe, proc, load, latest, offer>> /\ swap.pc = "put"
    BY <1>9 DEF Put, page, world
  <2>2. swap'.data = swap.data
    BY <1>0, <2>1 DEF Swap, SwapType
  <2> QED BY <1>a, <2>1, <2>2, NoCacheIs
<1>10. CASE Spawn
  <2>1. \/ exe \in Whole /\ UNCHANGED <<exe, pkg, latest>> /\ Spawned(exe, TRUE)
        \/ UNCHANGED <<exe, pkg, latest, load>> /\ GiveUp("other", FALSE)
    BY <1>10 DEF Spawn, files, cache, world
  <2>2. CASE exe \in Whole /\ UNCHANGED <<exe, pkg, latest>> /\ Spawned(exe, TRUE)
    <3>1. proc'.ver = exe /\ swap'.pc = "off" /\ load'.pc = "off" /\ offer' = None
      BY <2>2 DEF Spawned, NoSwap, NoLoad
    <3> QED BY <1>0, <1>i, <2>2, <3>1
  <2>3. CASE UNCHANGED <<exe, pkg, latest, load>> /\ GiveUp("other", FALSE)
    <3>1. swap'.pc = "off" /\ proc'.ver = proc.ver /\ UNCHANGED offer
      BY <2>3, GiveUpIs DEF Inv
    <3> QED BY <1>b, <2>3, <3>1
  <2> QED BY <2>1, <2>2, <2>3
<1>11. CASE Die \/ Quit \/ Crash
  BY <1>11, <1>b DEF Die, Quit, Crash, Down, Stopped, NoSwap, NoLoad, files, cache, world
<1>12. CASE ReadPackage
  <2>1. /\ UNCHANGED <<exe, load, latest, pkg>> /\ swap.pc = "sleep"
        /\ \/ GiveUp("missing", FALSE)
           \/ pkg # None /\ swap' = [pc |-> "begin", data |-> pkg] /\ UNCHANGED <<proc, page>>
    BY <1>12 DEF ReadPackage, files, cache, world
  <2>2. GiveUp("missing", FALSE) => swap'.pc = "off" /\ proc'.ver = proc.ver /\ UNCHANGED offer
    BY GiveUpIs DEF Inv
  <2>3. CASE GiveUp("missing", FALSE)
    BY <1>b, <2>1, <2>2, <2>3
  <2>4. CASE pkg # None /\ swap' = [pc |-> "begin", data |-> pkg] /\ UNCHANGED <<proc, page>>
    <3>1. swap'.pc = "begin" /\ swap'.data = pkg /\ offer' = offer
      BY <2>1, <2>4 DEF page
    <3> QED BY <1>0, <1>i, <2>1, <2>4, <3>1
  <2> QED BY <2>1, <2>3, <2>4
<1>13. CASE InstallUpdate
  <2>1. UNCHANGED <<exe, proc, load, offer, latest>> /\ pkg' \in {pkg, None} /\ (Swap("sleep") \/ UNCHANGED swap)
    BY <1>13 DEF InstallUpdate, files, cache, world
  <2>2. Swap("sleep") => swap'.pc = "sleep"
    BY <1>0 DEF Swap, SwapType
  <2>3. swap.pc = "off"
    BY <1>13 DEF InstallUpdate, NoSwap
  <2> QED BY <1>a, <2>1, <2>2, <2>3
<1>14. CASE CheckPending \/ SetMode
  <2>1. UNCHANGED <<exe, proc, load, offer, latest, swap>> /\ (NoCache \/ UNCHANGED cache)
    BY <1>14 DEF CheckPending, SetMode, files, world
  <2>2. pkg' \in {pkg, None}
    BY <2>1, NoCacheIs DEF cache
  <2> QED BY <1>a, <2>1, <2>2
<1>15. CASE CheckForUpdates
  <2>1. /\ UNCHANGED <<exe, proc, latest, swap, pkg>> /\ offer' = latest
        /\ UNCHANGED load \/ load' = [pc |-> "fetch", ver |-> latest]
    BY <1>15 DEF CheckForUpdates, Download, files, cache, world
  <2>2. CASE UNCHANGED load
    BY <1>0, <1>i, <2>1, <2>2
  <2>3. CASE load' = [pc |-> "fetch", ver |-> latest]
    <3>1. load'.pc = "fetch" /\ load'.ver = latest
      BY <2>3
    <3> QED BY <1>0, <1>i, <2>1, <3>1
  <2> QED BY <2>1, <2>2, <2>3
<1>16. CASE DownloadNow
  <2>1. /\ UNCHANGED <<exe, proc, latest, swap, pkg, offer>> /\ offer # None
        /\ load' = [pc |-> "fetch", ver |-> offer]
    BY <1>16 DEF DownloadNow, Download, files, cache, world
  <2>2. load'.pc = "fetch" /\ load'.ver = offer
    BY <2>1
  <2> QED BY <1>0, <1>i, <2>1, <2>2
<1>17. CASE Loading
  <2>1. UNCHANGED <<exe, proc, latest, swap, offer>> /\ load.pc # "off" /\ load.ver \in Whole
    BY <1>17, <1>i DEF Loading, Fetch, SavePackage, SaveSignature, SaveMeta, NotLoaded, files, world, page
  <2>2. load'.pc = "off" \/ load'.ver = load.ver
    BY <1>0, <1>17 DEF Loading, Fetch, SavePackage, SaveSignature, SaveMeta, NotLoaded, NoLoad, LoadType
  <2>3. pkg' \in {pkg, Torn} \/ (pkg' = load.ver /\ load'.pc = "sig" /\ load'.ver = load.ver)
    BY <1>0, <1>17 DEF Loading, Fetch, SavePackage, SaveSignature, SaveMeta, LoadType
  <2>4. CASE pkg' = pkg
    BY <1>0, <1>i, <2>1, <2>2, <2>4
  <2>5. CASE pkg' = Torn
    <3>1. pkg' \notin Whole
      BY <1>0, <2>5
    <3> QED BY <1>0, <1>i, <2>1, <2>2, <3>1
  <2>6. CASE pkg' = load.ver /\ load'.ver = load.ver
    <3>1. exe \in Whole => exe <= load.ver
      BY <1>0, <1>i, <2>1
    <3> QED BY <1>0, <1>i, <2>1, <2>6, <3>1
  <2> QED BY <2>3, <2>4, <2>5, <2>6
<1>18. CASE Publish
  <2>1. UNCHANGED <<exe, proc, swap, offer, load, pkg>> /\ latest' = latest + 1
    BY <1>18 DEF Publish, files, cache, page
  <2> QED BY <1>0, <1>i, <2>1
<1>19. CASE AgentDownload \/ AgentInstall
  BY <1>19 DEF AgentDownload, AgentInstall
<1>20. CASE UNCHANGED vars
  BY <1>20, <1>c DEF vars, files, cache, page, world
<1> QED BY <1>1, <1>2, <1>3, <1>4, <1>5, <1>6, <1>7, <1>8, <1>9, <1>10, <1>11, <1>12, <1>13, <1>14, <1>15, <1>16,
           <1>17, <1>18, <1>19, <1>20
        DEF UpdatesNext, StartUp, Replace, Requests

LEMMA RollStep ==
  ASSUME "spawn" \notin Faults, Inv, [UpdatesNext]_vars
  PROVE  RollInv'
<1> SUFFICES ASSUME program = "gui", program' = "gui", windows, windows' PROVE RollInv'
  BY SameProgram DEF RollInv, Inv
<1>0. /\ swap \in SwapType /\ proc \in ProcType /\ MaxVersion \in Nat
      /\ exe \in Nat /\ old \in Nat /\ lsv \in Nat /\ good \subseteq Nat /\ proc.ver \in Nat
      /\ ~Fails("spawn")
  BY UpdatesAssumption DEF Inv, Typed, Fails, ProcType
<1>1. /\ proc.pc \in {"off", "begin", "back", "restore", "main"} => swap.pc = "off" /\ ~proc.moved
      /\ good \subseteq Whole /\ old \in Whole \cup {None}
      /\ lsv # None => lsv \in good /\ NotAbove(lsv)
      /\ proc.pc # "off" => proc.ver \in Whole /\ NotAbove(proc.ver)
      /\ exe \in Whole => NotAbove(exe)
      /\ proc.moved => old = proc.ver /\ (swap.pc \in Moved \/ exe = Torn)
      /\ swap.pc \in Moved => proc.moved
      /\ swap.pc = "written" => exe = Torn
      /\ proc.pc # "off" /\ ~proc.moved => exe \in {proc.ver, None}
      /\ proc.pc \in {"begin", "back"} => exe = proc.ver
      /\ old \in Whole /\ exe \in Whole => old <= exe /\ (NotAbove(old) \/ lsv = exe)
      /\ proc.pc = "back" => proc.ver \notin good
      /\ proc.pc \in {"back", "restore"} => old \in Whole /\ NotAbove(old) /\ old <= proc.ver
  BY DEF Inv, RollInv, At
<1>a. ASSUME UNCHANGED <<exe, old, lsv, good>>, proc'.ver = proc.ver, proc'.moved = proc.moved,
             \/ proc'.pc = proc.pc
             \/ proc.pc # "off" /\ proc'.pc \notin {"off", "begin", "back", "restore"},
             proc'.pc \in {"off", "begin", "back", "restore", "main"} => swap'.pc = "off" /\ ~proc'.moved,
             swap'.pc \in Moved => swap.pc \in Moved, swap'.pc = "written" => exe = Torn,
             swap.pc \in Moved => swap'.pc \in Moved \/ exe = Torn
      PROVE  RollInv'
  BY <1>1, <1>a DEF RollInv, At, NotAbove
<1>c. ASSUME UNCHANGED <<lsv, good>>, exe' \in Whole, NotAbove(exe'), proc'.pc = "begin", proc'.ver = exe',
             ~proc'.moved, swap'.pc = "off", old' = None \/ UNCHANGED <<exe, old>>
      PROVE  RollInv'
  BY <1>0, <1>1, <1>c DEF RollInv, At, Moved, NotAbove
<1>d. ASSUME UNCHANGED <<exe, old, lsv, good>>, proc'.pc = "off", ~proc'.moved, swap'.pc = "off" PROVE RollInv'
  BY <1>1, <1>d DEF RollInv, At, Moved, NotAbove
<1>e. ASSUME NEW cause, GiveUp(cause, FALSE), UNCHANGED <<exe, old, lsv, good>>, swap.pc \in Moved => exe = Torn
      PROVE  RollInv'
  <2>1. /\ proc'.ver = proc.ver /\ proc'.moved = proc.moved /\ swap'.pc = "off"
        /\ proc'.pc = IF proc.pc = "applying" THEN "young" ELSE proc.pc
    BY <1>0, <1>e, GiveUpIs DEF Inv, ProcType
  <2> QED BY <1>1, <1>a, <1>e, <2>1 DEF Moved
<1>m. ASSUME swap.pc \in Moved
      PROVE  /\ proc.pc \notin {"off", "begin", "back", "restore", "main"}
             /\ proc.moved /\ old = proc.ver /\ old \in Whole /\ NotAbove(old)
  BY <1>1, <1>m DEF Moved
<1>t. Torn \notin Whole \cup {None} /\ None \notin Whole
  BY <1>0
<1>2. CASE Start
  <2>1. exe \in Whole /\ UNCHANGED <<exe, old, lsv, good>> /\ Spawned(exe, FALSE)
    BY <1>2 DEF Start, files
  <2>2. proc'.pc = "begin" /\ proc'.ver = exe /\ ~proc'.moved /\ swap'.pc = "off"
    BY <2>1 DEF Spawned, NoSwap
  <2> QED BY <1>1, <1>c, <2>1, <2>2
<1>3. CASE Begin
  <2>1. /\ UNCHANGED <<exe, old, lsv, good, swap>> /\ proc.pc = "begin" /\ proc'.ver = proc.ver /\ proc'.moved = proc.moved
        /\ proc'.pc = IF Disaster THEN "back" ELSE "main"
    BY <1>0, <1>3 DEF Begin, Go, At, ProcType, files
  <2>2. CASE ~Disaster
    BY <1>1, <1>a, <2>1, <2>2
  <2>3. CASE Disaster
    <3>1. old \in Whole /\ lsv # None /\ lsv # proc.ver
      BY <1>1, <2>3 DEF Disaster
    <3>2. exe = proc.ver /\ exe \in Whole
      BY <1>1, <2>1
    <3>3. NotAbove(old) /\ old <= proc.ver
      BY <1>1, <3>1, <3>2
    <3>4. lsv <= proc.ver
      BY <1>1, <2>1, <3>1 DEF NotAbove
    <3>5. proc.ver \notin good
      BY <1>0, <1>1, <3>1, <3>4 DEF NotAbove
    <3> QED BY <1>1, <2>1, <2>3, <3>1, <3>2, <3>3, <3>5 DEF RollInv, At, Moved, NotAbove
  <2> QED BY <2>2, <2>3
<1>4. CASE SetAside
  <2>1. /\ exe' \in {exe, None} /\ UNCHANGED <<old, lsv, good, swap>> /\ proc.pc = "back" /\ proc'.ver = proc.ver
        /\ proc'.moved = proc.moved /\ proc'.pc = "restore"
    BY <1>0, <1>4 DEF SetAside, Go, At, ProcType
  <2>2. old \in Whole /\ old <= proc.ver /\ ~proc.moved /\ swap.pc = "off"
    BY <1>1, <2>1
  <2>3. CASE exe' = exe
    BY <1>1, <2>1, <2>2, <2>3 DEF RollInv, At, Moved, NotAbove
  <2>4. CASE exe' = None
    BY <1>1, <1>t, <2>1, <2>2, <2>4 DEF RollInv, At, Moved, NotAbove
  <2> QED BY <2>1, <2>3, <2>4
<1>5. CASE Restore
  <2>1. /\ proc.pc = "restore" /\ UNCHANGED <<lsv, good>>
        /\ \/ exe' = old /\ old' = None /\ Spawned(old, FALSE)
           \/ UNCHANGED <<exe, old, swap>> /\ Go("main")
    BY <1>0, <1>5 DEF Restore, At
  <2>2. CASE exe' = old /\ old' = None /\ Spawned(old, FALSE)
    <3>1. proc'.pc = "begin" /\ proc'.ver = old /\ ~proc'.moved /\ swap'.pc = "off"
      BY <2>2 DEF Spawned, NoSwap
    <3>2. old \in Whole /\ NotAbove(old)
      BY <1>1, <2>1
    <3> QED BY <1>c, <2>1, <2>2, <3>1, <3>2
  <2>3. CASE UNCHANGED <<exe, old, swap>> /\ Go("main")
    <3>1. proc'.pc = "main" /\ proc'.ver = proc.ver /\ proc'.moved = proc.moved
      BY <1>0, <2>3 DEF Go, ProcType
    <3> QED BY <1>1, <1>a, <2>1, <2>3, <3>1
  <2> QED BY <2>1, <2>2, <2>3
<1>6. CASE Main
  <2>1. /\ UNCHANGED <<exe, old, lsv, good>> /\ proc.pc = "main" /\ proc'.ver = proc.ver /\ proc'.moved = proc.moved
        /\ proc'.pc \in {"applying", "young"} /\ swap.pc = "off" /\ swap'.pc \in {"off", "begin"}
    BY <1>0, <1>1, <1>6 DEF Main, Go, At, ProcType, files
  <2> QED BY <1>a, <2>1 DEF Moved
<1>7. CASE RemoveOld
  <2>1. /\ swap.pc = "begin" /\ swap'.pc = "rename" /\ UNCHANGED <<exe, lsv, good, proc>>
        /\ old' = old \/ (~proc.moved /\ old' = None)
    BY <1>0, <1>7 DEF RemoveOld, Swap, SwapType
  <2>2. proc.pc \notin {"off", "begin", "back", "restore", "main"}
    BY <1>1, <2>1
  <2>3. CASE old' = old
    BY <1>a, <2>1, <2>2, <2>3 DEF Moved
  <2>4. CASE ~proc.moved /\ old' = None
    BY <1>1, <1>t, <2>1, <2>2, <2>4 DEF RollInv, At, Moved, NotAbove
  <2> QED BY <2>1, <2>3, <2>4
<1>8. CASE RenameExe
  <2>1. /\ swap.pc = "rename" /\ UNCHANGED <<lsv, good>>
        /\ \/ /\ exe # None /\ ~proc.moved /\ old' = exe /\ exe' = None
              /\ Swap("write") /\ proc' = [proc EXCEPT !.moved = TRUE]
           \/ GiveUp("other", FALSE) /\ UNCHANGED <<exe, old>>
    BY <1>8 DEF RenameExe
  <2>2. proc.pc \notin {"off", "begin", "back", "restore", "main"}
    BY <1>1, <2>1
  <2>3. CASE /\ exe # None /\ ~proc.moved /\ old' = exe /\ exe' = None
             /\ Swap("write") /\ proc' = [proc EXCEPT !.moved = TRUE]
    <3>1. exe = proc.ver /\ exe \in Whole
      BY <1>1, <2>2, <2>3
    <3>2. swap'.pc = "write" /\ proc'.pc = proc.pc /\ proc'.ver = proc.ver /\ proc'.moved
      BY <1>0, <2>3 DEF Swap, SwapType, ProcType
    <3> QED BY <1>1, <1>t, <2>1, <2>2, <2>3, <3>1, <3>2 DEF RollInv, At, Moved, NotAbove
  <2>4. CASE GiveUp("other", FALSE) /\ UNCHANGED <<exe, old>>
    BY <1>e, <2>1, <2>4 DEF Moved
  <2> QED BY <2>1, <2>3, <2>4
<1>9. CASE WriteNew \/ WriteExe
  <2>1. /\ swap.pc = "write" /\ swap'.pc = "written" /\ UNCHANGED <<old, lsv, good, proc>> /\ exe' = Torn
    BY <1>0, <1>9 DEF WriteNew, WriteExe, Swap, SwapType
  <2>2. exe' \notin Whole
    BY <1>t, <2>1
  <2>3. /\ proc.pc \notin {"off", "begin", "back", "restore", "main"}
        /\ proc.moved /\ old = proc.ver /\ old \in Whole /\ NotAbove(old)
    BY <1>m, <2>1 DEF Moved
  <2> QED BY <1>1, <2>1, <2>2, <2>3 DEF RollInv, At, Moved, NotAbove
<1>10. CASE Written
  <2>1. swap.pc = "written" /\ UNCHANGED <<lsv, good>>
    BY <1>10 DEF Written
  <2>2. /\ proc.pc \notin {"off", "begin", "back", "restore", "main"}
        /\ proc.moved /\ old = proc.ver /\ old \in Whole /\ NotAbove(old)
    BY <1>m, <2>1 DEF Moved
  <2>3. \/ exe' = swap.data /\ UNCHANGED <<old, proc>> /\ Swap("put")
        \/ exe' = old /\ old' = None /\ GiveUp("other", TRUE)
        \/ UNCHANGED <<exe, old>> /\ GiveUp("other", FALSE) /\ swap.pc = "written"
    BY <1>0, <1>10 DEF Written, files
  <2>4. CASE exe' = swap.data /\ UNCHANGED <<old, proc>> /\ Swap("put")
    <3>1. swap'.pc = "put"
      BY <1>0, <2>4 DEF Swap, SwapType
    <3>2. swap.data \in Whole => old <= swap.data
      BY <2>1, <2>2 DEF Inv, OrderInv, Placing, Swapping
    <3>3. swap.data \in Whole => NotAbove(swap.data)
      BY <1>0, <1>1, <2>2, <3>2 DEF NotAbove
    <3>4. NotAbove(old)' /\ (exe' \in Whole => NotAbove(exe)')
      BY <2>1, <2>2, <2>4, <3>3 DEF NotAbove
    <3> QED BY <1>1, <2>1, <2>2, <2>4, <3>1, <3>2, <3>4 DEF RollInv, At, Moved, NotAbove
  <2>5. CASE exe' = old /\ old' = None /\ GiveUp("other", TRUE)
    <3>1. proc'.pc \in {proc.pc, "young"} /\ proc'.ver = proc.ver /\ ~proc'.moved /\ swap'.pc = "off"
      BY <2>5, GiveUpIs DEF Inv
    <3> QED BY <1>1, <1>t, <2>1, <2>2, <2>5, <3>1 DEF RollInv, At, Moved, NotAbove
  <2>6. CASE UNCHANGED <<exe, old>> /\ GiveUp("other", FALSE)
    <3>1. exe = Torn
      BY <1>1, <2>1
    <3> QED BY <1>e, <2>1, <2>6, <3>1
  <2> QED BY <2>3, <2>4, <2>5, <2>6
<1>11. CASE Put
  <2>1. swap.pc = "put" /\ swap'.pc = "spawn" /\ UNCHANGED <<exe, old, lsv, good, proc>>
    BY <1>0, <1>11 DEF Put, Swap, SwapType
  <2>2. proc.pc \notin {"off", "begin", "back", "restore", "main"}
    BY <1>m, <2>1 DEF Moved
  <2> QED BY <1>a, <2>1, <2>2 DEF Moved
<1>12. CASE Spawn
  <2>1. /\ UNCHANGED <<exe, old, lsv, good>>
        /\ \/ exe \in Whole /\ Spawned(exe, TRUE)
           \/ exe = Torn /\ GiveUp("other", FALSE)
    BY <1>0, <1>12 DEF Spawn, files
  <2>2. CASE exe \in Whole /\ Spawned(exe, TRUE)
    <3>1. proc'.pc = "begin" /\ proc'.ver = exe /\ ~proc'.moved /\ swap'.pc = "off"
      BY <2>2 DEF Spawned, NoSwap
    <3> QED BY <1>1, <1>c, <2>1, <2>2, <3>1
  <2>3. CASE exe = Torn /\ GiveUp("other", FALSE)
    BY <1>e, <2>1, <2>3
  <2> QED BY <2>1, <2>2, <2>3
<1>13. CASE SaveVersion
  <2>1. /\ proc.pc = "young" /\ proc'.pc = "saved" /\ proc'.ver = proc.ver /\ proc'.moved = proc.moved
        /\ UNCHANGED <<exe, old, swap>>
    BY <1>0, <1>13 DEF SaveVersion, Go, At, ProcType, files
  <2>2. CASE UNCHANGED <<lsv, good>>
    BY <1>1, <1>a, <2>1, <2>2
  <2>3. CASE lsv' = proc.ver /\ good' = good \cup {proc.ver}
    <3>0. proc.ver \in Whole /\ (\A g \in good : g <= proc.ver)
      BY <1>1, <2>1 DEF NotAbove
    <3>1. \A g \in good' : g <= proc.ver
      BY <1>0, <2>3, <3>0
    <3>2. exe \in Whole => proc.ver <= exe
      BY <1>0, <1>1, <1>t, <2>1, <3>1
    <3>3. exe \in Whole => \A g \in good' : g <= exe
      BY <1>0, <1>1, <2>3, <3>1, <3>2 DEF NotAbove
    <3>4. exe \in Whole => lsv' = exe \/ old = proc.ver
      BY <1>1, <1>t, <2>1, <2>3
    <3>5. good' \subseteq Whole /\ lsv' \in good'
      BY <1>1, <2>3, <3>0
    <3> QED BY <1>1, <2>1, <2>3, <3>0, <3>1, <3>3, <3>4, <3>5 DEF RollInv, At, Moved, NotAbove
  <2> QED BY <1>13, <2>2, <2>3 DEF SaveVersion
<1>14. CASE CleanLingering
  <2>1. /\ proc.pc = "saved" /\ proc'.pc = "up" /\ proc'.ver = proc.ver /\ proc'.moved = proc.moved
        /\ UNCHANGED <<exe, swap, lsv, good>>
        /\ old' = old \/ (~proc.moved /\ old' = None)
    BY <1>0, <1>14 DEF CleanLingering, Go, At, ProcType
  <2>2. CASE old' = old
    BY <1>1, <1>a, <2>1, <2>2
  <2>3. CASE ~proc.moved /\ old' = None
    BY <1>1, <1>t, <2>1, <2>3 DEF RollInv, At, Moved, NotAbove
  <2> QED BY <2>1, <2>2, <2>3
<1>15. CASE Die \/ Quit \/ Crash
  BY <1>15, <1>d DEF Die, Quit, Crash, Down, Stopped, NoSwap, files
<1>16. CASE ReadPackage
  <2>1. /\ UNCHANGED <<exe, old, lsv, good>> /\ swap.pc = "sleep"
        /\ \/ GiveUp("missing", FALSE)
           \/ swap' = [pc |-> "begin", data |-> pkg] /\ UNCHANGED proc
    BY <1>16 DEF ReadPackage, files
  <2>2. CASE GiveUp("missing", FALSE)
    BY <1>e, <2>1, <2>2 DEF Moved
  <2>3. CASE swap' = [pc |-> "begin", data |-> pkg] /\ UNCHANGED proc
    BY <1>1, <1>a, <2>1, <2>3 DEF Moved
  <2> QED BY <2>1, <2>2, <2>3
<1>17. CASE InstallUpdate
  <2>1. /\ UNCHANGED <<exe, old, lsv, good, proc>> /\ swap.pc = "off" /\ (Swap("sleep") \/ UNCHANGED swap)
        /\ proc.pc \in {"young", "saved", "up"}
    BY <1>17 DEF InstallUpdate, files, NoSwap, OnPage, Running
  <2>2. Swap("sleep") => swap'.pc = "sleep"
    BY <1>0 DEF Swap, SwapType
  <2> QED BY <1>a, <2>1, <2>2 DEF Moved
<1>18. CASE CheckPending \/ CheckForUpdates \/ DownloadNow \/ SetMode \/ Loading \/ Publish
  <2>1. UNCHANGED <<exe, old, lsv, good, proc, swap>>
    BY <1>18 DEF CheckPending, CheckForUpdates, DownloadNow, SetMode, Loading, Publish, Fetch, SavePackage,
       SaveSignature, SaveMeta, files
  <2> QED BY <1>1, <1>a, <2>1
<1>19. CASE AgentDownload \/ AgentInstall
  BY <1>19 DEF AgentDownload, AgentInstall
<1>20. CASE UNCHANGED vars
  BY <1>1, <1>20, <1>a DEF vars, files
<1> QED BY <1>2, <1>3, <1>4, <1>5, <1>6, <1>7, <1>8, <1>9, <1>10, <1>11, <1>12, <1>13, <1>14, <1>15, <1>16,
           <1>17, <1>18, <1>19, <1>20
        DEF UpdatesNext, StartUp, Replace, Requests

(* Updates!RollbackDeserved, whatever is refused, cut short or overtaken,   *)
(* so long as a process that is asked for starts: a version that was noted  *)
(* as good is not rolled back.                                              *)
THEOREM RollbacksDeserved ==
  ASSUME "spawn" \notin Faults
  PROVE  UpdatesSpec => []RollbackDeserved
<1>1. UpdatesInit => Inv
  <2>1. UpdatesInit => OrderInv
    BY UpdatesAssumption DEF UpdatesInit, OrderInv, Placing, Swapping, NoSwap, NoLoad, Stopped
  <2>2. UpdatesInit => RollInv /\ AgentInv /\ PosixInv
    BY UpdatesAssumption DEF UpdatesInit, RollInv, AgentInv, PosixInv, NotAbove, At, Moved, NoSwap, Stopped
  <2> QED BY <2>1, <2>2, InitTyped DEF Inv
<1>2. Inv /\ [UpdatesNext]_vars => Inv'
  <2> SUFFICES ASSUME Inv, [UpdatesNext]_vars PROVE Inv'
    OBVIOUS
  <2>1. Typed'
    BY TypedStep DEF Inv
  <2>2. AgentInv' /\ PosixInv'
    BY AgentStep, PosixStep DEF Inv
  <2> QED BY <2>1, <2>2, RollStep, OrderStep DEF Inv
<1>3. Inv => RollbackDeserved
  <2>1. ASSUME Inv, At("back") PROVE proc.ver \notin good
    <3>1. program = "gui" /\ windows
      BY <2>1 DEF Inv, Typed, AgentInv, PosixInv, At
    <3> QED BY <2>1, <3>1 DEF Inv, RollInv
  <2> QED BY <2>1 DEF RollbackDeserved
<1> QED BY <1>1, <1>2, <1>3, PTL DEF UpdatesSpec

=============================================================================
