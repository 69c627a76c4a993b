------------------------------ MODULE Launcher ------------------------------
(***************************************************************************)
(* How a right click reaches the background agent: the launcher posts its   *)
(* task to the port of the agent.port file, starts an agent when no answer  *)
(* comes within a second, posts again, and runs the task itself when that   *)
(* does not help.  The agent takes the task up before it answers.  An agent *)
(* looks for another one port by port before it listens.  The commands that *)
(* start, restart and stop the agent run beside it.                         *)
(***************************************************************************)
EXTENDS Naturals, FiniteSets

CONSTANTS Launchers, Agents,  \* processes; an agent process that ended may be started again
          Tried,              \* the ports tried in order
          Taken,              \* ports of other programs
          Mishaps,            \* "spawn": a process does not start; "disk": the file is not
                              \* written; "slow": an agent is still there 800 ms after its restart
          Deaths              \* agents that end without being asked to

ASSUME LauncherAssumption ==
  /\ IsFiniteSet(Agents)
  /\ Tried \in Nat \ {0} /\ Taken \subseteq 1..Tried /\ 1..Tried # Taken
  /\ Mishaps \subseteq {"spawn", "disk", "slow"} /\ Deaths \in Nat

\* behind the ports tried there is always one the system gives out
Last == Tried + Cardinality(Agents)
Ports == 1..Last
NoPort == 0
Rounds == {"first", "second"}  \* a launcher posts its task twice at most
Posts == Launchers \X Rounds

VARIABLES portFile,  \* agent.port
          agent,     \* pc, port (looked at or listened on), and the agents met at the start
          launcher,  \* pc, the port taken for the agent's, and the answer given
          request,   \* of each launcher and round: the agent it is at, and what became of it
          started,   \* the requests taken up, and the tasks run by the launcher itself
          lost,      \* the requests whose launcher stopped waiting for the answer
          command,   \* the command agent-start: pc, port looked at, port asked at last
          deaths

launcherVars == <<portFile, agent, launcher, request, started, lost, command, deaths>>
posted == <<request, started, lost>>

AgentAt(a, pc) == agent[a].pc = pc
Bound(a) == agent[a].pc \in {"record", "serve", "closing", "close"}
Owner(p) == {a \in Agents : Bound(a) /\ agent[a].port = p}
Answers(p) == Owner(p) # {}
Off == [pc |-> "off", port |-> NoPort, met |-> {}]

LauncherInit ==
  /\ portFile \in {NoPort} \cup Taken
  /\ agent = [a \in Agents |-> Off]
  /\ launcher = [l \in Launchers |-> [pc |-> "idle", port |-> NoPort, answer |-> "none"]]
  /\ request = [x \in Posts |-> [by |-> {}, state |-> "none"]]
  /\ started = {} /\ lost = {}
  /\ command = [pc |-> "idle", port |-> NoPort, url |-> 1]
  /\ deaths = 0

\* runDesktopAgent begins to look at the ports
Begun(a) == [agent EXCEPT ![a] = [pc |-> "probe", port |-> 1, met |-> {b \in Agents : Bound(b)}]]
\* an agent process is started, if there is one left to start
NewAgent(now) == \E a \in Agents : AgentAt(a, "off") /\ agent' = (IF now THEN Begun(a) ELSE [agent EXCEPT ![a].pc = "helper"])
\* an agent that ends is no longer met by anyone
Ended(a) == [b \in Agents |-> IF b = a THEN Off ELSE [agent[b] EXCEPT !.met = @ \ {a}]]
\* and answers nothing more, also where it has taken the task up
Cut(a) == [x \in Posts |-> IF a \in request[x].by THEN [by |-> {}, state |-> "cut"] ELSE request[x]]

\* mutant: a port nobody else listens on is taken without asking
ProbeNothing(a) ==
  /\ AgentAt(a, "probe") /\ agent[a].port <= Tried
  /\ agent' = [agent EXCEPT ![a].pc = "listen"]
  /\ UNCHANGED <<portFile, launcher, posted, command, deaths>>

\* an agent that answers is left alone
Probe(a) ==
  /\ AgentAt(a, "probe") /\ agent[a].port <= Tried
  /\ agent' = IF Answers(agent[a].port) THEN Ended(a) ELSE [agent EXCEPT ![a].pc = "listen"]
  /\ UNCHANGED <<portFile, launcher, posted, command, deaths>>

Free(p) == p \notin Taken /\ ~Answers(p)

Listen(a) ==
  /\ AgentAt(a, "listen")
  /\ agent' = IF Free(agent[a].port) THEN [agent EXCEPT ![a].pc = "record"]
              ELSE [agent EXCEPT ![a].pc = "probe", ![a].port = @ + 1]
  /\ UNCHANGED <<portFile, launcher, posted, command, deaths>>

\* all ports are in use: any port
ListenAnywhere(a) ==
  /\ AgentAt(a, "probe") /\ agent[a].port > Tried
  /\ \E p \in {q \in Ports : q > Tried /\ Free(q)} :
       agent' = [agent EXCEPT ![a].pc = "record", ![a].port = p]
  /\ UNCHANGED <<portFile, launcher, posted, command, deaths>>

Record(a) ==
  /\ AgentAt(a, "record")
  /\ portFile' \in {agent[a].port} \cup IF "disk" \in Mishaps THEN {portFile} ELSE {}
  /\ agent' = [agent EXCEPT ![a].pc = "serve"]
  /\ UNCHANGED <<launcher, posted, command, deaths>>

\* handleShutdown, and handleRestart with the helper that becomes the next agent
Shutdown(a) ==
  /\ AgentAt(a, "serve")
  /\ agent' = [agent EXCEPT ![a].pc = "closing"]
  /\ UNCHANGED <<portFile, launcher, posted, command, deaths>>

Restart(a) ==
  /\ AgentAt(a, "serve")
  /\ \E b \in Agents : /\ AgentAt(b, "off")
                       /\ agent' = [agent EXCEPT ![a].pc = "closing", ![b].pc = "helper"]
  /\ UNCHANGED <<portFile, launcher, posted, command, deaths>>

\* the helper begins 800 ms later
Help(a) ==
  /\ AgentAt(a, "helper")
  /\ "slow" \in Mishaps \/ \A b \in Agents : ~AgentAt(b, "closing") /\ ~AgentAt(b, "close")
  /\ agent' = Begun(a)
  /\ UNCHANGED <<portFile, launcher, posted, command, deaths>>

RemoveFile(a) ==
  /\ AgentAt(a, "closing")
  /\ portFile' = NoPort
  /\ agent' = [agent EXCEPT ![a].pc = "close"]
  /\ UNCHANGED <<launcher, posted, command, deaths>>

Close(a) ==
  /\ AgentAt(a, "close")
  /\ agent' = Ended(a) /\ request' = Cut(a)
  /\ UNCHANGED <<portFile, launcher, started, lost, command, deaths>>

\* os.Exit after an update, or a crash: the file stays
AgentDies(a) ==
  /\ Bound(a) /\ deaths < Deaths
  /\ deaths' = deaths + 1 /\ agent' = Ended(a) /\ request' = Cut(a)
  /\ UNCHANGED <<portFile, launcher, started, lost, command>>

\* the handler adds the task to the queue, and starts it if none runs, or finds
\* the queue full; whether somebody still waits for its answer it does not know
handleTasks(a) == \E x \in Posts :
  /\ request[x] = [by |-> {a}, state |-> "sent"] /\ ~AgentAt(a, "record")
  /\ \/ /\ request' = [request EXCEPT ![x].state = "taken"]
        /\ started' = started \cup {x}
     \/ /\ request' = [request EXCEPT ![x].state = "refused"]
        /\ UNCHANGED started
  /\ UNCHANGED <<portFile, agent, launcher, lost, command, deaths>>

Is(l, pc) == launcher[l].pc = pc
To(l, pc) == launcher' = [launcher EXCEPT ![l].pc = pc]
Done(l, answer) == launcher' = [launcher EXCEPT ![l] = [pc |-> "done", port |-> NoPort, answer |-> answer]]
Known(p) == IF portFile # NoPort THEN portFile ELSE p
\* where the launcher goes on when the round failed
After(r) == IF r = "first" THEN "start" ELSE "direct"

\* submitTaskToAgent reads the file, or keeps the port 48176
Read(l) ==
  /\ Is(l, "idle")
  /\ launcher' = [launcher EXCEPT ![l].pc = "post", ![l].port = Known(1)]
  /\ UNCHANGED <<portFile, agent, posted, command, deaths>>

\* postAgentTask: to an agent, which answers later; to another program, which does not
\* answer 202; to nobody
postAgentTask(l, r) ==
  \/ /\ \E a \in Owner(launcher[l].port) :
          request' = [request EXCEPT ![<<l, r>>] = [by |-> {a}, state |-> "sent"]]
     /\ To(l, r)
  \/ /\ launcher[l].port \in Taken
     /\ Done(l, "rejected") /\ UNCHANGED request
  \/ /\ ~Answers(launcher[l].port)
     /\ To(l, After(r)) /\ UNCHANGED request

First(l) == /\ Is(l, "post") /\ postAgentTask(l, "first")
            /\ UNCHANGED <<portFile, agent, started, lost, command, deaths>>

\* mutant: 200 is expected where the agent answers 202
AnsweredExpectingOK(l, r) ==
  /\ Is(l, r)
  /\ request[<<l, r>>].state \in {"taken", "refused"} /\ Done(l, "rejected")
  /\ UNCHANGED <<portFile, agent, posted, command, deaths>>

\* the answer: 202, or anything else
Answered(l, r) ==
  /\ Is(l, r)
  /\ \/ request[<<l, r>>].state = "taken" /\ Done(l, "ok")
     \/ request[<<l, r>>].state = "refused" /\ Done(l, "rejected")
  /\ UNCHANGED <<portFile, agent, posted, command, deaths>>

\* no answer within the second of the client, or the connection is gone
Unanswered(l, r) ==
  /\ Is(l, r)
  /\ To(l, After(r)) /\ lost' = lost \cup {<<l, r>>}
  /\ UNCHANGED <<portFile, agent, request, started, command, deaths>>

StartAgent(l) ==
  /\ Is(l, "start")
  /\ \/ NewAgent(TRUE) /\ To(l, "wait")
     \/ "spawn" \in Mishaps /\ To(l, "direct") /\ UNCHANGED agent
  /\ UNCHANGED <<portFile, posted, command, deaths>>

\* waitForAgent polls the port of the file, or the one it knows, for three seconds
Wait(l) ==
  /\ Is(l, "wait")
  /\ LET p == Known(launcher[l].port)
     IN  \E pc \in IF Answers(p) THEN {"again"} ELSE {"wait", "direct"} :
           launcher' = [launcher EXCEPT ![l].pc = pc, ![l].port = p]
  /\ UNCHANGED <<portFile, agent, posted, command, deaths>>

Second(l) == /\ Is(l, "again") /\ postAgentTask(l, "second")
             /\ UNCHANGED <<portFile, agent, started, lost, command, deaths>>

\* runDirect: the task in a process of its own
RunDirect(l) ==
  /\ Is(l, "direct")
  /\ \/ /\ started' = started \cup {<<l, "direct">>}
        /\ Done(l, "ok") \/ Done(l, "failed")
     \/ "spawn" \in Mishaps /\ Done(l, "failed") /\ UNCHANGED started
  /\ UNCHANGED <<portFile, agent, request, lost, command, deaths>>

\* agent-start: the port of the file if an agent answers there
ReadFile ==
  /\ command.pc = "idle"
  /\ command' = IF portFile # NoPort /\ Answers(portFile)
                THEN [pc |-> "check", port |-> portFile, url |-> portFile]
                ELSE [pc |-> "look", port |-> 1, url |-> Known(1)]
  /\ UNCHANGED <<portFile, agent, launcher, posted, deaths>>

\* otherwise the ports in order; an agent that answers is written to the file
Look ==
  /\ command.pc = "look"
  /\ IF Answers(command.port)
     THEN command' = [command EXCEPT !.pc = "note"]
     ELSE IF command.port < Tried
     THEN command' = [command EXCEPT !.port = @ + 1]
     ELSE command' = [command EXCEPT !.pc = "start"]
  /\ UNCHANGED <<portFile, agent, launcher, posted, deaths>>

Note ==
  /\ command.pc = "note"
  /\ portFile' \in {command.port} \cup IF "disk" \in Mishaps THEN {portFile} ELSE {}
  /\ command' = [command EXCEPT !.pc = "check", !.url = command.port]
  /\ UNCHANGED <<agent, launcher, posted, deaths>>

Check ==
  /\ command.pc = "check"
  /\ command' = [command EXCEPT !.pc = IF Answers(command.url) THEN "done" ELSE "start"]
  /\ UNCHANGED <<portFile, agent, launcher, posted, deaths>>

StartBackground ==
  /\ command.pc = "start"
  /\ \/ NewAgent(TRUE) /\ command' = [command EXCEPT !.pc = "await"]
     \/ "spawn" \in Mishaps /\ command' = [command EXCEPT !.pc = "done"] /\ UNCHANGED agent
  /\ UNCHANGED <<portFile, launcher, posted, deaths>>

\* waitForDesktopAgentReady: the port of the file, or the one asked last, for ten seconds
waitForDesktopAgentReady ==
  /\ command.pc = "await"
  /\ LET p == Known(command.url)
     IN  \E pc \in IF Answers(p) THEN {"done"} ELSE {"await", "done"} :
           command' = [command EXCEPT !.pc = pc, !.url = p]
  /\ UNCHANGED <<portFile, agent, launcher, posted, deaths>>

Agency(a) == Probe(a) \/ Listen(a) \/ ListenAnywhere(a) \/ Record(a) \/ Shutdown(a) \/ Restart(a)
             \/ Help(a) \/ RemoveFile(a) \/ Close(a) \/ AgentDies(a) \/ handleTasks(a)
Launch(l) == Read(l) \/ First(l) \/ StartAgent(l) \/ Wait(l) \/ Second(l) \/ RunDirect(l)
             \/ \E r \in Rounds : Answered(l, r) \/ Unanswered(l, r)
Background == ReadFile \/ Look \/ Note \/ Check \/ StartBackground \/ waitForDesktopAgentReady

LauncherNext == (\E a \in Agents : Agency(a)) \/ (\E l \in Launchers : Launch(l)) \/ Background

LauncherSpec == LauncherInit /\ [][LauncherNext]_launcherVars

(***************************************************************************)
(* Properties                                                              *)
(***************************************************************************)

\* What the launcher shows is true of the requests it has an answer of: of these
\* and of its own process exactly one took the task up if it ends without an error,
\* none if it shows that the agent refused the task, and no agent if it shows that
\* its own process failed; whatever a request it gave up does meanwhile, and
\* wherever an agent ends between taking the task up and the answer
\* (submitTaskToAgent, runLauncher, handleTasks)
AnswerTrue == \A l \in Launchers :
  LET owed == {o \in Rounds \cup {"direct"} : <<l, o>> \in started \ lost}
  IN  Is(l, "done") => CASE launcher[l].answer = "ok" -> \E o \in Rounds \cup {"direct"} : owed = {o}
                         [] launcher[l].answer = "rejected" -> owed = {}
                         [] OTHER -> owed \subseteq {"direct"}

FirstFree == CHOOSE p \in Ports : p \notin Taken /\ \A q \in 1..(p - 1) : q \in Taken

\* A process started while an agent listens on the first port other programs
\* leave does not become a second agent, however many start together
\* (runDesktopAgent: the health check before the listen)
NoSecond == \A a, b \in Agents :
  a \in agent[b].met /\ agent[a].port = FirstFree => ~Bound(b)

=============================================================================
