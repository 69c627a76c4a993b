-------------------------------- MODULE Server --------------------------------
(***************************************************************************)
(* The transfer server: one process serves either the route /send or the   *)
(* route /receive, over the same devices, status and stop token.           *)
(***************************************************************************)
EXTENDS SendServer, ReceiveServer

vars == <<serverVars, sendVars, receiveVars>>

Init == ServerInit /\ SendInit /\ ReceiveInit

Next ==
  \/ SendStep /\ UNCHANGED receiveVars
  \/ ReceiveStep /\ UNCHANGED sendVars

(***************************************************************************)
(* Goroutines and started handlers run on, sleeps end, the disk answers.   *)
(* Wait, the handlers and the goroutines of uploads take finitely many     *)
(* steps, so one condition for them all is enough; the stop may be asked   *)
(* for again and again.  Nothing is assumed of pages or of the host.       *)
(***************************************************************************)
Alone(A) == A /\ UNCHANGED <<sendVars, receiveVars>>

RunsOn ==
  \/ Alone(Wait)
  \/ (\E r \in Req: HandlerStep(r)) /\ UNCHANGED receiveVars
  \/ Running /\ UNCHANGED sendVars

Spec ==
  /\ Init /\ [][Next]_vars
  /\ WF_vars(Alone(GraceAsk)) /\ WF_vars(Alone(GraceEnds)) /\ WF_vars(Alone(TakeToken))
  /\ WF_vars(RunsOn)

(***************************************************************************)
(* docs/test/state-machine-contract-testing-plan.md, assertion 1, as far   *)
(* as it holds: while a server is to stay and auto-stop was never on,      *)
(* nothing a device uploads, downloads or reports ends it.  It is never    *)
(* shown as completed, no goroutine is on its way to the stop channel, and *)
(* what is in the channel, or came out of it, was put there by the host or *)
(* by a page or a listener that broke (server.go:858 and 3710 to 3736).    *)
(***************************************************************************)
KeepAliveStays ==
  setup.keepAlive /\ ~everAuto =>
    /\ status # "completed" /\ asked + asleep = 0
    /\ token \/ main = "returned" => hostStop \/ broken

(***************************************************************************)
(* A device shown as completed has been sent all the bytes (one item, no   *)
(* parts): server.go's count of bytes is not fooled by breaks, resumed     *)
(* downloads and fresh starts, as long as the device asks again only when  *)
(* the handler of its earlier request is through.                          *)
(***************************************************************************)
AllSent(d) == \A i \in Paths: sent[d][i] = 0 .. SizeOf(i) - 1

CompletedMeansSent ==
  setup.mode = "send" /\ ~setup.ranges /\ ~IsMulti =>
    \A d \in Device: client[d] = "completed" => d \in overlapped \/ AllSent(d)

(***************************************************************************)
(* An asked stop is carried out: the token reaches Wait although the       *)
(* status ticker receives from the same channel, when the ticker has       *)
(* ticked once since Wait began.                                           *)
(***************************************************************************)
StopReturns == ~setup.early => ((asked + asleep > 0 \/ token) ~> main = "returned")

(***************************************************************************)
(* The plan's assertion 2: auto-stop is on and every device it counts has  *)
(* completed, for good: the server stops.                                  *)
(***************************************************************************)
AutoStopConverges ==
  ~setup.zip /\ ~setup.stale /\ ~setup.bare /\ setup.host \cap {"off", "kick"} = {} =>
    (<>[](autoStop /\ Known # {} /\ \A d \in Known: client[d] = "completed")
       => <>(main = "returned"))

(***************************************************************************)
(* When a device has reported that it is done and no file of its is being  *)
(* moved or told, it is shown as completed, in whatever order the report,  *)
(* the arrivals and the progress events of its files were handled.  (A     *)
(* device that also posts a form is left out: the form forgets the files,  *)
(* and an event of one that is still on its way lists it again.)           *)
(***************************************************************************)
SettlesComplete ==
  \A d \in Device:
    /\ setup.mode = "receive" /\ ~setup.form /\ ~setup.lossy /\ "kick" \notin setup.host
    /\ declared[d] /\ page[d].pc = "idle" /\ arrival.pc = "idle"
    => client[d] = "completed"

=============================================================================
