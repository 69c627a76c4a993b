------------------------------ MODULE Throttle ------------------------------
(***************************************************************************)
(* The bandwidth scheduler of the chat's data plane.  Every download and    *)
(* every restricted upload registers a job under a name and, after each     *)
(* chunk, sleeps as long as the job's rate asks for.  A job of the paid     *)
(* class first runs freely while its capacity is measured; afterwards the   *)
(* global limit is shared in proportion to the capacities.                  *)
(*                                                                          *)
(* The unit of a rate is the floor of 32 KB/s.  What a rate does to a       *)
(* stream's clock is left out: pace is the rate the last chunk was held to. *)
(***************************************************************************)
EXTENDS Naturals, FiniteSets, FiniteSetsExt

CONSTANTS Streams,      \* requests that copy a file's bytes
          Files,        \* a file asked for by a device: the name downloads of it share
          Floor,        \* 32 KB/s
          DegradedCap,  \* PolicyFreeDegraded.MaxSpeed
          PaidCap,      \* PolicyPaid.MaxSpeed
          MinCapacity,  \* the least capacity a measurement is taken for
          globalLimit,
          Measures      \* what a measurement of capacity may give

ASSUME ThrottleAssumption ==
  /\ Floor \in Nat \ {0} /\ DegradedCap \in Nat \ {0} /\ PaidCap \in Nat
  /\ DegradedCap <= PaidCap /\ MinCapacity \in Nat /\ globalLimit \in Nat
  /\ Measures \subseteq Nat
  /\ Streams \cap Files = {}

VARIABLES activeJobs,  \* the scheduler's map: a job or NoJob for each name
          probes,      \* ProbingBytes >= 0: whether capacities are measured
          stream,      \* pc, name, class and pace of each request
          twice        \* history: a device asked for a file while it was being sent it

throttleVars == <<activeJobs, probes, stream, twice>>

\* an inline request or an upload without a message has a name of its own
Names == Files \cup Streams
NoJob == [unrestricted |-> FALSE, rateCap |-> 0, probing |-> "none", capacity |-> 0]
Unpaced == PaidCap + 1

Active == {n \in Names : activeJobs[n] # NoJob}
Measured == {n \in Active : activeJobs[n].probing \notin {"warm", "on"}}
Probed == Active \ Measured
Lesser(a, b) == IF a <= b THEN a ELSE b
Greater(a, b) == IF a <= b THEN b ELSE a

\* mutant: a restricted job is measured like any other
RegisteredProbing(unrestricted) ==
  [unrestricted |-> unrestricted,
   rateCap |-> IF unrestricted THEN PaidCap ELSE DegradedCap,
   probing |-> IF probes THEN "warm" ELSE "done",
   capacity |-> IF probes THEN 0 ELSE IF unrestricted THEN PaidCap ELSE DegradedCap]

\* RegisterJob: the job's class gives its cap; only the full class is measured
Registered(unrestricted) ==
  [unrestricted |-> unrestricted,
   rateCap |-> IF unrestricted THEN PaidCap ELSE DegradedCap,
   probing |-> IF unrestricted /\ probes THEN "warm" ELSE "done",
   capacity |-> IF unrestricted /\ probes THEN 0
                ELSE IF unrestricted THEN PaidCap ELSE DegradedCap]
\* a rate within the job's cap, and no lower than the floor the cap allows
Clamped(rate, cap) == Greater(Lesser(rate, cap), Lesser(Floor, cap))

\* what the jobs being measured are taken to use
ActiveProbingCapacity ==
  LET Use(n) == IF activeJobs[n].capacity > 0 THEN activeJobs[n].capacity ELSE activeJobs[n].rateCap
  IN  MapThenSumSet(Use, Probed)
CapacityOf(n) == IF activeJobs[n].capacity > 0 THEN activeJobs[n].capacity ELSE Floor
TotalCapacity == MapThenSumSet(CapacityOf, Measured)

Left == IF globalLimit > ActiveProbingCapacity THEN globalLimit - ActiveProbingCapacity ELSE 0
\* mutant: the jobs being measured leave the whole limit to the others
PoolUndivided == Greater(globalLimit, Cardinality(Measured) * Floor)
Pool == Greater(Left, Cardinality(Measured) * Floor)

Share(n) == Lesser((Pool * CapacityOf(n)) \div TotalCapacity, CapacityOf(n))

LimitForJob(n) ==
  IF activeJobs[n] = NoJob THEN Floor
  ELSE IF ~probes
  THEN Clamped(globalLimit \div Cardinality(Active), activeJobs[n].rateCap)
  ELSE IF n \in Probed
  THEN activeJobs[n].rateCap
  ELSE Clamped(Share(n), activeJobs[n].rateCap)

\* the measured capacity, made no smaller than the class may expect
Sanitized(capacity, job) ==
  Lesser(Greater(capacity, Lesser(MinCapacity, job.rateCap)), job.rateCap)

\* the end of the measurement
Judged(job, capacity) ==
  [unrestricted |-> job.unrestricted, rateCap |-> job.rateCap,
   probing |-> "done", capacity |-> Sanitized(capacity, job)]

ThrottleInit ==
  /\ activeJobs = [n \in Names |-> NoJob]
  /\ probes \in BOOLEAN
  /\ stream = [s \in Streams |-> [pc |-> "idle", name |-> s, full |-> FALSE, pace |-> 0]]
  /\ twice = FALSE

At(s, pc) == stream[s].pc = pc
Busy(n) == \E s \in Streams : stream[s].pc # "idle" /\ stream[s].name = n

\* RegisterJob, when the first bytes are ready
RegisterJob(s, n, unrestricted) ==
  /\ At(s, "idle")
  /\ twice' = (twice \/ (n \in Files /\ Busy(n)))
  /\ activeJobs' = [activeJobs EXCEPT ![n] = Registered(unrestricted)]
  /\ stream' = [stream EXCEPT ![s] = [pc |-> "copy", name |-> n, full |-> unrestricted, pace |-> 0]]
  /\ UNCHANGED probes

Paced(s, rate) == stream' = [stream EXCEPT ![s].pace = rate]

\* a chunk went out and Throttle takes the lock: a job that is missing, being
\* measured, or has to be held to its rate
Unknown(s) ==
  /\ At(s, "copy") /\ activeJobs[stream[s].name] = NoJob
  /\ Paced(s, Unpaced)
  /\ UNCHANGED <<activeJobs, probes, twice>>

Probe(s) ==
  LET n == stream[s].name  job == activeJobs[n] IN
  /\ At(s, "copy") /\ job.probing \in {"warm", "on"}
  /\ \/ job.probing = "warm" /\ UNCHANGED activeJobs
     \/ job.probing = "warm" /\ activeJobs' = [activeJobs EXCEPT ![n].probing = "on"]
     \/ job.probing = "on" /\ \E c \in Measures \cup {job.capacity} :
                                activeJobs' = [activeJobs EXCEPT ![n].capacity = c]
     \/ job.probing = "on" /\ \E c \in Measures \cup {job.capacity} :
          activeJobs' = [activeJobs EXCEPT ![n] = Judged(job, c)]
  /\ Paced(s, Unpaced)
  /\ UNCHANGED <<probes, twice>>

Marks(s) ==
  /\ At(s, "copy") /\ activeJobs[stream[s].name].probing = "done"
  /\ stream' = [stream EXCEPT ![s].pc = "ask"]
  /\ UNCHANGED <<activeJobs, probes, twice>>

\* the limit is looked up under another lock
Sleep(s) ==
  /\ At(s, "ask")
  /\ stream' = [stream EXCEPT ![s] = [pc |-> "copy", name |-> @.name, full |-> @.full,
                                     pace |-> LimitForJob(@.name)]]
  /\ UNCHANGED <<activeJobs, probes, twice>>

\* the stream ends, however it ends
UnregisterJob(s) ==
  /\ At(s, "copy")
  /\ activeJobs' = [activeJobs EXCEPT ![stream[s].name] = NoJob]
  /\ stream' = [stream EXCEPT ![s].pc = "idle"]
  /\ UNCHANGED <<probes, twice>>

Register(s) == \E n \in Files \cup {s}, u \in BOOLEAN : RegisterJob(s, n, u)
ThrottleNext == \E s \in Streams :
  Register(s) \/ Unknown(s) \/ Probe(s) \/ Marks(s) \/ Sleep(s) \/ UnregisterJob(s)

ThrottleSpec == ThrottleInit /\ [][ThrottleNext]_throttleVars

(***************************************************************************)
(* Properties                                                              *)
(***************************************************************************)

\* A transfer that started beyond the free quota is held to the degraded cap
\* with every chunk, whatever the other transfers do in the meantime
\* (RegisterJob: the hard cap is enforced immediately and cannot be lifted),
\* until a device asks for a file it is being sent
DegradedCapped == ~twice => \A s \in Streams : ~stream[s].full => stream[s].pace <= DegradedCap

\* The jobs that are not being measured get together no more than what those
\* being measured leave of the global limit, one floor each aside
SharedFairly ==
  LET n == Cardinality(Measured)
      used == MapThenSumSet(LAMBDA j : IF activeJobs[j].capacity > 0 THEN activeJobs[j].capacity
                                       ELSE activeJobs[j].rateCap, Probed)
      rest == IF globalLimit > used + n * Floor THEN globalLimit - used ELSE n * Floor
  IN  probes => MapThenSumSet(LimitForJob, Measured) <= rest + n * Floor
=============================================================================
