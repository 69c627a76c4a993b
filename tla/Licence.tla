------------------------------- MODULE Licence -------------------------------
(***************************************************************************)
(* The licence on this computer (pkg/server/license.go, hardware.go): the  *)
(* certificate file, the copy of it in memory, and the paid status, each   *)
(* under a lock of its own, so that an operation is the sequence of its    *)
(* locked sections.  Goroutines run the operations: the boot and the       *)
(* desktop's own verification at startup, and the user's activations,      *)
(* refreshes and resets.  The licence server is external.                  *)
(***************************************************************************)
EXTENDS Naturals, Sequences, FiniteSets

CONSTANTS
  Codes,        \* licence codes
  Foreign,      \* those whose certificate another build's key signed
  Plans         \* [script, file, bound, faults]: who does what, and from which state

None == "none"
Unread == "unread"
NoCert == [code |-> None, epoch |-> 0]
MaxEpoch == 1       \* bound: how often the 7-day lease runs out

Ops == Codes \cup {"boot", "verify", "refresh", "reset"}    \* a code stands for its activation

ASSUME CodesAssumption ==
  Foreign \subseteq Codes /\ Codes \cap {None, Unread, "boot", "verify", "refresh", "reset"} = {}

ASSUME PlansAssumption ==
  \A p \in Plans :
    /\ None \notin DOMAIN p.script /\ \A w \in DOMAIN p.script : p.script[w] \in Seq(Ops)
    /\ p.file \in [code: Codes \cup {None}, epoch: {0}] /\ p.bound \subseteq Codes

VARIABLES
  plan,
  file,       \* eqt.lic: a certificate or NoCert
  cache,      \* cachedLicense, or Unread
  paid,       \* cachedIsPaid, with cachedTier and cachedCodeDate standing for the code
  tampered,   \* cachedIsTampered
  ready,      \* cachedLicenseReady
  probed,     \* the hardware fingerprints are known
  syncing,    \* syncInFlightMu
  task,       \* each goroutine: what it runs and where it is
  world       \* the licence server, the wall clock and the calls on their way

licenceVars == <<plan, file, cache, paid, tampered, ready, probed, syncing, task, world>>

Worker == DOMAIN plan.script
May(fault) == fault \in plan.faults

NewTask(script) ==
  [script |-> script, pc |-> "idle", code |-> None, cert |-> NoCert, answer |-> None,
   paid |-> None, wiping |-> FALSE, next |-> "idle", err |-> "idle"]

LicenceInit ==
  /\ plan \in Plans
  /\ file = plan.file
  /\ cache = [code |-> Unread, epoch |-> 0]
  /\ paid = None /\ tampered = FALSE /\ ready = FALSE
  /\ probed = FALSE /\ syncing = None
  /\ task = [w \in DOMAIN plan.script |-> NewTask(plan.script[w])]
  /\ world = [bound |-> plan.bound, gone |-> {}, unbinds |-> {}, epoch |-> 0, back |-> FALSE]

Goto(w, pc) == task' = [task EXCEPT ![w].pc = pc]
At(w, pc) == task[w].pc = pc

(***************************************************************************)
(* What a certificate is good for.                                         *)
(***************************************************************************)
SignedAny(cert) == cert.code # None                                 \* mutant
Signed(cert) == cert.code # None /\ cert.code \notin Foreign
InLease(cert) == cert.epoch = world.epoch

\* GetLocalLicenseInfo: the first call reads the file, later ones the copy
Local == IF cache.code = Unread THEN file ELSE cache

(***************************************************************************)
(* A goroutine takes the next operation of its script.                     *)
(***************************************************************************)
First(op) ==
  CASE op = "boot" -> "probe" [] op = "verify" -> "read" [] op = "refresh" -> "choose"
    [] op = "reset" -> "info" [] op \in Codes -> "activate"

Take(w) ==
  /\ At(w, "idle") /\ task[w].script # <<>>
  /\ LET op == Head(task[w].script) IN
     task' = [task EXCEPT ![w] = [NewTask(Tail(@.script)) EXCEPT !.pc = First(op),
                !.code = IF op \in Codes THEN op ELSE None,
                !.next = IF op = "boot" THEN "booted" ELSE IF op = "verify" THEN "verified" ELSE "idle"]]
  /\ UNCHANGED <<plan, file, cache, paid, tampered, ready, probed, syncing, world>>

Probe(w) ==                                      \* PrecomputeDeviceFingerprints
  /\ At(w, "probe")
  /\ probed' = TRUE
  /\ Goto(w, "read")
  /\ UNCHANGED <<plan, file, cache, paid, tampered, ready, syncing, world>>

(***************************************************************************)
(* VerifyLocalLicense: every failure leads to SetPaidStatus(false).        *)
(***************************************************************************)
Read(w) ==
  /\ At(w, "read")
  /\ task' = [task EXCEPT ![w].cert = file, ![w].pc = IF file.code = None THEN "paid" ELSE "judge"]
  /\ UNCHANGED <<plan, file, cache, paid, tampered, ready, probed, syncing, world>>

\* Who calls before the fingerprints are known waits 300 ms for them.
Sound(cert) == Signed(cert) /\ InLease(cert) /\ probed
TurnedBack(w) == At(w, "judge") /\ Sound(task[w].cert) /\ world.back
Judge(w) ==
  /\ At(w, "judge")
  /\ probed \/ May("slowProbe")
  /\ tampered' = (tampered \/ TurnedBack(w))                \* SetClockTampered(true)
  /\ paid' = IF TurnedBack(w) THEN None ELSE paid
  /\ \E due \in BOOLEAN:                   \* the last-seen stamp is a minute old
       Goto(w, IF ~Sound(task[w].cert) \/ world.back THEN "paid"
               ELSE IF due THEN "stamp" ELSE "accept")
  /\ UNCHANGED <<plan, file, cache, ready, probed, syncing, world>>

Stamp(w) ==                  \* merges with a newer certificate of the same code
  /\ At(w, "stamp")
  /\ LET cert == IF file.code = task[w].cert.code THEN file ELSE task[w].cert IN
     /\ file' = cert
     /\ task' = [task EXCEPT ![w].cert = cert, ![w].pc = "stampCache"]
  /\ UNCHANGED <<plan, cache, paid, tampered, ready, probed, syncing, world>>

StampCache(w) ==
  /\ At(w, "stampCache")
  /\ cache' = task[w].cert
  /\ Goto(w, "accept")
  /\ UNCHANGED <<plan, file, paid, tampered, ready, probed, syncing, world>>

Accept(w) ==                 \* SetClockTampered(false)
  /\ At(w, "accept")
  /\ tampered' = FALSE
  /\ task' = [task EXCEPT ![w].paid = task[w].cert.code, ![w].pc = "paid"]
  /\ UNCHANGED <<plan, file, cache, paid, ready, probed, syncing, world>>

(***************************************************************************)
(* SetPaidStatus writes the status and, in the limiter's SetPaidDetails,   *)
(* writes it a second time before the usage file.  What follows depends on *)
(* who called: a reset still has to tell the server, a sync that was told  *)
(* no returns an error, the lock of a sync is released.                    *)
(***************************************************************************)
SetPaid(w) ==
  /\ At(w, "paid")
  /\ paid' = task[w].paid
  /\ tampered' = (tampered /\ task[w].paid = None)
  /\ ready' = (ready \/ task[w].paid # None)
  /\ Goto(w, "details")
  /\ UNCHANGED <<plan, file, cache, probed, syncing, world>>

Refused(w) == syncing = w /\ task[w].wiping
Return(w) ==
  /\ task' = [task EXCEPT ![w].pc = IF Refused(w) THEN task[w].err ELSE task[w].next,
                          ![w].wiping = FALSE]
  /\ syncing' = IF syncing = w THEN None ELSE syncing

Details(w) ==
  /\ At(w, "details")
  /\ paid' = task[w].paid
  /\ IF task[w].wiping THEN Goto(w, "unbind") /\ UNCHANGED syncing ELSE Return(w)
  /\ UNCHANGED <<plan, file, cache, tampered, ready, probed, world>>

(***************************************************************************)
(* The callers of VerifyLocalLicense and of the sync.                      *)
(***************************************************************************)
Verified(w) ==                                   \* App.startup
  /\ At(w, "verified")
  /\ ready' = (ready \/ task[w].paid # None)
  /\ Goto(w, "idle")
  /\ UNCHANGED <<plan, file, cache, paid, tampered, probed, syncing, world>>

Enter(w, err) ==          \* a certificate is synchronised, none is asked for
  /\ cache' = Local
  /\ task' = [task EXCEPT ![w].pc = IF Local.code = None THEN "register" ELSE "lock",
                          ![w].next = "idle", ![w].err = err]

Booted(w) ==                                     \* the rest of PrecomputeDeviceFingerprints
  /\ At(w, "booted")
  /\ ready' = TRUE
  /\ Enter(w, "idle")
  /\ UNCHANGED <<plan, file, paid, tampered, probed, syncing, world>>

Refresh(w) ==                                    \* RefreshLicenseStatus
  /\ At(w, "choose")
  /\ Enter(w, "read")
  /\ UNCHANGED <<plan, file, paid, tampered, ready, probed, syncing, world>>

(***************************************************************************)
(* doOnlineLicenseSync(true): one at a time; the certificate it asks about *)
(* is the one it saw at its start.                                         *)
(***************************************************************************)
Lock(w) ==
  /\ At(w, "lock")
  /\ IF syncing # None THEN Goto(w, task[w].next) /\ UNCHANGED <<cache, syncing>>
     ELSE /\ cache' = Local
          /\ IF Signed(Local)
             THEN /\ syncing' = w
                  /\ task' = [task EXCEPT ![w].cert = Local, ![w].pc = "ask"]
             ELSE /\ UNCHANGED syncing
                  /\ Goto(w, IF Local.code = None THEN task[w].err ELSE "register")
  /\ UNCHANGED <<plan, file, paid, tampered, ready, probed, world>>

Ask(w) ==                                        \* the server reads the request
  /\ At(w, "ask")
  /\ \E answer \in (IF May("lost") THEN {"lost"} ELSE {})
                     \cup {IF task[w].cert.code \in world.bound THEN "ok" ELSE "gone"}:
       task' = [task EXCEPT ![w].answer = answer, ![w].pc = "apply",
                 ![w].cert = IF answer = "ok" THEN [@ EXCEPT !.epoch = world.epoch] ELSE @]
  /\ UNCHANGED <<plan, file, cache, paid, tampered, ready, probed, syncing, world>>

ApplyClosed(w) ==            \* mutant: no answer counts as unpaid
  /\ At(w, "apply")
  /\ CASE task[w].answer = "lost" -> Goto(w, "paid") /\ UNCHANGED syncing
       [] task[w].answer = "gone" -> Goto(w, "info") /\ UNCHANGED syncing
       [] task[w].answer = "ok" -> Goto(w, "write") /\ UNCHANGED syncing
  /\ UNCHANGED <<plan, file, cache, paid, tampered, ready, probed, world>>

Apply(w) ==
  /\ At(w, "apply")
  /\ CASE task[w].answer = "lost" ->
            Goto(w, task[w].err) /\ syncing' = None
       [] task[w].answer = "gone" ->             \* ResetLicense
            Goto(w, "info") /\ UNCHANGED syncing
       [] task[w].answer = "ok" ->
            Goto(w, "write") /\ UNCHANGED syncing
  /\ UNCHANGED <<plan, file, cache, paid, tampered, ready, probed, world>>

Write(w) ==                  \* of a sync, an activation or a restored certificate
  /\ At(w, "write")
  /\ file' = task[w].cert
  /\ Goto(w, "writeCache")
  /\ UNCHANGED <<plan, cache, paid, tampered, ready, probed, syncing, world>>

WriteCache(w) ==
  /\ At(w, "writeCache")
  /\ cache' = task[w].cert
  /\ tampered' = (tampered /\ syncing = w)
  /\ task' = [task EXCEPT ![w].paid = task[w].cert.code, ![w].pc = "paid"]
  /\ UNCHANGED <<plan, file, paid, ready, probed, syncing, world>>

(***************************************************************************)
(* activateLicenseOnlineInternal: the server binds the code first; its     *)
(* answer may still be lost.                                               *)
(***************************************************************************)
Activate(w) ==
  /\ At(w, "activate")
  /\ probed                    \* two identifiers at least
  /\ LET code == task[w].code IN
     IF code \in world.gone THEN Goto(w, "idle") /\ UNCHANGED world
     ELSE /\ world' = [world EXCEPT !.bound = @ \cup {code}]
          /\ \/ task' = [task EXCEPT ![w].cert = [code |-> code, epoch |-> world.epoch],
                                     ![w].pc = "write"]
             \/ May("lost") /\ Goto(w, "idle")
  /\ UNCHANGED <<plan, file, cache, paid, tampered, ready, probed, syncing>>

(***************************************************************************)
(* RegisterDeviceOnline: the answer may carry the certificate of a code    *)
(* that is bound to this device.                                           *)
(***************************************************************************)
Register(w) ==
  /\ At(w, "register")
  /\ probed
  /\ \/ \E code \in world.bound \ Foreign:
          task' = [task EXCEPT ![w].cert = [code |-> code, epoch |-> world.epoch],
                              ![w].pc = "write"]
     \/ world.bound \ Foreign = {} /\ Goto(w, "idle")
     \/ May("lost") /\ Goto(w, "idle")
  /\ UNCHANGED <<plan, file, cache, paid, tampered, ready, probed, syncing, world>>

(***************************************************************************)
(* ResetLicense, of the user or of a sync that was told no.                *)
(***************************************************************************)
Info(w) ==
  /\ At(w, "info")
  /\ task' = [task EXCEPT ![w].code = Local.code, ![w].paid = None, ![w].wiping = TRUE,
                          ![w].pc = "forget"]
  /\ cache' = Local
  /\ UNCHANGED <<plan, file, paid, tampered, ready, probed, syncing, world>>

Forget(w) ==
  /\ At(w, "forget")
  /\ cache' = NoCert
  /\ Goto(w, "remove")
  /\ UNCHANGED <<plan, file, paid, tampered, ready, probed, syncing, world>>

Remove(w) ==
  /\ At(w, "remove")
  /\ file' = NoCert
  /\ Goto(w, "paid")
  /\ UNCHANGED <<plan, cache, paid, tampered, ready, probed, syncing, world>>

Unbind(w) ==                 \* best effort, in a goroutine
  /\ At(w, "unbind")
  /\ world' = [world EXCEPT !.unbinds = @ \cup ({task[w].code} \ {None})]
  /\ Return(w)
  /\ UNCHANGED <<plan, file, cache, paid, tampered, ready, probed>>

(***************************************************************************)
(* The server and the clock.                                               *)
(***************************************************************************)
Deliver ==
  \E code \in world.unbinds:
    \/ world' = [world EXCEPT !.unbinds = @ \ {code}, !.bound = @ \ {code}]
    \/ May("lost") /\ world' = [world EXCEPT !.unbinds = @ \ {code}]

Revoke ==
  May("revoke") /\ \E code \in world.bound:
    world' = [world EXCEPT !.bound = @ \ {code}, !.gone = @ \cup {code}]

Lapse ==
  May("lapse") /\ world.epoch < MaxEpoch /\ world' = [world EXCEPT !.epoch = @ + 1]

TurnBack == May("back") /\ ~world.back /\ world' = [world EXCEPT !.back = TRUE]

World ==
  /\ Deliver \/ Revoke \/ Lapse \/ TurnBack
  /\ UNCHANGED <<plan, file, cache, paid, tampered, ready, probed, syncing, task>>

Quiet == \A w \in Worker: At(w, "idle")

Step(w) ==
  \/ Take(w) \/ Probe(w) \/ Read(w) \/ Judge(w) \/ Stamp(w) \/ StampCache(w) \/ Accept(w)
  \/ SetPaid(w) \/ Details(w) \/ Verified(w) \/ Booted(w) \/ Refresh(w)
  \/ Lock(w) \/ Ask(w) \/ Apply(w) \/ Write(w) \/ WriteCache(w)
  \/ Activate(w) \/ Register(w) \/ Info(w) \/ Forget(w) \/ Remove(w) \/ Unbind(w)

(***************************************************************************)
(* Properties.                                                             *)
(***************************************************************************)
\* A device whose certificate is good stays paid once it has started, whatever
\* the network does: the lease of seven days is for that.  (A usage record that
\* does not verify, ChatLimiter's Unverified, can still take the status away.)
LeaseHonoured ==
  Quiet /\ ready /\ ~world.back /\ file.code \in Codes \ Foreign /\ InLease(file)
    => paid = file.code

\* A certificate is wiped because of an answer of the server only if the server
\* has dropped that very certificate's code.
WipeDeserved ==
  [][\A w \in Worker:
       syncing = w /\ At(w, "remove") /\ task'[w].pc = "paid" /\ file.code # None
         => file.code \notin Foreign /\ file.code \notin world.bound]_licenceVars
=============================================================================
