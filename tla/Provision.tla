------------------------------ MODULE Provision -----------------------------
(***************************************************************************)
(* The device certificate for LAN-TLS: the private key and the certificate *)
(* of a node on disk, their migration from the old directory, the request  *)
(* to the certificate gateway, which binds a node to the first key it sees *)
(* (trust on first use), the rotation of the node identity when it refuses *)
(* the key, and the two callers of all this in the desktop program: the    *)
(* silent check at startup and the user's switch.  A key is a number in    *)
(* the order of generation; key 1 is the one an older installation made,   *)
(* Foreign is one the cloud knows and this machine has lost.               *)
(***************************************************************************)
EXTENDS Settings, FiniteSets

CONSTANTS MaxNode,    \* node identities: the rotations a run allows, plus one
          MaxKey,     \* keys ever generated
          Calls,      \* manual calls
          Crashes     \* crashes of the desktop program

ASSUME BoundsAssumption == /\ MaxNode \in Nat \ {0} /\ MaxKey \in Nat \ {0}
                           /\ Calls \in Nat /\ Crashes \in Nat

NoKey == 0
Foreign == MaxKey + 1
HalfKey == MaxKey + 2      \* a privkey.pem that does not parse: a copy not yet, or never, finished
Unreadable == MaxKey + 3   \* what reading one that is there gives when it cannot be read
Keys == 1..MaxKey
Nodes == 1..MaxNode
Ages == {"long", "soon", "expired"}     \* more than 15 days left, less, none
NoCert == [key |-> NoKey, age |-> "expired"]
Callers == {"silent", "manual"}
Movers == Callers \cup {"server"}
Nobody == "nobody"

VARIABLES conf,      \* the settings file
          node,      \* the node identity derived from the salt on disk
          legacy,    \* key and certificate in the old directory of node 1
          files,     \* key and certificate in the directory of each node
          registry,  \* the cloud: the key each node is bound to, and whether to a device
          device,    \* whether the program has an authority device id to present
          nextKey, cooling, mu, job, ui, saving, writer, calls, crashes,
          copy,      \* how far each process is in the migration of the old directory
          misread,   \* whether a call made a key in the place of one it could not use
          crossed    \* whether a server's copy wrote into the directory during the call

disk == <<conf, node, legacy, files, nextKey>>
cloud == <<registry, device>>
page == <<ui, saving, writer, calls>>
moves == <<copy, misread, crossed>>
vars == <<disk, cloud, cooling, mu, job, page, crashes, moves>>

\* whether other writers of the settings run while a manual call does
Overlap == "overlap" \in Faults

Idle == [pc |-> "off", node |-> 1, heal |-> FALSE, force |-> FALSE, key |-> NoKey, limited |-> FALSE]
Starting == [Idle EXCEPT !.pc = "first"]
NoFiles == [key |-> NoKey, cert |-> NoCert]

ProvisionInit ==
  /\ \E t \in Chosen : conf = [file |-> t, tmp |-> "none", old |-> "none", backup |-> "none"]
  /\ ui = Tls(conf)
  /\ \E a \in Ages, where \in {"nowhere", "old", "new"}, bound \in {NoKey, 1, Foreign}, dev \in BOOLEAN :
        LET owned == [key |-> 1, cert |-> [key |-> 1, age |-> a]] IN
        /\ bound = 1 => where # "nowhere"
        /\ legacy = IF where = "old" THEN owned ELSE NoFiles
        /\ files = [n \in Nodes |-> IF n = 1 /\ where = "new" THEN owned ELSE NoFiles]
        /\ device = dev
        /\ registry = [n \in Nodes |-> [key |-> IF n = 1 THEN bound ELSE NoKey, bound |-> n = 1 /\ dev /\ bound # NoKey]]
  /\ node = 1 /\ nextKey = 2 /\ cooling = FALSE /\ mu = Nobody
  /\ job = [c \in Callers |-> IF c = "silent" THEN Starting ELSE Idle]
  /\ saving = "no" /\ writer = "idle" /\ calls = 0 /\ crashes = 0
  /\ copy = [x \in Movers |-> "no"] /\ misread = FALSE /\ crossed = FALSE

OldKey(n) == IF n = 1 THEN legacy.key ELSE NoKey

\* GetDeviceCertificate succeeds
Served(f) == /\ f.key \in Keys
             /\ f.cert.key = f.key
             /\ f.cert.age # "expired"
Lasting(f) == Served(f) /\ f.cert.age = "long"

At(c, pc) == job[c].pc = pc
Go(c, pc) == job' = [job EXCEPT ![c].pc = pc]

\* A privkey.pem is looked for, and when there is none the old directory is
\* migrated: by a call, under its lock, and by a server that starts, under none
Missing(n) == files[n].key = NoKey /\ OldKey(n) # NoKey
Looking == {"check", "keys", "load", "save", "reload"}

Migrate(x) ==
  /\ copy[x] = "no"
  /\ IF x = "server" THEN Missing(node) ELSE job[x].pc \in Looking /\ Missing(job[x].node)
  /\ copy' = [copy EXCEPT ![x] = "cert"]
  /\ UNCHANGED <<disk, cloud, cooling, mu, job, page, crashes, misread, crossed>>

\* what a migration came to is not looked at: the caller goes on with what is there
Ended(x) == copy' = [copy EXCEPT ![x] = IF x = "server" THEN "no" ELSE "done"]
Crossing(x) == crossed' = (crossed \/ (x = "server" /\ mu # Nobody))
CopyLeaves == UNCHANGED <<conf, node, legacy, nextKey, cloud, cooling, mu, job, page, crashes, misread>>

\* the files in the order of their names, each truncated and then written; the
\* certificate is copied, or left cut short, or not touched
CopyCert(x) ==
  /\ copy[x] = "cert"
  /\ \/ files' = [files EXCEPT ![1].cert = legacy.cert] /\ copy' = [copy EXCEPT ![x] = "key"]
     \/ \E t \in {files[1].cert, NoCert} : files' = [files EXCEPT ![1].cert = t] /\ Ended(x)
  /\ Crossing(x) /\ CopyLeaves

\* the key is truncated, though another process may have written it by now
CutKey(x) ==
  /\ copy[x] = "key"
  /\ \/ files' = [files EXCEPT ![1].key = HalfKey] /\ copy' = [copy EXCEPT ![x] = "half"]
     \/ UNCHANGED files /\ Ended(x)
  /\ Crossing(x) /\ CopyLeaves

\* and written, or left cut short; a file that a new key was renamed over is
\* written in vain
WriteKey(x) ==
  /\ copy[x] = "half"
  /\ \E k \in {OldKey(1), HalfKey} :
       files' = IF files[1].key = HalfKey THEN [files EXCEPT ![1].key = k] ELSE files
  /\ Ended(x)
  /\ Crossing(x) /\ CopyLeaves

\* A caller has looked, and reads the directory now
Looked(c) == copy[c] = "done" \/ (copy[c] = "no" /\ ~Missing(job[c].node))
LookedOn(c) == copy' = [copy EXCEPT ![c] = "no"]

Reads(n) == IF files[n].key = NoKey THEN {NoKey} ELSE {files[n].key, Unreadable}
Seen(n, read) == [files[n] EXCEPT !.key = read]

\* LoadOrGenerateDeviceKey once it has looked: the key it returns (NoKey for an
\* error), whether it was made, and the next key
Loaded(k) == {[key |-> k, made |-> FALSE, next |-> nextKey]}
LoadFails == {[key |-> NoKey, made |-> FALSE, next |-> nextKey]}
\* mutant: the new key is used without being committed
MadeInMemory == {[key |-> k, made |-> FALSE, next |-> k + 1] : k \in {nextKey} \cap Keys}

\* a new key is committed by a rename
Made == LoadFails \cup {[key |-> k, made |-> TRUE, next |-> k + 1] : k \in {nextKey} \cap Keys}

\* mutant: a failed migration makes a new key
LoadKeyAlways(n, read) == IF read \in Keys THEN Loaded(read) ELSE Made

LoadKey(n, read) ==
  CASE read \in Keys -> Loaded(read)
    [] read = HalfKey -> Made
    [] read \in {NoKey, Unreadable} -> IF OldKey(n) # NoKey THEN LoadFails ELSE Made

\* A key file is there, and what was read of it makes a new key
Misread(n, read) == read = HalfKey \/ (read = Unreadable /\ OldKey(n) = NoKey)

KeyAfter(n, r) == IF r.made THEN r.key ELSE files[n].key

\* the startup goroutine: the settings before and after the grace delay
SilentReads ==
  /\ job["silent"].pc \in {"first", "second"}
  /\ \E r \in Readings(conf) :
       /\ conf' = r.conf
       /\ Go("silent", IF ~r.ok \/ ~Tls(r.conf) THEN "off"
                       ELSE IF At("silent", "first") THEN "second" ELSE "lock")
  /\ UNCHANGED <<node, legacy, files, nextKey, cloud, cooling, mu, page, crashes, moves>>

Enter(c) ==
  /\ At(c, "lock")
  /\ mu = Nobody
  /\ c = "manual" => Overlap \/ (saving = "no" /\ writer \notin Chosen)
  /\ mu' = c /\ crossed' = FALSE
  /\ job' = [job EXCEPT ![c] = [Idle EXCEPT !.pc = IF c = "silent" THEN "check" ELSE "guard",
                                            !.node = node, !.heal = TRUE, !.force = c = "manual"]]
  /\ UNCHANGED <<disk, cloud, cooling, page, crashes, copy, misread>>

\* mutant: only the date of the certificate is looked at
ReusableByDate(f) == f.cert.age = "long"

Reusable(f) == Lasting(f)

\* a certificate that is good for more than 15 days ends the silent check
Check(c) ==
  /\ At(c, "check") /\ Looked(c)
  /\ \E read \in Reads(job[c].node) : Go(c, IF Reusable(Seen(job[c].node, read)) THEN "ready" ELSE "guard")
  /\ LookedOn(c)
  /\ UNCHANGED <<disk, cloud, cooling, mu, page, crashes, misread, crossed>>

\* the cooldown the authority asked for
Guard(c) ==
  /\ At(c, "guard")
  /\ Go(c, IF cooling THEN "fail" ELSE "keys")
  /\ UNCHANGED <<disk, cloud, cooling, mu, page, crashes, moves>>

\* RequestDeviceCertificate: the same once more, and
Reuse(c) ==
  /\ At(c, "keys") /\ Looked(c)
  /\ \E read \in Reads(job[c].node) :
       IF Reusable(Seen(job[c].node, read)) THEN cooling' = FALSE /\ Go(c, "ready")
       ELSE Go(c, "load") /\ UNCHANGED cooling
  /\ LookedOn(c)
  /\ UNCHANGED <<disk, cloud, mu, page, crashes, misread, crossed>>

\* the key for the request
PrepareKey(c) ==
  /\ At(c, "load") /\ Looked(c)
  /\ LET n == job[c].node IN
     \E read \in Reads(n) : \E r \in LoadKey(n, read) :
       /\ files' = [files EXCEPT ![n].key = KeyAfter(n, r)]
       /\ nextKey' = r.next
       /\ misread' = (misread \/ Misread(n, read))
       /\ job' = [job EXCEPT ![c].pc = IF r.key = NoKey THEN "fail" ELSE "ask", ![c].key = r.key]
  /\ LookedOn(c)
  /\ UNCHANGED <<conf, node, legacy, cloud, cooling, mu, page, crashes, crossed>>

\* the gateway's binding of a node to its first key
Known(c) == registry[job[c].node]
Mismatched(c) == Known(c).key \notin {NoKey, job[c].key}
Rebound(c) == Known(c).bound /\ device
Refused(c) == Mismatched(c) /\ ~Rebound(c)
Binding(c) == IF Known(c).key = NoKey THEN [key |-> job[c].key, bound |-> device]
              ELSE [Known(c) EXCEPT !.key = job[c].key]

\* the request is lost, or refused by the authority's rate limit
AskInVain(c) ==
  /\ At(c, "ask")
  /\ \E limited \in BOOLEAN : job' = [job EXCEPT ![c].pc = "fail", ![c].limited = limited]
  /\ UNCHANGED <<disk, cloud, cooling, mu, page, crashes, moves>>

\* the request arrives; the binding is written after the answer and may fail,
\* and the answer may be lost
Ask(c) ==
  /\ At(c, "ask")
  /\ IF Refused(c)
     THEN Go(c, "mismatch") /\ UNCHANGED registry
     ELSE /\ \E b \in {Known(c), Binding(c)} : registry' = [registry EXCEPT ![job[c].node] = b]
          /\ \E answered \in BOOLEAN : Go(c, IF answered THEN "save" ELSE "fail")
  /\ UNCHANGED <<disk, device, cooling, mu, page, crashes, moves>>

\* SaveDeviceCertificate: the key is loaded again; the fallback signer's
\* certificate is not trusted and a file may not be writable
Save(c) ==
  /\ At(c, "save") /\ Looked(c)
  /\ LET n == job[c].node IN
     \E read \in Reads(n) : \E r \in LoadKey(n, read), kept \in BOOLEAN :
       LET done == kept /\ r.key = job[c].key IN
       /\ files' = [files EXCEPT ![n] =
                      [key  |-> KeyAfter(n, r),
                       cert |-> IF done THEN [key |-> r.key, age |-> "long"] ELSE files[n].cert]]
       /\ nextKey' = r.next
       /\ misread' = (misread \/ Misread(n, read))
       /\ Go(c, IF done THEN "reload" ELSE "fail")
  /\ LookedOn(c)
  /\ UNCHANGED <<conf, node, legacy, cloud, cooling, mu, page, crashes, crossed>>

\* and the certificate is read back before it is reported
Reload(c) ==
  /\ At(c, "reload") /\ Looked(c)
  /\ \E read \in Reads(job[c].node) :
       LET ok == Served(Seen(job[c].node, read)) IN
       /\ Go(c, IF ok THEN "ready" ELSE "fail")
       /\ cooling' = (cooling /\ ~ok)
  /\ LookedOn(c)
  /\ UNCHANGED <<disk, cloud, mu, page, crashes, misread, crossed>>

\* the node identity is rotated once per call and the request repeated under
\* the new one; the salt may not be writable
Mismatch(c) ==
  /\ At(c, "mismatch")
  /\ \/ /\ job[c].heal /\ node < MaxNode
        /\ node' = node + 1
        /\ job' = [job EXCEPT ![c].pc = "guard", ![c].node = node', ![c].heal = FALSE, ![c].force = TRUE]
     \/ Go(c, "fail") /\ UNCHANGED node
  /\ UNCHANGED <<conf, legacy, files, nextKey, cloud, cooling, mu, page, crashes, moves>>

Disables(c) == c = "manual" /\ Tls(conf)

\* a failure: the cooldown is noted, and a manual call turns the setting off on
\* disk (persistDisableTLS) before it tells anyone
Fail(c) ==
  /\ At(c, "fail")
  /\ cooling' = (cooling \/ job[c].limited)
  /\ IF Disables(c)
     THEN \E r \in Readings(conf) :
            IF r.ok THEN \E w \in Writings(r.conf, "off") : conf' = w.conf ELSE conf' = r.conf
     ELSE UNCHANGED conf
  /\ Go(c, "failed")
  /\ UNCHANGED <<node, legacy, files, nextKey, cloud, mu, page, crashes, moves>>

\* the event, and the end of the call; the page reads the settings again and
\* after a manual call shows the switch off
Finish(c) ==
  /\ job[c].pc \in {"ready", "failed"}
  /\ job' = [job EXCEPT ![c] = Idle]
  /\ mu' = IF mu = c THEN Nobody ELSE mu
  /\ ui' = IF At(c, "ready") \/ ~ui THEN ui ELSE c = "silent" /\ Tls(conf)
  /\ UNCHANGED <<disk, cloud, cooling, saving, writer, calls, crashes, moves>>

Quiet == mu = Nobody /\ At("manual", "off")

\* the switch: the settings are saved and, when it is turned on and no
\* certificate serves, a manual call is made, neither waiting for the other
Toggle ==
  /\ At("manual", "off") /\ saving = "no"
  /\ Overlap \/ writer \notin Chosen
  /\ calls < Calls
  /\ calls' = calls + 1
  /\ ui' = ~ui
  /\ saving' = IF ui' THEN "on" ELSE "off"
  /\ IF ui' /\ ~Served(files[node]) THEN Go("manual", "lock") ELSE UNCHANGED job
  /\ UNCHANGED <<disk, cloud, cooling, mu, writer, crashes, moves>>

\* the developer's button makes the call alone
DevProvision ==
  /\ At("manual", "off")
  /\ calls < Calls
  /\ calls' = calls + 1
  /\ Go("manual", "lock")
  /\ UNCHANGED <<disk, cloud, cooling, mu, ui, saving, writer, crashes, moves>>

\* SaveSettings writes what the page showed; without Overlap it lands before the call starts
SaveSettings ==
  /\ saving # "no"
  /\ saving' = "no"
  /\ \E w \in Writings(conf, saving) : conf' = w.conf
  /\ UNCHANGED <<node, legacy, files, nextKey, cloud, cooling, mu, job, ui, writer, calls, crashes, moves>>

\* the startup goroutine that records the version reads all settings and writes
\* them all back
ReadAll ==
  /\ writer = "idle"
  /\ Overlap \/ (Quiet /\ saving = "no")
  /\ \E r \in Readings(conf) :
       conf' = r.conf /\ writer' = IF ~r.ok THEN "done" ELSE IF Tls(r.conf) THEN "on" ELSE "off"
  /\ UNCHANGED <<node, legacy, files, nextKey, cloud, cooling, mu, job, ui, saving, calls, crashes, moves>>

WriteAll ==
  /\ writer \in Chosen
  /\ writer' = "done"
  /\ \E w \in Writings(conf, writer) : conf' = w.conf
  /\ UNCHANGED <<node, legacy, files, nextKey, cloud, cooling, mu, job, ui, saving, calls, crashes, moves>>

Older(cert) == CASE cert.age = "long" -> [cert EXCEPT !.age = "soon"]
                 [] OTHER -> [cert EXCEPT !.age = "expired"]

\* days pass between calls
Age ==
  /\ Quiet
  /\ files' = [n \in Nodes |-> [files[n] EXCEPT !.cert = Older(@)]]
  /\ legacy' = [legacy EXCEPT !.cert = Older(@)]
  /\ cooling' = FALSE
  /\ UNCHANGED <<conf, node, nextKey, cloud, mu, job, page, crashes, moves>>

Cooled == cooling /\ cooling' = FALSE /\ UNCHANGED <<disk, cloud, mu, job, page, crashes, moves>>

\* the settings file is edited by hand and no longer parses
Spoil ==
  /\ Quiet /\ saving = "no"
  /\ conf.file \in Chosen /\ conf.backup = "none"
  /\ conf' = [conf EXCEPT !.file = "bad"]
  /\ UNCHANGED <<node, legacy, files, nextKey, cloud, cooling, mu, job, page, crashes, moves>>

\* the settings a writer may be replacing just now
Wanted == ({saving, writer} \cap Chosen) \cup
          IF \E c \in Callers : At(c, "fail") /\ Disables(c) THEN {"off"} ELSE {}

\* the program is killed, perhaps while it replaces the settings or copies the
\* key, and starts again; a server may run in it or on its own
Crash ==
  /\ crashes < Crashes
  /\ crashes' = crashes + 1
  /\ conf' \in {conf} \cup UNION {Interrupted(conf, v) : v \in Wanted}
  /\ job' = [c \in Callers |-> IF c = "silent" THEN Starting ELSE Idle]
  /\ mu' = Nobody /\ cooling' = FALSE /\ saving' = "no" /\ writer' = "idle"
  /\ ui' = Tls(conf')
  /\ \E s \in {copy["server"], "no"} : copy' = [x \in Movers |-> IF x = "server" THEN s ELSE "no"]
  /\ UNCHANGED <<node, legacy, files, nextKey, cloud, calls, misread, crossed>>

Caller(c) == \/ Enter(c) \/ Check(c) \/ Guard(c) \/ Reuse(c) \/ PrepareKey(c) \/ Ask(c) \/ AskInVain(c)
             \/ Save(c) \/ Reload(c) \/ Mismatch(c) \/ Fail(c) \/ Finish(c)
Mover(x) == Migrate(x) \/ CopyCert(x) \/ CutKey(x) \/ WriteKey(x)

ProvisionNext ==
  \/ SilentReads
  \/ \E c \in Callers : Caller(c)
  \/ \E x \in Movers : Mover(x)
  \/ Toggle \/ DevProvision \/ SaveSettings \/ ReadAll \/ WriteAll
  \/ Age \/ Cooled \/ Spoil \/ Crash

ProvisionSpec == ProvisionInit /\ [][ProvisionNext]_vars

(***************************************************************************)
(* Properties                                                              *)
(***************************************************************************)
\* The key this machine can still use for a node
Owned(n) == IF files[n].key \in Keys THEN files[n].key ELSE OldKey(n)

\* A key the machine has for a node, in the new directory or still in the old
\* one, is not given up for another, whichever copy fails or is cut short,
\* whatever order a server and a call migrate in, across a crash: unless a call
\* read a file that was cut short, or could not read the one that is there and
\* there is no old one (provisioner.go: "REFUSE to silently generate a new key")
KeyKept == [][~misread' => \A n \in Nodes : Owned(n) # NoKey => Owned(n)' = Owned(n)]_vars

\* A machine whose key the cloud does not hold another one of keeps its node
\* identity: no lost answer, failed write, renewal or crash makes the cloud see
\* a second key and the program rotate the identity (app.go, self-healing); a
\* key file that was misread does
IdentityStays == ~misread /\ registry[1].key # Foreign => node = 1

\* When the page is told that the certificate is ready, the server that starts
\* next is served by it, under the node identity of that moment; unless a
\* server that started during the call copied the old directory over it
ReadyMeansServed ==
  \A c \in Callers : At(c, "ready") => job[c].node = node /\ (crossed \/ Served(files[node]))

\* Settings are replaced by settings or kept in another file, whichever of the
\* renames fails and wherever the program is killed (AtomicWriteConfigFile,
\* BackupCorruptConfigFile: zero data loss)
NothingLost ==
  [][conf.file \in Chosen \cup {"bad"} =>
       \/ conf'.file \in Chosen
       \/ conf.file \in {conf'.file, conf'.old, conf'.tmp, conf'.backup}
       \/ Spoil]_vars
=============================================================================
