--------------------------- MODULE ProvisionProofs ---------------------------
(***************************************************************************)
(* Theorems about Provision, for every number of node identities, of keys, *)
(* of calls and of crashes.                                                 *)
(***************************************************************************)
EXTENDS Provision, TLAPS

-----------------------------------------------------------------------------
(* Type correctness                                                         *)

Contents == {"on", "off", "bad", "empty", "none"}
ConfType == [file: Contents, tmp: Contents, old: Contents, backup: Contents]
Usable == Keys \cup {NoKey}
CertType == [key: Nat, age: Ages]
FileType == [key: Usable \cup {HalfKey}, cert: CertType]
BindType == [key: Usable \cup {Foreign}, bound: BOOLEAN]

Outside == {"off", "first", "second", "lock"}
Inside == {"check", "guard", "keys", "load", "ask", "save", "reload", "mismatch", "fail", "ready", "failed"}
JobType == [pc: Outside \cup Inside, node: Nodes, heal: BOOLEAN, force: BOOLEAN, key: Usable, limited: BOOLEAN]

Typed ==
  /\ conf \in ConfType
  /\ node \in Nodes
  /\ legacy \in [key: Usable, cert: CertType]
  /\ files \in [Nodes -> FileType]
  /\ registry \in [Nodes -> BindType]
  /\ device \in BOOLEAN
  /\ nextKey \in Nat
  /\ mu \in Callers \cup {Nobody}
  /\ job \in [Callers -> JobType]
  /\ saving \in Chosen \cup {"no"}
  /\ writer \in Chosen \cup {"idle", "done"}
  /\ copy \in [Movers -> {"no", "cert", "key", "half", "done"}]
  /\ misread \in BOOLEAN /\ crossed \in BOOLEAN

(* The special keys are none of those that were made.                       *)
LEMMA KeysApart ==
  /\ MaxKey \in Nat \ {0} /\ MaxNode \in Nat \ {0} /\ Keys \subseteq Nat /\ 1 \in Keys /\ 1 \in Nodes
  /\ NoKey \notin Keys /\ Foreign \notin Keys /\ HalfKey \notin Keys
  /\ Unreadable \notin Keys
  /\ NoKey # HalfKey /\ NoKey # Foreign /\ Foreign # HalfKey
  /\ Unreadable \notin {NoKey, HalfKey, Foreign}
BY BoundsAssumption DEF Keys, Nodes, NoKey, Foreign, HalfKey, Unreadable

(* Provision!LoadKey: a key is returned only when the directory holds it,   *)
(* or will; one is made only when what was read of the directory is no key, *)
(* and no old key waits to be migrated, or the file was misread.            *)
LEMMA LoadKeyIs ==
  ASSUME Typed, NEW n \in Nodes, NEW read \in Reads(n), NEW r \in LoadKey(n, read)
  PROVE  /\ r.key \in Usable /\ r.made \in BOOLEAN /\ r.next \in Nat
         /\ KeyAfter(n, r) \in Usable \cup {HalfKey}
         /\ r.key # NoKey => KeyAfter(n, r) = r.key /\ r.key \in Keys
         /\ r.made => r.key \in Keys
         /\ r.made => Misread(n, read) \/ (files[n].key = NoKey /\ OldKey(n) = NoKey)
         /\ ~r.made => KeyAfter(n, r) = files[n].key
<1>0. nextKey \in Nat /\ Keys \subseteq Nat /\ files[n].key \in Usable \cup {HalfKey} /\ NoKey \in Usable
  BY KeysApart DEF Typed, FileType, Usable
<1>1. read = files[n].key \/ (read = Unreadable /\ files[n].key # NoKey)
  BY DEF Reads
<1>2. read \in Keys \/ read = HalfKey \/ read \in {NoKey, Unreadable}
  BY <1>0, <1>1 DEF Usable
<1>3. ASSUME r \in LoadFails
      PROVE  r.key = NoKey /\ r.made = FALSE /\ r.next = nextKey
  BY <1>3 DEF LoadFails
<1>4. ASSUME r \in Made
      PROVE  \/ r.key = NoKey /\ r.made = FALSE /\ r.next = nextKey
             \/ r.key \in Keys /\ r.made = TRUE /\ r.next \in Nat
  <2>1. CASE r \in LoadFails
    BY <1>3, <2>1
  <2>2. CASE r \in {[key |-> k, made |-> TRUE, next |-> k + 1] : k \in {nextKey} \cap Keys}
    <3>1. PICK k \in {nextKey} \cap Keys : r = [key |-> k, made |-> TRUE, next |-> k + 1]
      BY <2>2
    <3>2. k + 1 \in Nat /\ k \in Keys
      BY <1>0, <3>1
    <3> QED BY <3>1, <3>2
  <2> QED BY <1>4, <2>1, <2>2 DEF Made
<1>5. CASE read \in Keys
  <2>1. read = files[n].key /\ r.key = read /\ r.made = FALSE /\ r.next = nextKey
    BY <1>1, <1>5, KeysApart DEF LoadKey, Loaded
  <2> QED BY <1>0, <1>5, <2>1 DEF KeyAfter, Usable
<1>6. CASE read = HalfKey
  <2>1. r \in Made /\ Misread(n, read)
    BY <1>6, KeysApart DEF LoadKey, Misread
  <2> QED BY <1>0, <1>4, <2>1, KeysApart DEF KeyAfter, Usable
<1>7. CASE read \in {NoKey, Unreadable} /\ OldKey(n) # NoKey
  <2>1. r \in LoadFails
    BY <1>7, KeysApart DEF LoadKey
  <2> QED BY <1>0, <1>3, <2>1 DEF KeyAfter
<1>8. CASE read \in {NoKey, Unreadable} /\ OldKey(n) = NoKey
  <2>1. r \in Made
    BY <1>8, KeysApart DEF LoadKey
  <2>2. Misread(n, read) \/ (files[n].key = NoKey /\ OldKey(n) = NoKey)
    BY <1>1, <1>8 DEF Misread
  <2> QED BY <1>0, <1>4, <2>1, <2>2, KeysApart DEF KeyAfter, Usable
<1> QED BY <1>2, <1>5, <1>6, <1>7, <1>8

(* What one writes of a migration, and what else the migration leaves.      *)
LEMMA MoverIs ==
  ASSUME Typed, NEW x \in Movers, Mover(x)
  PROVE  /\ copy' \in [Movers -> {"no", "cert", "key", "half", "done"}] /\ crossed' \in BOOLEAN
         /\ files' \in [Nodes -> FileType]
         /\ UNCHANGED <<conf, node, legacy, nextKey, cloud, cooling, mu, job, page, crashes, misread>>
         /\ crossed' = crossed \/ (crossed' = TRUE /\ x = "server")
         /\ x = "server" => crossed' = TRUE \/ mu = Nobody \/ UNCHANGED files
<1>0. /\ files \in [Nodes -> FileType] /\ 1 \in Nodes /\ legacy.cert \in CertType
      /\ OldKey(1) \in Usable /\ files[1] \in FileType /\ files[1].cert \in CertType
      /\ copy \in [Movers -> {"no", "cert", "key", "half", "done"}] /\ crossed \in BOOLEAN
  BY KeysApart DEF Typed, FileType, OldKey, Usable
<1>1. NoCert \in CertType
  BY DEF NoCert, CertType, Ages, NoKey
<1>2. ASSUME Ended(x) PROVE copy' \in [Movers -> {"no", "cert", "key", "half", "done"}]
  BY <1>0, <1>2 DEF Ended
<1>3. ASSUME Crossing(x)
      PROVE  /\ crossed' \in BOOLEAN /\ (crossed' = crossed \/ (crossed' = TRUE /\ x = "server"))
             /\ x = "server" => crossed' = TRUE \/ mu = Nobody
  BY <1>0, <1>3 DEF Crossing
<1>4. CASE Migrate(x)
  <2>1. copy' \in [Movers -> {"no", "cert", "key", "half", "done"}] /\ crossed' = crossed
    BY <1>0, <1>4 DEF Migrate
  <2> QED BY <1>0, <1>4, <2>1 DEF Migrate, disk
<1>5. CASE CopyCert(x)
  <2>1. PICK t \in CertType : files' = [files EXCEPT ![1].cert = t]
    BY <1>0, <1>1, <1>5 DEF CopyCert
  <2>2. [files[1] EXCEPT !.cert = t] \in FileType
    BY <1>0 DEF FileType
  <2>3. files' = [files EXCEPT ![1] = [files[1] EXCEPT !.cert = t]]
    BY <1>0, <2>1
  <2>4. files' \in [Nodes -> FileType]
    BY <1>0, <2>2, <2>3
  <2>5. copy' \in [Movers -> {"no", "cert", "key", "half", "done"}]
    BY <1>0, <1>2, <1>5 DEF CopyCert
  <2> QED BY <1>3, <1>5, <2>4, <2>5 DEF CopyCert, CopyLeaves
<1>6. ASSUME NEW k \in Usable \cup {HalfKey}, files' = [files EXCEPT ![1].key = k]
      PROVE  files' \in [Nodes -> FileType]
  <2>1. [files[1] EXCEPT !.key = k] \in FileType
    BY <1>0 DEF FileType
  <2>2. files' = [files EXCEPT ![1] = [files[1] EXCEPT !.key = k]]
    BY <1>0, <1>6
  <2> QED BY <1>0, <2>1, <2>2
<1>7. CASE CutKey(x)
  <2>1. files' \in [Nodes -> FileType]
    BY <1>0, <1>6, <1>7 DEF CutKey
  <2>2. copy' \in [Movers -> {"no", "cert", "key", "half", "done"}]
    BY <1>0, <1>2, <1>7 DEF CutKey
  <2> QED BY <1>3, <1>7, <2>1, <2>2 DEF CutKey, CopyLeaves
<1>8. CASE WriteKey(x)
  <2>1. PICK k \in {OldKey(1), HalfKey} :
          files' = IF files[1].key = HalfKey THEN [files EXCEPT ![1].key = k] ELSE files
    BY <1>8 DEF WriteKey
  <2>2. files' \in [Nodes -> FileType]
    BY <1>0, <1>6, <2>1
  <2>3. copy' \in [Movers -> {"no", "cert", "key", "half", "done"}]
    BY <1>2, <1>8 DEF WriteKey
  <2> QED BY <1>3, <1>8, <2>2, <2>3 DEF WriteKey, CopyLeaves
<1> QED BY <1>4, <1>5, <1>7, <1>8 DEF Mover

-----------------------------------------------------------------------------
(* The settings                                                             *)

(* Settings!Readings, Writings and Interrupted: what they leave is a        *)
(* configuration, and settings that were there are still settings, or are   *)
(* kept in one of the files.                                                *)
Keeps(c, d) == c.file \in Chosen \cup {"bad"} =>
                 d.file \in Chosen \/ c.file \in {d.file, d.old, d.tmp, d.backup}

LEMMA ExistsIs ==
  ASSUME NEW c \in ConfType
  PROVE  /\ Exists(c) \in ConfType /\ (c.file # "none" => Exists(c) = c)
         /\ Exists(c).file # "none"
BY DEF Exists, ConfType, Contents

LEMMA ReadingsKeep ==
  ASSUME NEW c \in ConfType, NEW r \in Readings(c)
  PROVE  /\ r.conf \in ConfType
         /\ c.file \in Chosen \cup {"bad"} => c.file \in {r.conf.file, r.conf.backup}
         /\ c.file \in Chosen => r.conf = c
         /\ c.file # "bad" => r.conf.backup = c.backup
         /\ c.file = "bad" /\ r.ok => r.conf.file = "empty" /\ r.conf.backup = "bad"
<1>1. CASE Exists(c).file = "bad"
  <2>1. c.file = "bad"
    BY <1>1, ExistsIs DEF Exists, ConfType, Contents
  <2>2. \/ r.conf = [c EXCEPT !.file = "empty", !.backup = c.file]
        \/ ~r.ok /\ r.conf \in {c, [c EXCEPT !.backup = c.file]}
    BY <1>1 DEF Readings, Healed, Result
  <2> QED BY <2>1, <2>2 DEF ConfType, Contents, Chosen
<1>2. CASE Exists(c).file # "bad"
  <2>1. r.conf = Exists(c) /\ c.file # "bad"
    BY <1>2, ExistsIs DEF Readings, Result, Exists
  <2>2. Exists(c).backup = c.backup
    BY DEF Exists, ConfType
  <2> QED BY <2>1, <2>2, ExistsIs DEF Chosen
<1> QED BY <1>1, <1>2

LEMMA WritingsKeep ==
  ASSUME NEW c \in ConfType, NEW v \in Chosen, NEW w \in Writings(c, v)
  PROVE  /\ w.conf \in ConfType /\ Keeps(c, w.conf)
         /\ c.file # "bad" => w.conf.backup = c.backup
<1>1. CASE "refused" \in Faults /\ w = Result(c, FALSE)
  BY <1>1 DEF Result, Keeps
<1>2. CASE \E r \in Readings(c) : w \in IF r.ok THEN Replaced(r.conf, v) ELSE {r}
  <2>1. PICK r \in Readings(c) : w \in IF r.ok THEN Replaced(r.conf, v) ELSE {r}
    BY <1>2
  <2>2. /\ r.conf \in ConfType
        /\ c.file \in Chosen \cup {"bad"} => c.file \in {r.conf.file, r.conf.backup}
        /\ c.file # "bad" => r.conf.backup = c.backup
    BY ReadingsKeep
  <2>3. CASE w = r
    BY <2>2, <2>3 DEF Keeps
  <2>4. CASE w \in Replaced(r.conf, v)
    <3>1. w.conf \in {[r.conf EXCEPT !.file = v], [r.conf EXCEPT !.tmp = v], Moved(r.conf, v)}
      BY <2>4 DEF Replaced, Result
    <3> QED BY <2>2, <3>1 DEF Moved, Keeps, ConfType, Contents, Chosen
  <2> QED BY <2>1, <2>3, <2>4
<1> DEFINE Some == UNION {IF r.ok THEN Replaced(r.conf, v) ELSE {r} : r \in Readings(c)}
           Refusal == IF "refused" \in Faults THEN {Result(c, FALSE)} ELSE {}
<1>3. Writings(c, v) = Some \cup Refusal
  BY DEF Writings
<1>4. CASE w \in Some
  <2>1. PICK S \in {IF r.ok THEN Replaced(r.conf, v) ELSE {r} : r \in Readings(c)} : w \in S
    BY <1>4
  <2> QED BY <1>2, <2>1
<1>5. CASE w \in Refusal
  BY <1>1, <1>5
<1> HIDE DEF Some, Refusal
<1> QED BY <1>3, <1>4, <1>5

LEMMA InterruptedKeep ==
  ASSUME NEW c \in ConfType, NEW v \in Chosen, NEW d \in Interrupted(c, v)
  PROVE  d \in ConfType /\ Keeps(c, d)
<1>1. Exists(c) \in ConfType /\ (c.file \in Chosen \cup {"bad"} => Exists(c).file = c.file)
  BY ExistsIs DEF Chosen
<1> QED BY <1>1 DEF Interrupted, Moved, Keeps, ConfType, Contents, Chosen

-----------------------------------------------------------------------------
LEMMA InitTyped == ProvisionInit => Typed
<1> SUFFICES ASSUME ProvisionInit PROVE Typed
  OBVIOUS
<1> USE KeysApart
<1>1. conf \in ConfType /\ saving \in Chosen \cup {"no"} /\ writer \in Chosen \cup {"idle", "done"}
  BY DEF ProvisionInit, ConfType, Contents, Chosen
<1>2. Idle \in JobType /\ Starting \in JobType
  BY DEF Idle, Starting, JobType, Outside, Usable
<1>3. job \in [Callers -> JobType] /\ mu = Nobody /\ node \in Nodes /\ nextKey \in Nat
  BY <1>2 DEF ProvisionInit
<1>4. NoFiles \in FileType /\ NoFiles \in [key: Usable, cert: CertType]
  BY DEF NoFiles, FileType, Usable, NoCert, CertType, Ages, NoKey
<1>5. PICK a \in Ages, where \in {"nowhere", "old", "new"}, bound \in {NoKey, 1, Foreign}, dev \in BOOLEAN :
        /\ legacy = IF where = "old" THEN [key |-> 1, cert |-> [key |-> 1, age |-> a]] ELSE NoFiles
        /\ files = [n \in Nodes |-> IF n = 1 /\ where = "new" THEN [key |-> 1, cert |-> [key |-> 1, age |-> a]] ELSE NoFiles]
        /\ device = dev
        /\ registry = [n \in Nodes |-> [key |-> IF n = 1 THEN bound ELSE NoKey, bound |-> n = 1 /\ dev /\ bound # NoKey]]
  BY DEF ProvisionInit
<1>6. /\ [key |-> 1, cert |-> [key |-> 1, age |-> a]] \in FileType
      /\ [key |-> 1, cert |-> [key |-> 1, age |-> a]] \in [key: Usable, cert: CertType]
  BY DEF FileType, Usable, CertType
<1>7. legacy \in [key: Usable, cert: CertType] /\ files \in [Nodes -> FileType] /\ device \in BOOLEAN
  BY <1>4, <1>5, <1>6
<1>8. registry \in [Nodes -> BindType]
  BY <1>5 DEF BindType, Usable
<1>9. copy \in [Movers -> {"no", "cert", "key", "half", "done"}] /\ misread \in BOOLEAN /\ crossed \in BOOLEAN
  BY DEF ProvisionInit
<1> QED BY <1>1, <1>3, <1>7, <1>8, <1>9 DEF Typed

(* What a step of a caller does to its record.                              *)
LEMMA GoIs ==
  ASSUME Typed, NEW c \in Callers, NEW p \in Outside \cup Inside, Go(c, p)
  PROVE  /\ job' \in [Callers -> JobType]
         /\ job'[c] = [job[c] EXCEPT !.pc = p]
         /\ \A d \in Callers : d # c => job'[d] = job[d]
BY DEF Typed, Go, JobType

LEMMA TypedStep == Typed /\ [ProvisionNext]_vars => Typed'
<1> SUFFICES ASSUME Typed, [ProvisionNext]_vars PROVE Typed'
  OBVIOUS
<1> USE DEF Typed
<1>f. ASSUME NEW n \in Nodes, NEW f \in FileType, files' = [files EXCEPT ![n] = f]
      PROVE  files' \in [Nodes -> FileType]
  BY <1>f
<1>1. CASE SilentReads
  <2>1. PICK r \in Readings(conf) :
          conf' = r.conf /\ Go("silent", IF ~r.ok \/ ~Tls(r.conf) THEN "off"
                                         ELSE IF At("silent", "first") THEN "second" ELSE "lock")
    BY <1>1 DEF SilentReads
  <2>2. conf' \in ConfType
    BY <2>1, ReadingsKeep
  <2>3. job' \in [Callers -> JobType]
    BY <2>1, GoIs DEF Callers, Outside
  <2> QED BY <1>1, <2>2, <2>3 DEF SilentReads, cloud, page, moves
<1>2. ASSUME NEW c \in Callers, Caller(c) PROVE Typed'
  <2> DEFINE n == job[c].node
  <2>0. job[c] \in JobType /\ job[c].node \in Nodes /\ job[c].pc \in Outside \cup Inside
    BY DEF JobType
  <2>l. LookedOn(c) => copy' \in [Movers -> {"no", "cert", "key", "half", "done"}]
    BY DEF LookedOn
  <2>1. CASE Enter(c)
    <3>1. mu' = c /\ crossed' = FALSE /\ UNCHANGED <<disk, cloud, cooling, page, crashes, copy, misread>>
      BY <2>1 DEF Enter
    <3>2. job' = [job EXCEPT ![c] = [Idle EXCEPT !.pc = IF c = "silent" THEN "check" ELSE "guard",
                                                 !.node = node, !.heal = TRUE, !.force = c = "manual"]]
      BY <2>1 DEF Enter
    <3>3. [Idle EXCEPT !.pc = IF c = "silent" THEN "check" ELSE "guard",
                       !.node = node, !.heal = TRUE, !.force = c = "manual"] \in JobType
      BY DEF Idle, JobType, Inside, Usable
    <3> QED BY <3>1, <3>2, <3>3 DEF disk, cloud, page, moves
  <2>2. CASE Check(c) \/ Reuse(c) \/ Reload(c)
    <3>1. PICK p \in {"ready", "guard", "load", "fail"} : Go(c, p)
      BY <2>2 DEF Check, Reuse, Reload
    <3>2. job' \in [Callers -> JobType]
      BY <3>1, GoIs DEF Inside
    <3>3. UNCHANGED <<disk, cloud, mu, page, misread, crossed>> /\ LookedOn(c)
      BY <2>2 DEF Check, Reuse, Reload
    <3> QED BY <2>l, <3>2, <3>3 DEF disk, cloud, page
  <2>3. CASE Guard(c)
    <3>1. Go(c, IF cooling THEN "fail" ELSE "keys") /\ UNCHANGED <<disk, cloud, mu, page, moves>>
      BY <2>3 DEF Guard
    <3>2. job' \in [Callers -> JobType]
      BY <3>1, GoIs DEF Inside
    <3> QED BY <3>1, <3>2 DEF disk, cloud, page, moves
  <2>4. CASE PrepareKey(c)
    <3>0. UNCHANGED <<conf, node, legacy, cloud, mu, page, crossed>> /\ LookedOn(c)
      BY <2>4 DEF PrepareKey
    <3>r. PICK read \in Reads(n) : \E r \in LoadKey(n, read) :
            /\ files' = [files EXCEPT ![n].key = KeyAfter(n, r)] /\ nextKey' = r.next
            /\ misread' = (misread \/ Misread(n, read))
            /\ job' = [job EXCEPT ![c].pc = IF r.key = NoKey THEN "fail" ELSE "ask", ![c].key = r.key]
      BY <2>4 DEF PrepareKey
    <3>1. PICK r \in LoadKey(n, read) :
            /\ files' = [files EXCEPT ![n].key = KeyAfter(n, r)] /\ nextKey' = r.next
            /\ misread' = (misread \/ Misread(n, read))
            /\ job' = [job EXCEPT ![c].pc = IF r.key = NoKey THEN "fail" ELSE "ask", ![c].key = r.key]
      BY <3>r
    <3>2. r.key \in Usable /\ KeyAfter(n, r) \in Usable \cup {HalfKey} /\ r.next \in Nat
      BY <2>0, LoadKeyIs
    <3>3. job' \in [Callers -> JobType]
      <4> DEFINE j == [job[c] EXCEPT !.pc = IF r.key = NoKey THEN "fail" ELSE "ask", !.key = r.key]
      <4>1. j \in JobType
        BY <2>0, <3>2 DEF JobType, Inside
      <4>2. job' = [job EXCEPT ![c] = j]
        BY <3>1
      <4> QED BY <4>1, <4>2
    <3>4. files' \in [Nodes -> FileType]
      <4> DEFINE f == [files[n] EXCEPT !.key = KeyAfter(n, r)]
      <4>1. f \in FileType
        BY <2>0, <3>2 DEF FileType
      <4>2. files' = [files EXCEPT ![n] = f]
        BY <2>0, <3>1
      <4> QED BY <2>0, <4>1, <4>2, <1>f
    <3>5. misread' \in BOOLEAN
      BY <3>1
    <3> QED BY <2>l, <3>0, <3>1, <3>2, <3>3, <3>4, <3>5 DEF cloud, page
  <2>5. CASE AskInVain(c)
    <3>1. PICK limited \in BOOLEAN : job' = [job EXCEPT ![c].pc = "fail", ![c].limited = limited]
      BY <2>5 DEF AskInVain
    <3>2. job' \in [Callers -> JobType]
      <4>1. [job[c] EXCEPT !.pc = "fail", !.limited = limited] \in JobType
        BY <2>0 DEF JobType, Inside
      <4>2. job' = [job EXCEPT ![c] = [job[c] EXCEPT !.pc = "fail", !.limited = limited]]
        BY <3>1
      <4> QED BY <4>1, <4>2
    <3> QED BY <2>5, <3>2 DEF AskInVain, disk, cloud, page, moves
  <2>6. CASE Ask(c)
    <3>0. UNCHANGED <<disk, device, mu, page, moves>>
      BY <2>6 DEF Ask
    <3>1. PICK p \in {"mismatch", "save", "fail"} : Go(c, p)
      BY <2>6 DEF Ask
    <3>2. job' \in [Callers -> JobType]
      BY <3>1, GoIs DEF Inside
    <3>3. Known(c) \in BindType /\ Binding(c) \in BindType
      <4>1. Known(c) \in BindType /\ job[c].key \in Usable
        BY <2>0 DEF Known, JobType
      <4> QED BY <4>1 DEF Binding, BindType
    <3>4. registry' \in [Nodes -> BindType]
      <4>1. UNCHANGED registry \/ \E b \in {Known(c), Binding(c)} : registry' = [registry EXCEPT ![job[c].node] = b]
        BY <2>6 DEF Ask
      <4> QED BY <3>3, <4>1
    <3> QED BY <3>0, <3>2, <3>4 DEF disk, page, moves
  <2>7. CASE Save(c)
    <3>0. UNCHANGED <<conf, node, legacy, cloud, mu, page, crossed>> /\ LookedOn(c)
      BY <2>7 DEF Save
    <3>r. PICK read \in Reads(n) : \E r \in LoadKey(n, read), kept \in BOOLEAN :
            LET done == kept /\ r.key = job[c].key IN
            /\ files' = [files EXCEPT ![n] =
                           [key |-> KeyAfter(n, r),
                            cert |-> IF done THEN [key |-> r.key, age |-> "long"] ELSE files[n].cert]]
            /\ nextKey' = r.next /\ misread' = (misread \/ Misread(n, read))
            /\ Go(c, IF done THEN "reload" ELSE "fail")
      BY <2>7 DEF Save
    <3>1. PICK r \in LoadKey(n, read), done \in BOOLEAN :
            /\ done => r.key = job[c].key
            /\ files' = [files EXCEPT ![n] =
                           [key |-> KeyAfter(n, r),
                            cert |-> IF done THEN [key |-> r.key, age |-> "long"] ELSE files[n].cert]]
            /\ nextKey' = r.next /\ misread' = (misread \/ Misread(n, read))
            /\ Go(c, IF done THEN "reload" ELSE "fail")
      BY <3>r
    <3>2. r.key \in Usable /\ KeyAfter(n, r) \in Usable \cup {HalfKey} /\ r.next \in Nat
      BY <2>0, LoadKeyIs
    <3>3. job' \in [Callers -> JobType]
      BY <3>1, GoIs DEF Inside
    <3>4. files' \in [Nodes -> FileType]
      <4> DEFINE f == [key |-> KeyAfter(n, r),
                       cert |-> IF done THEN [key |-> r.key, age |-> "long"] ELSE files[n].cert]
      <4>1. f \in FileType
        <5>1. files[n].cert \in CertType
          BY <2>0 DEF FileType
        <5>2. r.key \in Nat
          <6>1. Keys \subseteq Nat /\ NoKey \in Nat
            BY KeysApart DEF NoKey
          <6>2. r.key \in Keys \/ r.key = NoKey
            BY <3>2 DEF Usable
          <6> QED BY <6>1, <6>2
        <5>3. [key |-> r.key, age |-> "long"] \in CertType
          BY <5>2 DEF CertType, Ages
        <5>4. f.cert \in CertType
          BY <5>1, <5>3
        <5> QED BY <3>2, <5>4 DEF FileType
      <4> HIDE DEF f
      <4> QED BY <2>0, <3>1, <4>1, <1>f DEF f
    <3>5. misread' \in BOOLEAN
      BY <3>1
    <3> QED BY <2>l, <3>0, <3>1, <3>2, <3>3, <3>4, <3>5 DEF cloud, page
  <2>8. CASE Mismatch(c)
    <3>0. UNCHANGED <<conf, legacy, files, nextKey, cloud, mu, page, moves>>
      BY <2>8 DEF Mismatch
    <3>1. CASE /\ node < MaxNode /\ node' = node + 1
               /\ job' = [job EXCEPT ![c].pc = "guard", ![c].node = node', ![c].heal = FALSE, ![c].force = TRUE]
      <4>1. node' \in Nodes
        BY <3>1, KeysApart DEF Nodes
      <4>2. job' \in [Callers -> JobType]
        <5> DEFINE j == [job[c] EXCEPT !.pc = "guard", !.node = node', !.heal = FALSE, !.force = TRUE]
        <5>1. j \in JobType
          BY <2>0, <4>1 DEF JobType, Inside
        <5>2. job' = [job EXCEPT ![c] = j]
          BY <3>1
        <5> QED BY <5>1, <5>2
      <4> QED BY <3>0, <4>1, <4>2 DEF cloud, page, moves
    <3>2. CASE Go(c, "fail") /\ UNCHANGED node
      <4>1. job' \in [Callers -> JobType]
        BY <3>2, GoIs DEF Inside
      <4> QED BY <3>0, <3>2, <4>1 DEF cloud, page, moves
    <3> QED BY <2>8, <3>1, <3>2 DEF Mismatch
  <2>9. CASE Fail(c)
    <3>0. Go(c, "failed") /\ UNCHANGED <<node, legacy, files, nextKey, cloud, mu, page, moves>>
      BY <2>9 DEF Fail
    <3>1. job' \in [Callers -> JobType]
      BY <3>0, GoIs DEF Inside
    <3>2. conf' \in ConfType
      <4>1. CASE UNCHANGED conf
        BY <4>1
      <4>2. CASE \E r \in Readings(conf) :
                   IF r.ok THEN \E w \in Writings(r.conf, "off") : conf' = w.conf ELSE conf' = r.conf
        BY <4>2, ReadingsKeep, WritingsKeep DEF Chosen
      <4> QED BY <2>9, <4>1, <4>2 DEF Fail
    <3> QED BY <3>0, <3>1, <3>2 DEF cloud, page, moves
  <2>10. CASE Finish(c)
    <3>1. job' = [job EXCEPT ![c] = Idle] /\ mu' \in {mu, Nobody} /\ UNCHANGED <<disk, cloud, saving, writer, moves>>
      BY <2>10 DEF Finish
    <3>2. Idle \in JobType
      BY KeysApart DEF Idle, JobType, Outside, Usable
    <3> QED BY <3>1, <3>2 DEF disk, cloud, moves
  <2> QED BY <1>2, <2>1, <2>2, <2>3, <2>4, <2>5, <2>6, <2>7, <2>8, <2>9, <2>10 DEF Caller
<1>3. CASE Toggle \/ DevProvision
  <2>1. (Go("manual", "lock") \/ UNCHANGED job) /\ UNCHANGED <<disk, cloud, mu, writer, moves>>
        /\ saving' \in {saving, "on", "off"}
    BY <1>3 DEF Toggle, DevProvision
  <2>2. Go("manual", "lock") => job' \in [Callers -> JobType]
    BY GoIs DEF Callers, Outside
  <2> QED BY <2>1, <2>2 DEF disk, cloud, Chosen, moves
<1>4. CASE SaveSettings
  <2>1. PICK w \in Writings(conf, saving) : conf' = w.conf
    BY <1>4 DEF SaveSettings
  <2>2. saving \in Chosen /\ saving' = "no"
    BY <1>4 DEF SaveSettings
  <2>3. conf' \in ConfType
    BY <2>1, <2>2, WritingsKeep
  <2> QED BY <1>4, <2>2, <2>3 DEF SaveSettings, cloud, moves
<1>5. CASE ReadAll
  <2>1. PICK r \in Readings(conf) :
          conf' = r.conf /\ writer' = IF ~r.ok THEN "done" ELSE IF Tls(r.conf) THEN "on" ELSE "off"
    BY <1>5 DEF ReadAll
  <2>2. conf' \in ConfType /\ writer' \in Chosen \cup {"idle", "done"}
    BY <2>1, ReadingsKeep DEF Chosen
  <2> QED BY <1>5, <2>2 DEF ReadAll, cloud, moves
<1>6. CASE WriteAll
  <2>1. PICK w \in Writings(conf, writer) : conf' = w.conf
    BY <1>6 DEF WriteAll
  <2>2. writer \in Chosen /\ writer' = "done"
    BY <1>6 DEF WriteAll
  <2>3. conf' \in ConfType
    BY <2>1, <2>2, WritingsKeep
  <2> QED BY <1>6, <2>2, <2>3 DEF WriteAll, cloud, moves
<1>7. ASSUME NEW x \in Movers, Mover(x) PROVE Typed'
  BY <1>7, MoverIs DEF cloud, page
<1>8. CASE Age
  <2>1. ASSUME NEW k \in CertType PROVE Older(k) \in CertType
    BY <2>1 DEF Older, CertType, Ages
  <2>2. \A n \in Nodes : files[n] \in FileType /\ files[n].cert \in CertType
    BY DEF FileType
  <2>3. /\ files' = [n \in Nodes |-> [files[n] EXCEPT !.cert = Older(@)]]
        /\ legacy' = [legacy EXCEPT !.cert = Older(@)] /\ UNCHANGED <<conf, node, nextKey, cloud, mu, job, page, moves>>
    BY <1>8 DEF Age
  <2>4. \A n \in Nodes : [files[n] EXCEPT !.cert = Older(@)] \in FileType
    BY <2>1, <2>2 DEF FileType
  <2>5. files' \in [Nodes -> FileType]
    BY <2>3, <2>4
  <2>6. legacy' \in [key: Usable, cert: CertType]
    BY <2>1, <2>3
  <2> QED BY <2>3, <2>5, <2>6 DEF cloud, page, moves
<1>9. CASE Cooled
  BY <1>9 DEF Cooled, disk, cloud, page, moves
<1>10. CASE Spoil
  <2>1. conf' \in ConfType
    BY <1>10 DEF Spoil, ConfType, Contents
  <2> QED BY <1>10, <2>1 DEF Spoil, cloud, page, moves
<1>11. CASE Crash
  <2>1. conf' \in {conf} \cup UNION {Interrupted(conf, v) : v \in Wanted}
    BY <1>11 DEF Crash
  <2>2. Wanted \subseteq Chosen
    BY DEF Wanted, Chosen
  <2>3. conf' \in ConfType
    BY <2>1, <2>2, InterruptedKeep
  <2>4. Idle \in JobType /\ Starting \in JobType
    BY KeysApart DEF Idle, Starting, JobType, Outside, Usable
  <2>5. job' \in [Callers -> JobType]
    BY <1>11, <2>4 DEF Crash
  <2>6. copy' \in [Movers -> {"no", "cert", "key", "half", "done"}]
    <3>1. PICK s \in {copy["server"], "no"} : copy' = [x \in Movers |-> IF x = "server" THEN s ELSE "no"]
      BY <1>11 DEF Crash
    <3>2. s \in {"no", "cert", "key", "half", "done"}
      BY DEF Movers
    <3> QED BY <3>1, <3>2
  <2> QED BY <1>11, <2>3, <2>5, <2>6 DEF Crash, cloud, moves
<1>12. CASE UNCHANGED vars
  BY <1>12 DEF vars, disk, cloud, page, moves
<1> QED BY <1>1, <1>2, <1>3, <1>4, <1>5, <1>6, <1>7, <1>8, <1>9, <1>10, <1>11, <1>12 DEF ProvisionNext
-----------------------------------------------------------------------------
(* The certificate that is ready *)

(* provisionMu: a caller that has entered is the only one, works for the    *)
(* node identity of the moment with a key that can be used, migrates only   *)
(* while it looks for the key, and reports a certificate that serves unless *)
(* a server that started meanwhile copied over it.                          *)
LockInv ==
  \A c \in Callers :
    /\ job[c].pc \in Inside =>
         /\ mu = c /\ job[c].node = node
         /\ job[c].pc \in {"ask", "save", "mismatch"} => job[c].key \in Keys
         /\ job[c].pc = "ready" => crossed \/ Served(files[node])
    /\ copy[c] # "no" => job[c].pc \in Looking

LEMMA LockStep == Typed /\ LockInv /\ [ProvisionNext]_vars => LockInv'
<1> SUFFICES ASSUME Typed, LockInv, [ProvisionNext]_vars PROVE LockInv'
  OBVIOUS
<1>0. job \in [Callers -> JobType] /\ files \in [Nodes -> FileType] /\ node \in Nodes
  BY DEF Typed
<1>a. ASSUME UNCHANGED <<mu, node, files, copy, crossed>>,
             \A c \in Callers : job'[c].pc \in Inside => job'[c] = job[c],
             \A c \in Callers : job[c].pc \in Looking => job'[c] = job[c]
      PROVE  LockInv'
  BY <1>a DEF LockInv, Served
<1>l. Looking \subseteq Inside /\ Looking \cap {"ask", "mismatch", "ready"} = {}
  BY DEF Looking, Inside
<1>g. ASSUME NEW c \in Callers, NEW p \in Outside \cup Inside, Go(c, p)
      PROVE  job'[c].pc = p /\ job'[c].key = job[c].key /\ job'[c].node = job[c].node
             /\ (\A d \in Callers : d # c => job'[d] = job[d])
  <2>1. job[c] \in JobType
    BY <1>0
  <2>2. job'[c] = [job[c] EXCEPT !.pc = p] /\ (\A d \in Callers : d # c => job'[d] = job[d])
    BY <1>g, GoIs
  <2> QED BY <2>1, <2>2 DEF JobType
<1>1. CASE SilentReads
  <2>1. PICK p \in {"off", "second", "lock"} : Go("silent", p)
    BY <1>1 DEF SilentReads
  <2>2. \A c \in Callers : job'[c].pc \in Inside => job'[c] = job[c]
    BY <2>1, <1>g DEF Callers, Outside, Inside
  <2>3. job["silent"].pc \notin Looking
    BY <1>1 DEF SilentReads, Looking
  <2>4. \A c \in Callers : job[c].pc \in Looking => job'[c] = job[c]
    BY <2>1, <2>3, <1>g DEF Callers, Outside
  <2> QED BY <1>1, <1>a, <2>2, <2>4 DEF SilentReads, page, moves
<1>2. ASSUME NEW c \in Callers, Caller(c) PROVE LockInv'
  <2> DEFINE n == job[c].node
  <2>0. job[c] \in JobType /\ n \in Nodes
    BY <1>0 DEF JobType
  <2>a. ASSUME job[c].pc \in Inside
        PROVE  mu = c /\ n = node /\ (\A d \in Callers : d # c => job[d].pc \notin Inside)
    BY <2>a DEF LockInv
  <2>b. ASSUME job[c].pc \in Inside, \A d \in Callers : d # c => job'[d] = job[d],
               \A d \in Callers : d # c => copy'[d] = copy[d],
               copy'[c] # "no" => job'[c].pc \in Looking,
               job'[c].pc \in Inside => /\ mu' = c /\ job'[c].node = node'
                                        /\ job'[c].pc \in {"ask", "save", "mismatch"} => job'[c].key \in Keys
                                        /\ job'[c].pc = "ready" => crossed' \/ Served(files'[node'])
        PROVE  LockInv'
    BY <2>a, <2>b DEF LockInv, Served
  <2>c. ASSUME job[c].pc \notin Looking, copy' = copy
        PROVE  copy'[c] = "no" /\ \A d \in Callers : copy'[d] = copy[d]
    BY <2>c DEF LockInv
  <2>d. ASSUME LookedOn(c)
        PROVE  copy'[c] = "no" /\ \A d \in Callers : d # c => copy'[d] = copy[d]
    <3>1. copy \in [Movers -> {"no", "cert", "key", "half", "done"}] /\ c \in Movers
      BY DEF Typed, Movers
    <3> QED BY <2>d, <3>1 DEF LookedOn, Movers
  <2>1. CASE Enter(c)
    <3>1. mu = Nobody /\ mu' = c /\ UNCHANGED <<node, files, copy>>
      BY <2>1 DEF Enter, disk
    <3>6. job[c].pc = "lock"
      BY <2>1 DEF Enter, At
    <3> DEFINE j == [Idle EXCEPT !.pc = IF c = "silent" THEN "check" ELSE "guard",
                                 !.node = node, !.heal = TRUE, !.force = c = "manual"]
    <3>2. job' = [job EXCEPT ![c] = j]
      BY <2>1 DEF Enter
    <3>3. j.pc \in {"check", "guard"} /\ j.node = node
      BY DEF Idle
    <3>4. \A d \in Callers : job[d].pc \notin Inside
      BY <3>1 DEF LockInv, Callers, Nobody
    <3>5. job'[c] = j /\ \A d \in Callers : d # c => job'[d] = job[d]
      BY <1>0, <3>2
    <3> HIDE DEF j
    <3>7. copy[c] = "no"
      BY <3>6 DEF LockInv, Looking
    <3> QED BY <3>1, <3>3, <3>4, <3>5, <3>7 DEF LockInv
  <2>2. CASE Check(c) \/ Reuse(c) \/ Reload(c)
    <3>1. job[c].pc \in Inside /\ UNCHANGED <<mu, node, files>> /\ LookedOn(c)
      BY <2>2 DEF Check, Reuse, Reload, At, Inside, disk
    <3>2. PICK p \in {"ready", "guard", "load", "fail"} :
            Go(c, p) /\ (p = "ready" => \E read \in Reads(n) : Served(Seen(n, read)))
      BY <2>2 DEF Check, Reuse, Reload, Reusable, Lasting
    <3>3. ASSUME NEW read \in Reads(n), Served(Seen(n, read)) PROVE Served(files[n])
      <4>1. files[n] \in FileType
        BY <1>0, <2>0
      <4>2. read = files[n].key
        BY <3>3, <4>1, KeysApart DEF Served, Seen, Reads, FileType
      <4> QED BY <3>3, <4>1, <4>2 DEF Served, Seen, FileType
    <3>4. job'[c].pc = p /\ job'[c].node = n /\ \A d \in Callers : d # c => job'[d] = job[d]
      BY <3>2, <1>g DEF Inside
    <3>5. p = "ready" => Served(files'[node'])
      BY <2>a, <3>1, <3>2, <3>3 DEF Served
    <3> QED BY <2>a, <2>b, <2>d, <3>1, <3>4, <3>5
  <2>3. CASE Guard(c)
    <3>1. PICK p \in {"fail", "keys"} : Go(c, p)
      BY <2>3 DEF Guard
    <3>2. job[c].pc \in Inside /\ job[c].pc \notin Looking /\ UNCHANGED <<mu, node, copy>>
      BY <2>3 DEF Guard, At, Inside, Looking, disk, moves
    <3> QED BY <2>a, <2>b, <2>c, <3>1, <3>2, <1>g DEF Inside
  <2>4. CASE PrepareKey(c)
    <3>0. job[c].pc \in Inside /\ UNCHANGED <<mu, node>> /\ LookedOn(c)
      BY <2>4 DEF PrepareKey, At, Inside
    <3>r. PICK read \in Reads(n) : \E r \in LoadKey(n, read) :
            job' = [job EXCEPT ![c].pc = IF r.key = NoKey THEN "fail" ELSE "ask", ![c].key = r.key]
      BY <2>4 DEF PrepareKey
    <3>1. PICK r \in LoadKey(n, read) :
            job' = [job EXCEPT ![c].pc = IF r.key = NoKey THEN "fail" ELSE "ask", ![c].key = r.key]
      BY <3>r
    <3>2. r.key # NoKey => r.key \in Keys
      BY <2>0, LoadKeyIs
    <3>3. /\ job'[c].pc = IF r.key = NoKey THEN "fail" ELSE "ask"
          /\ job'[c].key = r.key /\ job'[c].node = n
          /\ \A d \in Callers : d # c => job'[d] = job[d]
      BY <1>0, <2>0, <3>1 DEF JobType
    <3> QED BY <2>a, <2>b, <2>d, <3>0, <3>2, <3>3
  <2>5. CASE AskInVain(c)
    <3>1. job[c].pc \in Inside /\ job[c].pc \notin Looking /\ UNCHANGED <<mu, node, copy>>
      BY <2>5 DEF AskInVain, At, Inside, Looking, disk, moves
    <3>2. PICK limited \in BOOLEAN : job' = [job EXCEPT ![c].pc = "fail", ![c].limited = limited]
      BY <2>5 DEF AskInVain
    <3>3. job'[c].pc = "fail" /\ job'[c].node = n /\ \A d \in Callers : d # c => job'[d] = job[d]
      BY <1>0, <2>0, <3>2 DEF JobType
    <3> QED BY <2>a, <2>b, <2>c, <3>1, <3>3
  <2>6. CASE Ask(c)
    <3>1. job[c].pc = "ask" /\ UNCHANGED <<mu, node, copy>>
      BY <2>6 DEF Ask, At, disk, moves
    <3>2. PICK p \in {"mismatch", "save", "fail"} : Go(c, p)
      BY <2>6 DEF Ask
    <3>3. job[c].key \in Keys /\ job[c].pc \in Inside /\ job[c].pc \notin Looking
      BY <3>1 DEF LockInv, Inside, Looking
    <3> QED BY <2>a, <2>b, <2>c, <3>1, <3>2, <3>3, <1>g DEF Inside
  <2>7. CASE Save(c)
    <3>0. job[c].pc \in Inside /\ UNCHANGED <<mu, node>> /\ LookedOn(c)
      BY <2>7 DEF Save, At, Inside
    <3>1. PICK p \in {"reload", "fail"} : Go(c, p)
      BY <2>7 DEF Save
    <3>2. job'[c].pc = p /\ job'[c].node = n /\ \A d \in Callers : d # c => job'[d] = job[d]
      BY <3>1, <1>g DEF Inside
    <3> QED BY <2>a, <2>b, <2>d, <3>0, <3>2
  <2>8. CASE Mismatch(c)
    <3>0. job[c].pc \in Inside /\ job[c].pc \notin Looking /\ UNCHANGED <<mu, copy>>
      BY <2>8 DEF Mismatch, At, Inside, Looking, moves
    <3>1. CASE job' = [job EXCEPT ![c].pc = "guard", ![c].node = node', ![c].heal = FALSE, ![c].force = TRUE]
      <4>1. job'[c].pc = "guard" /\ job'[c].node = node' /\ \A d \in Callers : d # c => job'[d] = job[d]
        BY <1>0, <2>0, <3>1 DEF JobType
      <4> QED BY <2>a, <2>b, <2>c, <3>0, <4>1
    <3>2. CASE Go(c, "fail") /\ UNCHANGED node
      BY <2>a, <2>b, <2>c, <3>0, <3>2, <1>g DEF Inside
    <3> QED BY <2>8, <3>1, <3>2 DEF Mismatch
  <2>9. CASE Fail(c)
    <3>1. job[c].pc \in Inside /\ job[c].pc \notin Looking /\ UNCHANGED <<mu, node, copy>> /\ Go(c, "failed")
      BY <2>9 DEF Fail, At, Inside, Looking, moves
    <3> QED BY <2>a, <2>b, <2>c, <3>1, <1>g DEF Inside
  <2>10. CASE Finish(c)
    <3>1. job[c].pc \in Inside /\ job[c].pc \notin Looking /\ UNCHANGED copy
      BY <2>10 DEF Finish, Inside, Looking, moves
    <3>2. job'[c] = Idle /\ \A d \in Callers : d # c => job'[d] = job[d]
      BY <1>0, <2>10 DEF Finish
    <3> QED BY <2>b, <2>c, <3>1, <3>2 DEF Idle, Inside
  <2> QED BY <1>2, <2>1, <2>2, <2>3, <2>4, <2>5, <2>6, <2>7, <2>8, <2>9, <2>10 DEF Caller
<1>3. CASE Toggle \/ DevProvision
  <2>1. Go("manual", "lock") => \A c \in Callers : job'[c].pc \in Inside => job'[c] = job[c]
    BY <1>g DEF Callers, Outside, Inside
  <2>2. job["manual"].pc = "off"
    BY <1>3 DEF Toggle, DevProvision, At
  <2>3. Go("manual", "lock") => \A c \in Callers : job[c].pc \in Looking => job'[c] = job[c]
    BY <1>g, <2>2 DEF Callers, Outside, Looking
  <2> QED BY <1>3, <1>a, <2>1, <2>3 DEF Toggle, DevProvision, disk, moves
<1>4. ASSUME NEW x \in Movers, Mover(x) PROVE LockInv'
  <2>1. /\ UNCHANGED <<mu, node, job>> /\ (crossed' = crossed \/ crossed' = TRUE)
        /\ x = "server" => crossed' = TRUE \/ mu = Nobody \/ UNCHANGED files
    BY <1>4, MoverIs
  <2>2. \A y \in Movers : y # x => copy'[y] = copy[y]
    BY <1>4 DEF Mover, Migrate, CopyCert, CutKey, WriteKey, Ended, Typed
  <2>3. CASE x = "server"
    <3>1. \A c \in Callers : copy'[c] = copy[c]
      BY <2>2, <2>3 DEF Movers, Callers
    <3>2. mu = Nobody => \A c \in Callers : job[c].pc \notin Inside
      BY DEF LockInv, Callers, Nobody
    <3> QED BY <2>1, <2>3, <3>1, <3>2 DEF LockInv, Served
  <2>4. CASE x \in Callers
    <3>1. job[x].pc \in Looking
      <4>1. Migrate(x) => job[x].pc \in Looking
        BY <2>4 DEF Migrate, Callers
      <4>2. ~Migrate(x) => copy[x] # "no"
        BY <1>4 DEF Mover, CopyCert, CutKey, WriteKey
      <4> QED BY <2>4, <4>1, <4>2 DEF LockInv
    <3>2. mu = x /\ job[x].pc # "ready"
      BY <1>l, <2>4, <3>1 DEF LockInv
    <3>3. \A c \in Callers : c # x => job[c].pc \notin Inside /\ copy'[c] = copy[c]
      BY <2>2, <3>2 DEF LockInv, Movers
    <3> QED BY <2>1, <2>4, <3>1, <3>2, <3>3 DEF LockInv
  <2> QED BY <2>3, <2>4 DEF Movers
<1>5. CASE Age
  <2>1. \A c \in Callers : job[c].pc \notin Inside
    BY <1>5 DEF Age, Quiet, LockInv, Callers, Nobody
  <2> QED BY <1>5, <2>1 DEF Age, LockInv, moves
<1>6. CASE Crash
  <2>1. \A c \in Callers : job'[c].pc \in {"first", "off"}
    BY <1>6 DEF Crash, Idle, Starting
  <2>2. \A c \in Callers : copy'[c] = "no"
    BY <1>6 DEF Crash, Callers, Movers
  <2> QED BY <2>1, <2>2 DEF LockInv, Inside
<1>7. CASE SaveSettings \/ ReadAll \/ WriteAll \/ Cooled \/ Spoil \/ UNCHANGED vars
  BY <1>7, <1>a DEF SaveSettings, ReadAll, WriteAll, Cooled, Spoil, vars, disk, moves
<1> QED BY <1>1, <1>2, <1>3, <1>4, <1>5, <1>6, <1>7 DEF ProvisionNext

(* Provision!ReadyMeansServed: when the page is told that the certificate   *)
(* is ready, the server that starts next is served by it, whatever fails,   *)
(* unless one that started during the call copied the old directory over it. *)
THEOREM ReadyIsServed == ProvisionSpec => []ReadyMeansServed
<1>1. ProvisionInit => LockInv
  <2> SUFFICES ASSUME ProvisionInit PROVE \A c \in Callers : job[c].pc \notin Inside /\ copy[c] = "no"
    BY DEF LockInv
  <2> QED BY DEF ProvisionInit, Idle, Starting, Inside, Movers
<1>2. Typed /\ LockInv /\ [ProvisionNext]_vars => LockInv'
  BY LockStep
<1>3. LockInv => ReadyMeansServed
  BY DEF LockInv, ReadyMeansServed, At, Inside
<1> QED BY InitTyped, TypedStep, <1>1, <1>2, <1>3, PTL DEF ProvisionSpec

-----------------------------------------------------------------------------
(* The key and the identity *)

(* A directory holds the key there is to migrate, or none; a file that is   *)
(* cut short stands for one that was being migrated.                        *)
KeptInv ==
  \A n \in Nodes : /\ OldKey(n) # NoKey /\ files[n].key \in Keys => files[n].key = OldKey(n)
                   /\ files[n].key = HalfKey => OldKey(n) # NoKey

(* What is migrated is there.                                               *)
CopyInv == \A x \in Movers : copy[x] \in {"cert", "key", "half"} => OldKey(1) # NoKey

(* A request is made with the key this machine has for the node.            *)
Asking == {"ask", "save", "mismatch"}
AskInv == \A c \in Callers : job[c].pc \in Asking => Owned(job[c].node) = job[c].key

(* The cloud knows the first node by the key this machine has for it; the   *)
(* identity was rotated, or is about to be, only because it knows it by a   *)
(* key that this machine has lost, and it will not be persuaded.            *)
Rotating == node # 1 \/ \E c \in Callers : job[c].pc = "mismatch" /\ job[c].node = 1
IdInv ==
  /\ registry[1].key \in Keys => registry[1].key = Owned(1)
  /\ Rotating => registry[1].key = Foreign /\ ~(registry[1].bound /\ device)

KeyInv == KeptInv /\ AskInv /\ IdInv
OwnedKept == \A n \in Nodes : Owned(n) # NoKey => Owned(n)' = Owned(n)

(* Owned after a step, for a node that is named before it.                  *)
NowOwned(m) == IF files'[m].key \in Keys THEN files'[m].key ELSE IF m = 1 THEN legacy'.key ELSE NoKey

LEMMA NowOwnedIs == \A m \in Nodes : Owned(m)' = NowOwned(m)
BY DEF Owned, OldKey, NowOwned

(* What a step may make of the key in a directory: leave it, cut it short   *)
(* or copy the old one when there is one, make one when there is none.      *)
KeptBy(n, k) == /\ k \in Usable \cup {HalfKey}
                /\ files[n].key \in Keys => k = files[n].key \/ (k = HalfKey /\ OldKey(n) # NoKey)
                /\ OldKey(n) # NoKey /\ k \in Keys => k = OldKey(n)
                /\ k = HalfKey => OldKey(n) # NoKey

(* A key that is known is kept, whatever the directory of one node becomes. *)
LEMMA FilesKeep ==
  ASSUME Typed, KeptInv, legacy'.key = legacy.key, NEW n \in Nodes, KeptBy(n, files'[n].key),
         \A m \in Nodes : m # n => files'[m].key = files[m].key
  PROVE  KeptInv' /\ OwnedKept
<1>1. \A m \in Nodes : OldKey(m)' = OldKey(m) /\ OldKey(m) \in Usable
  BY DEF OldKey, Typed, Usable
<1>2. KeptInv'
  BY <1>1 DEF KeptInv, KeptBy
<1>3. ASSUME NEW m \in Nodes, Owned(m) # NoKey PROVE Owned(m)' = Owned(m)
  <2>1. CASE m # n
    BY <1>1, <2>1 DEF Owned
  <2>2. CASE m = n /\ files[m].key \in Keys
    BY <1>1, <2>2, KeysApart DEF Owned, KeptBy, KeptInv
  <2>3. CASE m = n /\ files[m].key \notin Keys
    BY <1>1, <1>3, <2>3, KeysApart DEF Owned, KeptBy, KeptInv
  <2> QED BY <2>1, <2>2, <2>3
<1> QED BY <1>2, <1>3 DEF OwnedKept

(* A key is loaded, or made, without giving one up, unless the file is      *)
(* misread.                                                                 *)
LEMMA LoadKeeps ==
  ASSUME Typed, KeptInv, NEW n \in Nodes, NEW read \in Reads(n), NEW r \in LoadKey(n, read), ~Misread(n, read)
  PROVE  KeptBy(n, KeyAfter(n, r))
<1>1. files[n].key \in Usable \cup {HalfKey}
  BY DEF Typed, FileType
<1>2. CASE r.made
  <2>1. files[n].key = NoKey /\ OldKey(n) = NoKey /\ KeyAfter(n, r) \in Keys
    BY <1>2, LoadKeyIs, KeysApart DEF KeyAfter
  <2> QED BY <2>1, KeysApart DEF KeptBy, Usable
<1>3. CASE ~r.made
  <2>1. KeyAfter(n, r) = files[n].key
    BY <1>3, LoadKeyIs
  <2> QED BY <1>1, <2>1 DEF KeptBy, KeptInv
<1>4. r.made \in BOOLEAN
  BY LoadKeyIs
<1> QED BY <1>2, <1>3, <1>4

(* No step of a migration gives a key up, whichever process makes it.       *)
LEMMA MoverKeeps ==
  ASSUME Typed, KeptInv, CopyInv, NEW x \in Movers, Mover(x)
  PROVE  KeptInv' /\ OwnedKept
<1>0. files \in [Nodes -> FileType] /\ 1 \in Nodes /\ UNCHANGED legacy /\ OldKey(1) \in Usable
  BY MoverIs, KeysApart DEF Typed, OldKey, Usable
<1>1. ASSUME NEW k, files' = [files EXCEPT ![1].key = k]
      PROVE  files'[1].key = k /\ \A m \in Nodes : m # 1 => files'[m].key = files[m].key
  <2>1. files[1] \in FileType
    BY <1>0
  <2> QED BY <1>0, <1>1, <2>1 DEF FileType
<1>2. files[1].key \in Usable \cup {HalfKey}
  BY <1>0 DEF FileType
<1>3. KeptBy(1, files[1].key)
  BY <1>0, <1>2 DEF KeptBy, KeptInv
<1>4. ASSUME UNCHANGED files PROVE KeptInv' /\ OwnedKept
  BY <1>0, <1>3, <1>4, FilesKeep
<1>5. CASE Migrate(x)
  BY <1>4, <1>5 DEF Migrate, disk
<1>6. CASE CopyCert(x)
  <2>1. PICK t : files' = [files EXCEPT ![1].cert = t]
    BY <1>6 DEF CopyCert
  <2>2. \A m \in Nodes : files'[m].key = files[m].key
    <3>1. files[1] \in FileType
      BY <1>0
    <3> QED BY <1>0, <2>1, <3>1 DEF FileType
  <2> QED BY <1>0, <1>3, <2>2, FilesKeep
<1>7. CASE CutKey(x)
  <2>1. OldKey(1) # NoKey
    BY <1>7 DEF CutKey, CopyInv
  <2>2. KeptBy(1, HalfKey)
    BY <2>1, KeysApart DEF KeptBy, Usable
  <2>3. CASE files' = [files EXCEPT ![1].key = HalfKey]
    BY <1>0, <1>1, <2>2, <2>3, FilesKeep
  <2> QED BY <1>4, <1>7, <2>3 DEF CutKey
<1>8. CASE WriteKey(x)
  <2>1. OldKey(1) # NoKey
    BY <1>8 DEF WriteKey, CopyInv
  <2>2. PICK k \in {OldKey(1), HalfKey} :
          files' = IF files[1].key = HalfKey THEN [files EXCEPT ![1].key = k] ELSE files
    BY <1>8 DEF WriteKey
  <2>3. CASE files[1].key = HalfKey /\ files' = [files EXCEPT ![1].key = k]
    <3>1. KeptBy(1, k)
      BY <1>0, <2>1, <2>2, <2>3, KeysApart DEF KeptBy, Usable
    <3> QED BY <1>0, <1>1, <2>3, <3>1, FilesKeep
  <2> QED BY <1>4, <2>2, <2>3
<1> QED BY <1>5, <1>6, <1>7, <1>8 DEF Mover

LEMMA CopyStep == Typed /\ CopyInv /\ [ProvisionNext]_vars => CopyInv'
<1> SUFFICES ASSUME Typed, CopyInv, [ProvisionNext]_vars PROVE CopyInv'
  OBVIOUS
<1>0. copy \in [Movers -> {"no", "cert", "key", "half", "done"}]
  BY DEF Typed
<1>a. ASSUME legacy'.key = legacy.key, \A x \in Movers : copy'[x] \in {copy[x], "no", "done"} PROVE CopyInv'
  BY <1>a DEF CopyInv, OldKey
<1>1. ASSUME NEW x \in Movers, Mover(x) PROVE CopyInv'
  <2>1. UNCHANGED legacy
    BY <1>1, MoverIs
  <2>2. \A y \in Movers : y # x => copy'[y] = copy[y]
    BY <1>0, <1>1 DEF Mover, Migrate, CopyCert, CutKey, WriteKey, Ended
  <2>3. CASE Migrate(x)
    <3>1. \E n \in Nodes : OldKey(n) # NoKey
      BY <2>3, KeysApart DEF Migrate, Missing, Typed, JobType, Movers
    <3>2. OldKey(1) # NoKey
      BY <3>1 DEF OldKey
    <3> QED BY <2>1, <3>2 DEF CopyInv, OldKey
  <2>4. CASE ~Migrate(x)
    <3>1. copy[x] \in {"cert", "key", "half"}
      BY <1>1, <2>4 DEF Mover, CopyCert, CutKey, WriteKey
    <3>2. OldKey(1) # NoKey
      BY <3>1 DEF CopyInv
    <3> QED BY <2>1, <3>2 DEF CopyInv, OldKey
  <2> QED BY <2>3, <2>4
<1>2. ASSUME NEW c \in Callers, LookedOn(c), UNCHANGED legacy PROVE CopyInv'
  <2>1. \A x \in Movers : copy'[x] \in {copy[x], "no", "done"}
    BY <1>0, <1>2 DEF LookedOn
  <2> QED BY <1>2, <2>1, <1>a
<1>3. ASSUME NEW c \in Callers, Caller(c) PROVE CopyInv'
  <2>1. CASE LookedOn(c)
    BY <1>2, <1>3, <2>1 DEF Caller, Enter, Check, Guard, Reuse, PrepareKey, Ask, AskInVain, Save, Reload, Mismatch, Fail,
                            Finish, disk
  <2>2. CASE ~LookedOn(c)
    BY <1>3, <1>a, <2>2 DEF Caller, Enter, Check, Guard, Reuse, PrepareKey, Ask, AskInVain, Save, Reload, Mismatch, Fail,
                            Finish, disk, moves
  <2> QED BY <2>1, <2>2
<1>4. CASE Crash
  <2>1. \A x \in Movers : copy'[x] \in {copy[x], "no"}
    BY <1>4 DEF Crash
  <2> QED BY <1>4, <1>a, <2>1 DEF Crash
<1>5. CASE Age
  <2>1. legacy'.key = legacy.key
    BY <1>5 DEF Age, Typed
  <2> QED BY <1>5, <1>a, <2>1 DEF Age, moves
<1>6. CASE SilentReads \/ Toggle \/ DevProvision \/ SaveSettings \/ ReadAll \/ WriteAll \/ Cooled \/ Spoil \/ UNCHANGED vars
  BY <1>6, <1>a DEF SilentReads, Toggle, DevProvision, SaveSettings, ReadAll, WriteAll, Cooled, Spoil, vars, disk, moves
<1> QED BY <1>1, <1>3, <1>4, <1>5, <1>6 DEF ProvisionNext

(* As long as no key file was misread.                                      *)
LEMMA KeyStep ==
  ASSUME Typed, LockInv, CopyInv, KeyInv, [ProvisionNext]_vars, ~misread'
  PROVE  KeyInv' /\ OwnedKept
<1>0. /\ job \in [Callers -> JobType] /\ files \in [Nodes -> FileType] /\ node \in Nodes
      /\ registry \in [Nodes -> BindType] /\ 1 \in Nodes
  BY KeysApart DEF Typed
<1>1. KeptInv /\ AskInv /\ IdInv
  BY DEF KeyInv
<1>f. UNCHANGED <<files, legacy>> => KeptInv' /\ OwnedKept
  BY <1>1 DEF KeptInv, OwnedKept, Owned, OldKey
<1>q. ASSUME OwnedKept,
             \A d \in Callers : job'[d].pc \in Asking => job'[d] = job[d] \/ NowOwned(job'[d].node) = job'[d].key
      PROVE  AskInv'
  <2> SUFFICES ASSUME NEW d \in Callers, job'[d].pc \in Asking PROVE NowOwned(job'[d].node) = job'[d].key
    BY DEF AskInv, NowOwned, Owned, OldKey
  <2>1. CASE job'[d] = job[d]
    <3>1. job[d].pc \in Asking /\ job[d].key \in Keys /\ job[d].node \in Nodes /\ Owned(job[d].node) = job[d].key
      BY <1>0, <1>1, <2>1 DEF LockInv, AskInv, JobType, Inside, Asking
    <3>2. PICK m \in Nodes : m = job[d].node
      BY <3>1
    <3>3. NowOwned(m) = job[d].key
      BY <1>q, <3>1, <3>2, NowOwnedIs, KeysApart DEF OwnedKept
    <3> QED BY <2>1, <3>2, <3>3
  <2> QED BY <1>q, <2>1
<1>s. ASSUME OwnedKept, UNCHANGED cloud, Rotating' => Rotating PROVE IdInv'
  BY <1>0, <1>1, <1>s, KeysApart DEF IdInv, OwnedKept, cloud
<1>a. ASSUME KeptInv', OwnedKept, UNCHANGED <<node, cloud>>,
             \A d \in Callers : job'[d].pc \in Asking => job'[d] = job[d]
      PROVE  KeyInv' /\ OwnedKept
  <2>1. Rotating' => Rotating
    BY <1>a DEF Rotating, Asking
  <2> QED BY <1>a, <1>q, <1>s, <2>1 DEF KeyInv
<1>g. ASSUME NEW c \in Callers, NEW p \in Outside \cup Inside, Go(c, p)
      PROVE  job'[c].pc = p /\ job'[c].key = job[c].key /\ job'[c].node = job[c].node
             /\ (\A d \in Callers : d # c => job'[d] = job[d])
  <2>1. job[c] \in JobType
    BY <1>0
  <2>2. job'[c] = [job[c] EXCEPT !.pc = p] /\ (\A d \in Callers : d # c => job'[d] = job[d])
    BY <1>g, GoIs
  <2> QED BY <2>1, <2>2 DEF JobType
<1>2. CASE SilentReads
  <2>1. PICK p \in {"off", "second", "lock"} : Go("silent", p)
    BY <1>2 DEF SilentReads
  <2>2. \A d \in Callers : job'[d].pc \in Asking => job'[d] = job[d]
    BY <2>1, <1>g DEF Callers, Outside, Asking
  <2> QED BY <1>2, <1>a, <1>f, <2>2 DEF SilentReads
<1>3. ASSUME NEW c \in Callers, Caller(c) PROVE KeyInv' /\ OwnedKept
  <2> DEFINE n == job[c].node
  <2>0. job[c] \in JobType /\ n \in Nodes
    BY <1>0 DEF JobType
  <2>a. ASSUME job[c].pc \in Inside
        PROVE  n = node /\ (\A d \in Callers : d # c => job[d].pc \notin Inside)
    BY <2>a DEF LockInv
  <2>f. ASSUME NEW k, KeptBy(n, k), files'[n].key = k, UNCHANGED legacy,
               \A m \in Nodes : m # n => files'[m].key = files[m].key
        PROVE  KeptInv' /\ OwnedKept
    BY <1>1, <2>0, <2>f, FilesKeep
  <2>1. CASE Enter(c)
    <3> DEFINE j == [Idle EXCEPT !.pc = IF c = "silent" THEN "check" ELSE "guard",
                                 !.node = node, !.heal = TRUE, !.force = c = "manual"]
    <3>1. job' = [job EXCEPT ![c] = j] /\ UNCHANGED <<node, files, legacy, cloud>>
      BY <2>1 DEF Enter, disk
    <3>2. j.pc \notin Asking
      BY DEF Idle, Asking
    <3>3. job'[c] = j /\ \A d \in Callers : d # c => job'[d] = job[d]
      BY <1>0, <3>1
    <3> HIDE DEF j
    <3> QED BY <1>a, <1>f, <3>1, <3>2, <3>3
  <2>2. CASE Check(c) \/ Reuse(c) \/ Reload(c)
    <3>1. PICK p \in {"ready", "guard", "load", "fail"} : Go(c, p)
      BY <2>2 DEF Check, Reuse, Reload
    <3>2. UNCHANGED <<node, files, legacy, cloud>>
      BY <2>2 DEF Check, Reuse, Reload, disk
    <3>3. \A d \in Callers : job'[d].pc \in Asking => job'[d] = job[d]
      BY <3>1, <1>g DEF Inside, Asking
    <3> QED BY <1>a, <1>f, <3>2, <3>3
  <2>3. CASE Guard(c) \/ Fail(c)
    <3>1. PICK p \in {"fail", "keys", "failed"} : Go(c, p)
      BY <2>3 DEF Guard, Fail
    <3>2. \A d \in Callers : job'[d].pc \in Asking => job'[d] = job[d]
      BY <3>1, <1>g DEF Inside, Asking
    <3> QED BY <1>a, <1>f, <2>3, <3>2 DEF Guard, Fail, disk
  <2>4. CASE PrepareKey(c)
    <3>0. UNCHANGED <<node, legacy, cloud>>
      BY <2>4 DEF PrepareKey
    <3>r. PICK read \in Reads(n) : \E r \in LoadKey(n, read) :
            /\ files' = [files EXCEPT ![n].key = KeyAfter(n, r)]
            /\ misread' = (misread \/ Misread(n, read))
            /\ job' = [job EXCEPT ![c].pc = IF r.key = NoKey THEN "fail" ELSE "ask", ![c].key = r.key]
      BY <2>4 DEF PrepareKey
    <3>1. PICK r \in LoadKey(n, read) :
            /\ files' = [files EXCEPT ![n].key = KeyAfter(n, r)]
            /\ misread' = (misread \/ Misread(n, read))
            /\ job' = [job EXCEPT ![c].pc = IF r.key = NoKey THEN "fail" ELSE "ask", ![c].key = r.key]
      BY <3>r
    <3>2. KeptBy(n, KeyAfter(n, r))
      BY <1>1, <2>0, <3>1, LoadKeeps
    <3>3. files'[n].key = KeyAfter(n, r) /\ \A m \in Nodes : m # n => files'[m].key = files[m].key
      <4>1. files[n] \in FileType
        BY <1>0, <2>0
      <4> QED BY <1>0, <2>0, <3>1, <4>1 DEF FileType
    <3>4. KeptInv' /\ OwnedKept
      BY <2>f, <3>0, <3>2, <3>3
    <3>5. /\ job'[c].pc = IF r.key = NoKey THEN "fail" ELSE "ask"
          /\ job'[c].key = r.key /\ job'[c].node = n
          /\ \A d \in Callers : d # c => job'[d] = job[d]
      BY <1>0, <2>0, <3>1 DEF JobType
    <3>6. r.key # NoKey => NowOwned(n) = r.key
      <4>1. r.key # NoKey => KeyAfter(n, r) = r.key /\ r.key \in Keys
        BY <2>0, LoadKeyIs
      <4> QED BY <3>3, <4>1 DEF NowOwned
    <3>8. AskInv'
      BY <1>q, <3>4, <3>5, <3>6 DEF Asking
    <3>9. Rotating' => Rotating
      BY <3>0, <3>5 DEF Rotating
    <3> QED BY <1>s, <3>0, <3>4, <3>8, <3>9 DEF KeyInv
  <2>5. CASE AskInVain(c)
    <3>1. PICK limited \in BOOLEAN : job' = [job EXCEPT ![c].pc = "fail", ![c].limited = limited]
      BY <2>5 DEF AskInVain
    <3>2. job'[c].pc = "fail" /\ \A d \in Callers : d # c => job'[d] = job[d]
      BY <1>0, <2>0, <3>1 DEF JobType
    <3> QED BY <1>a, <1>f, <2>5, <3>2 DEF AskInVain, disk, Asking
  <2>6. CASE Ask(c)
    <3>0. /\ job[c].pc = "ask" /\ job[c].pc \in Inside /\ job[c].key \in Keys /\ Owned(n) = job[c].key
          /\ UNCHANGED <<node, files, legacy, device>>
      BY <1>1, <2>6 DEF Ask, At, Inside, LockInv, AskInv, Asking, disk
    <3>1. n = node /\ \A d \in Callers : d # c => job[d].pc \notin Inside
      BY <2>a, <3>0
    <3>2. \/ Refused(c) /\ Go(c, "mismatch") /\ UNCHANGED registry
          \/ /\ ~Refused(c)
             /\ \E b \in {Known(c), Binding(c)} : registry' = [registry EXCEPT ![n] = b]
             /\ \E p \in {"save", "fail"} : Go(c, p)
      BY <2>6 DEF Ask
    <3>3. PICK p \in Inside : Go(c, p)
      BY <3>2 DEF Inside
    <3>4. /\ job'[c].pc = p /\ job'[c].key = job[c].key /\ job'[c].node = n
          /\ \A d \in Callers : d # c => job'[d] = job[d]
      BY <3>3, <1>g
    <3>5. KeptInv' /\ OwnedKept
      BY <1>f, <3>0
    <3>b. NowOwned(job'[c].node) = Owned(n)
      BY <3>0, <3>4 DEF Owned, OldKey, NowOwned
    <3>6. AskInv'
      BY <1>q, <3>0, <3>4, <3>5, <3>b
    <3>7. Owned(1)' = Owned(1) /\ (n = 1 => Owned(1) = job[c].key)
      BY <3>0 DEF Owned, OldKey
    <3>8. registry[1] \in BindType
      BY <1>0
    <3>9. CASE Refused(c) /\ Go(c, "mismatch") /\ UNCHANGED registry
      <4>1. n = 1 => registry[1].key \notin {NoKey, job[c].key} /\ ~(registry[1].bound /\ device)
        BY <3>9 DEF Refused, Mismatched, Rebound, Known
      <4>2. n = 1 => registry[1].key = Foreign
        BY <1>1, <3>7, <3>8, <4>1 DEF IdInv, BindType, Usable
      <4>3. n # 1 => Rotating
        BY <3>1 DEF Rotating
      <4>4. registry[1].key = Foreign /\ ~(registry[1].bound /\ device)
        BY <1>1, <4>1, <4>2, <4>3 DEF IdInv
      <4> QED BY <3>0, <3>5, <3>6, <3>9, <4>4, KeysApart DEF KeyInv, IdInv
    <3>10. CASE /\ ~Refused(c)
                /\ \E b \in {Known(c), Binding(c)} : registry' = [registry EXCEPT ![n] = b]
                /\ \E q \in {"save", "fail"} : Go(c, q)
      <4>1. job'[c].pc # "mismatch"
        BY <3>10, <1>g DEF Inside
      <4>2. Rotating' => n # 1
        BY <3>0, <3>1, <3>4, <4>1 DEF Rotating, Inside
      <4>3. n # 1 => registry'[1] = registry[1] /\ Rotating
        BY <1>0, <2>0, <3>1, <3>10 DEF Rotating
      <4>4. CASE n # 1
        BY <1>1, <3>0, <3>5, <3>6, <3>7, <4>3, <4>4 DEF KeyInv, IdInv
      <4>5. CASE n = 1
        <5>1. registry'[1].key \in {registry[1].key, job[c].key}
          BY <1>0, <3>8, <3>10, <4>5 DEF Known, Binding, BindType
        <5> QED BY <1>1, <3>5, <3>6, <3>7, <4>2, <4>5, <5>1 DEF KeyInv, IdInv
      <4> QED BY <4>4, <4>5
    <3> QED BY <3>2, <3>9, <3>10
  <2>7. CASE Save(c)
    <3>0. UNCHANGED <<node, legacy, cloud>>
      BY <2>7 DEF Save
    <3>r. PICK read \in Reads(n) : \E r \in LoadKey(n, read), done \in BOOLEAN :
            /\ files' = [files EXCEPT ![n] =
                           [key |-> KeyAfter(n, r),
                            cert |-> IF done THEN [key |-> r.key, age |-> "long"] ELSE files[n].cert]]
            /\ misread' = (misread \/ Misread(n, read))
            /\ Go(c, IF done THEN "reload" ELSE "fail")
      BY <2>7 DEF Save
    <3>1. PICK r \in LoadKey(n, read), done \in BOOLEAN :
            /\ files' = [files EXCEPT ![n] =
                           [key |-> KeyAfter(n, r),
                            cert |-> IF done THEN [key |-> r.key, age |-> "long"] ELSE files[n].cert]]
            /\ misread' = (misread \/ Misread(n, read))
            /\ Go(c, IF done THEN "reload" ELSE "fail")
      BY <3>r
    <3>2. KeptBy(n, KeyAfter(n, r))
      BY <1>1, <2>0, <3>1, LoadKeeps
    <3>3. files'[n].key = KeyAfter(n, r) /\ \A m \in Nodes : m # n => files'[m].key = files[m].key
      BY <1>0, <2>0, <3>1
    <3>4. KeptInv' /\ OwnedKept
      BY <2>f, <3>0, <3>2, <3>3
    <3>5. \A d \in Callers : job'[d].pc \in Asking => job'[d] = job[d]
      BY <3>1, <1>g DEF Inside, Asking
    <3> QED BY <1>a, <3>0, <3>4, <3>5
  <2>8. CASE Mismatch(c)
    <3>0. job[c].pc = "mismatch" /\ job[c].pc \in Inside /\ UNCHANGED <<legacy, files, cloud>>
      BY <2>8 DEF Mismatch, At, Inside
    <3>1. KeptInv' /\ OwnedKept
      BY <1>f, <3>0
    <3>2. Rotating
      BY <2>a, <3>0 DEF Rotating
    <3>3. IdInv'
      BY <1>s, <3>0, <3>1, <3>2
    <3>4. \A d \in Callers : job'[d].pc \in Asking => job'[d] = job[d]
      <4>1. CASE job' = [job EXCEPT ![c].pc = "guard", ![c].node = node', ![c].heal = FALSE, ![c].force = TRUE]
        BY <1>0, <2>0, <4>1 DEF JobType, Asking
      <4>2. CASE Go(c, "fail")
        BY <4>2, <1>g DEF Inside, Asking
      <4> QED BY <2>8, <4>1, <4>2 DEF Mismatch
    <3> QED BY <1>q, <3>1, <3>3, <3>4 DEF KeyInv
  <2>9. CASE Finish(c)
    <3>1. job'[c] = Idle /\ \A d \in Callers : d # c => job'[d] = job[d]
      BY <1>0, <2>9 DEF Finish
    <3> QED BY <1>a, <1>f, <2>9, <3>1 DEF Finish, Idle, disk, Asking
  <2> QED BY <1>3, <2>1, <2>2, <2>3, <2>4, <2>5, <2>6, <2>7, <2>8, <2>9 DEF Caller
<1>4. CASE Toggle \/ DevProvision
  <2>1. Go("manual", "lock") => \A d \in Callers : job'[d].pc \in Asking => job'[d] = job[d]
    BY <1>g DEF Callers, Outside, Asking
  <2> QED BY <1>4, <1>a, <1>f, <2>1 DEF Toggle, DevProvision, disk
<1>5. ASSUME NEW x \in Movers, Mover(x) PROVE KeyInv' /\ OwnedKept
  <2>1. KeptInv' /\ OwnedKept
    BY <1>1, <1>5, MoverKeeps
  <2>2. UNCHANGED <<node, cloud, job>>
    BY <1>5, MoverIs
  <2> QED BY <1>a, <2>1, <2>2
<1>6. CASE Age
  <2>1. /\ files' = [m \in Nodes |-> [files[m] EXCEPT !.cert = Older(@)]]
        /\ legacy' = [legacy EXCEPT !.cert = Older(@)] /\ UNCHANGED <<node, cloud, job>>
    BY <1>6 DEF Age
  <2>2. \A m \in Nodes : files'[m].key = files[m].key
    BY <1>0, <2>1 DEF FileType
  <2>3. legacy'.key = legacy.key
    BY <2>1 DEF Typed
  <2>4. KeptInv' /\ OwnedKept
    BY <1>1, <2>2, <2>3 DEF KeptInv, OwnedKept, Owned, OldKey
  <2> QED BY <1>a, <2>1, <2>4
<1>7. CASE Crash
  <2>1. \A d \in Callers : job'[d].pc \in {"first", "off"}
    BY <1>7 DEF Crash, Idle, Starting
  <2> QED BY <1>7, <1>a, <1>f, <2>1 DEF Crash, Asking
<1>8. CASE SaveSettings \/ ReadAll \/ WriteAll \/ Cooled \/ Spoil \/ UNCHANGED vars
  BY <1>8, <1>a, <1>f DEF SaveSettings, ReadAll, WriteAll, Cooled, Spoil, vars, disk
<1> QED BY <1>2, <1>3, <1>4, <1>5, <1>6, <1>7, <1>8 DEF ProvisionNext

LEMMA InitKeys == ProvisionInit => LockInv /\ CopyInv /\ KeyInv
<1> SUFFICES ASSUME ProvisionInit PROVE LockInv /\ CopyInv /\ KeyInv
  OBVIOUS
<1>1. \A c \in Callers : job[c].pc \in {"first", "off"}
  BY DEF ProvisionInit, Idle, Starting
<1>2. LockInv /\ CopyInv /\ AskInv /\ ~Rotating
  BY <1>1 DEF ProvisionInit, LockInv, CopyInv, AskInv, Asking, Rotating, Inside, Movers
<1>3. PICK a \in Ages, where \in {"nowhere", "old", "new"}, bound \in {NoKey, 1, Foreign}, dev \in BOOLEAN :
        /\ bound = 1 => where # "nowhere"
        /\ legacy = IF where = "old" THEN [key |-> 1, cert |-> [key |-> 1, age |-> a]] ELSE NoFiles
        /\ files = [n \in Nodes |-> IF n = 1 /\ where = "new" THEN [key |-> 1, cert |-> [key |-> 1, age |-> a]] ELSE NoFiles]
        /\ registry = [n \in Nodes |-> [key |-> IF n = 1 THEN bound ELSE NoKey, bound |-> n = 1 /\ dev /\ bound # NoKey]]
  BY DEF ProvisionInit
<1>4. \A n \in Nodes : files[n].key = IF n = 1 /\ where = "new" THEN 1 ELSE NoKey
  BY <1>3 DEF NoFiles
<1>5. legacy.key = IF where = "old" THEN 1 ELSE NoKey
  BY <1>3 DEF NoFiles
<1>6. KeptInv
  BY <1>4, <1>5, KeysApart DEF KeptInv, OldKey, Usable
<1>7. registry[1].key = bound
  BY <1>3, KeysApart
<1>8. bound \in Keys => bound = 1
  BY <1>3, KeysApart
<1>9. bound = 1 => Owned(1) = 1
  BY <1>3, <1>4, <1>5, KeysApart DEF Owned, OldKey
<1>10. IdInv
  BY <1>2, <1>7, <1>8, <1>9 DEF IdInv
<1> QED BY <1>2, <1>6, <1>10 DEF KeyInv

(* The key and the identity, until a key file is misread.                   *)
KeyGuard == LockInv /\ CopyInv /\ (misread \/ KeyInv)

LEMMA GuardStep ==
  Typed /\ KeyGuard /\ [ProvisionNext]_vars => KeyGuard' /\ (misread' \/ OwnedKept)
<1> SUFFICES ASSUME Typed, KeyGuard, [ProvisionNext]_vars PROVE KeyGuard' /\ (misread' \/ OwnedKept)
  OBVIOUS
<1>1. LockInv' /\ CopyInv'
  BY LockStep, CopyStep DEF KeyGuard
<1>2. misread => misread'
  <2>1. ASSUME NEW c \in Callers, Caller(c) PROVE misread => misread'
    <3>1. CASE PrepareKey(c)
      BY <3>1 DEF PrepareKey
    <3>2. CASE Save(c)
      BY <3>2 DEF Save
    <3>3. CASE ~PrepareKey(c) /\ ~Save(c)
      BY <2>1, <3>3 DEF Caller, Enter, Check, Guard, Reuse, Ask, AskInVain, Reload, Mismatch, Fail, Finish, moves
    <3> QED BY <3>1, <3>2, <3>3
  <2>2. ASSUME NEW x \in Movers, Mover(x) PROVE misread => misread'
    BY <2>2, MoverIs
  <2>3. CASE SilentReads \/ Toggle \/ DevProvision \/ SaveSettings \/ ReadAll \/ WriteAll \/ Age \/ Cooled \/ Spoil
             \/ Crash \/ UNCHANGED vars
    BY <2>3 DEF SilentReads, Toggle, DevProvision, SaveSettings, ReadAll, WriteAll, Age, Cooled, Spoil, Crash, vars, moves
  <2> QED BY <2>1, <2>2, <2>3 DEF ProvisionNext
<1>3. CASE misread'
  BY <1>1, <1>3 DEF KeyGuard
<1>4. CASE ~misread'
  BY <1>1, <1>2, <1>4, KeyStep DEF KeyGuard
<1> QED BY <1>3, <1>4

(* Provision!KeyKept: a key the machine has for a node is never given up,   *)
(* whatever copy fails, is cut short or is made by two processes at once,   *)
(* unless a call reads a key file that was cut short, or cannot read the    *)
(* only one there is.                                                       *)
THEOREM KeysAreKept == ProvisionSpec => KeyKept
<1>1. ProvisionInit => KeyGuard
  BY InitKeys DEF KeyGuard
<1>2. misread' \/ OwnedKept => [~misread' => \A n \in Nodes : Owned(n) # NoKey => Owned(n)' = Owned(n)]_vars
  BY DEF OwnedKept
<1> QED BY InitTyped, TypedStep, <1>1, GuardStep, <1>2, PTL DEF ProvisionSpec, KeyKept

(* Provision!IdentityStays: the node identity is rotated only when the      *)
(* cloud knows it by a key this machine has lost, or a key was misread.     *)
THEOREM IdentitiesStay == ProvisionSpec => []IdentityStays
<1>1. ProvisionInit => KeyGuard
  BY InitKeys DEF KeyGuard
<1>2. KeyGuard => IdentityStays
  BY DEF KeyGuard, KeyInv, IdInv, Rotating, IdentityStays
<1> QED BY InitTyped, TypedStep, <1>1, GuardStep, <1>2, PTL DEF ProvisionSpec

-----------------------------------------------------------------------------
(* Provision!NothingLost: whichever of the renames fails, whatever else     *)
(* does, and wherever the program is killed, settings are replaced by       *)
(* settings or kept in another file.                                        *)
THEOREM SettingsAreKept == ProvisionSpec => NothingLost
<1> DEFINE Kept == conf.file \in Chosen \cup {"bad"} =>
                     \/ conf'.file \in Chosen
                     \/ conf.file \in {conf'.file, conf'.old, conf'.tmp, conf'.backup}
                     \/ Spoil
<1>1. ASSUME Typed, [ProvisionNext]_vars PROVE Kept
  <2>0. conf \in ConfType /\ saving \in Chosen \cup {"no"}
    BY <1>1 DEF Typed
  <2>a. ASSUME Keeps(conf, conf') PROVE Kept
    BY <2>a DEF Keeps
  <2>r. ASSUME NEW r \in Readings(conf), conf' = r.conf PROVE Kept
    BY <2>0, <2>a, <2>r, ReadingsKeep DEF Keeps
  <2>w. ASSUME NEW v \in Chosen, NEW w \in Writings(conf, v), conf' = w.conf PROVE Kept
    BY <2>0, <2>a, <2>w, WritingsKeep
  <2>u. UNCHANGED conf => Kept
    OBVIOUS
  <2> HIDE DEF Kept
  <2>1. CASE SilentReads \/ ReadAll
    BY <2>1, <2>r DEF SilentReads, ReadAll
  <2>2. CASE SaveSettings
    <3>1. saving \in Chosen
      BY <2>0, <2>2 DEF SaveSettings
    <3> QED BY <2>2, <2>w, <3>1 DEF SaveSettings
  <2>3. CASE WriteAll
    BY <2>3, <2>w DEF WriteAll
  <2>4. ASSUME NEW c \in Callers, Fail(c) PROVE Kept
    <3>1. CASE UNCHANGED conf
      BY <3>1, <2>u
    <3>2. CASE \E r \in Readings(conf) :
                 IF r.ok THEN \E w \in Writings(r.conf, "off") : conf' = w.conf ELSE conf' = r.conf
      <4>1. PICK r \in Readings(conf) :
                 IF r.ok THEN \E w \in Writings(r.conf, "off") : conf' = w.conf ELSE conf' = r.conf
        BY <3>2
      <4>2. CASE ~r.ok
        BY <2>r, <4>1, <4>2
      <4>3. CASE r.ok
        <5>1. PICK w \in Writings(r.conf, "off") : conf' = w.conf
          BY <4>1, <4>3
        <5>2. r.conf \in ConfType
          BY <2>0, ReadingsKeep
        <5>3. Keeps(r.conf, conf') /\ (r.conf.file # "bad" => conf'.backup = r.conf.backup)
          BY <5>1, <5>2, WritingsKeep DEF Chosen
        <5>4. conf.file \in Chosen => r.conf = conf
          BY <2>0, ReadingsKeep
        <5>5. conf.file = "bad" => r.conf.file = "empty" /\ r.conf.backup = "bad"
          BY <2>0, <4>3, ReadingsKeep
        <5>6. Keeps(conf, conf')
          BY <5>3, <5>4, <5>5 DEF Keeps
        <5> QED BY <2>a, <5>6
      <4> QED BY <4>2, <4>3
    <3> QED BY <2>4, <3>1, <3>2 DEF Fail
  <2>5. CASE Spoil
    BY <2>5 DEF Kept
  <2>6. CASE Crash
    <3>1. conf' \in {conf} \cup UNION {Interrupted(conf, v) : v \in Wanted}
      BY <2>6 DEF Crash
    <3>2. Wanted \subseteq Chosen
      BY DEF Wanted, Chosen
    <3> QED BY <2>0, <2>a, <2>u, <3>1, <3>2, InterruptedKeep
  <2>7. ASSUME NEW c \in Callers,
               Enter(c) \/ Check(c) \/ Guard(c) \/ Reuse(c) \/ PrepareKey(c) \/ Ask(c) \/ AskInVain(c) \/ Save(c)
               \/ Reload(c) \/ Mismatch(c) \/ Finish(c)
        PROVE  Kept
    BY <2>7, <2>u DEF Enter, Check, Guard, Reuse, PrepareKey, Ask, AskInVain, Save, Reload, Mismatch, Finish, disk
  <2>8. CASE Toggle \/ DevProvision \/ Age \/ Cooled \/ UNCHANGED vars
    BY <2>8, <2>u DEF Toggle, DevProvision, Age, Cooled, disk, vars
  <2>9. ASSUME NEW x \in Movers, Mover(x) PROVE Kept
    BY <1>1, <2>9, <2>u, MoverIs
  <2> QED BY <1>1, <2>1, <2>2, <2>3, <2>4, <2>5, <2>6, <2>7, <2>8, <2>9 DEF ProvisionNext, Caller
<1>2. Kept => [Kept]_vars
  OBVIOUS
<1> QED BY InitTyped, TypedStep, <1>1, <1>2, PTL DEF ProvisionSpec, NothingLost

=============================================================================
