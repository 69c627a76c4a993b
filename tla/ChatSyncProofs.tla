--------------------------- MODULE ChatSyncProofs ---------------------------
(***************************************************************************)
(* Theorems about ChatSync, for every room, page size and number of posts, *)
(* losses of the connection and page reloads.                              *)
(***************************************************************************)
EXTENDS ChatSync, SequenceTheorems, FiniteSetTheorems, WellFoundedInduction, TLAPS

-----------------------------------------------------------------------------
(* Sequences and sets of sequence numbers *)

LEMMA Appended ==
    ASSUME NEW S, NEW s \in Seq(S), NEW x \in S
    PROVE  /\ Append(s, x) \in Seq(S)
           /\ Len(s) \in Nat /\ Len(Append(s, x)) = Len(s) + 1
           /\ Append(s, x)[Len(s) + 1] = x
           /\ \A i \in 1..Len(s) : Append(s, x)[i] = s[i]
BY AppendProperties, LenProperties

LEMMA Tailed ==
    ASSUME NEW S, NEW s \in Seq(S), s # <<>>
    PROVE  /\ Tail(s) \in Seq(S) /\ Head(s) = s[1] /\ s[1] \in S
           /\ Len(s) \in Nat /\ Len(s) > 0 /\ Len(Tail(s)) = Len(s) - 1
           /\ \A i \in 1..Len(s) - 1 : Tail(s)[i] = s[i + 1]
<1>1. /\ Len(s) \in Nat /\ Len(s) > 0
      /\ Tail(s) \in Seq(S) /\ Head(s) \in S /\ Len(Tail(s)) = Len(s) - 1
      /\ \A i \in 1..Len(Tail(s)) : Tail(s)[i] = s[i + 1]
  BY HeadTailProperties, LenProperties, EmptySeq
<1>2. Head(s) = s[1]
  OBVIOUS
<1> QED BY <1>1, <1>2

(* A nonempty set of numbers up to l has a least element and a greatest.    *)
LEMMA Least ==
    ASSUME NEW S \in SUBSET Nat, S # {}
    PROVE  Min(S) \in S /\ \A y \in S : Min(S) <= y
<1> DEFINE Less == {p \in Nat \X Nat : p[1] < p[2]}
<1>1. PICK i \in S : \A j \in S : ~(<<j, i>> \in Less)
  <2>1. IsWellFoundedOn(Less, Nat)
    BY NatLessThanWellFounded DEF OpToRel
  <2> HIDE DEF Less
  <2> QED BY <2>1, WFMin
<1>2. ASSUME NEW y \in S PROVE i <= y
  <2>1. i \in Nat /\ y \in Nat /\ <<y, i>> \notin Less
    BY <1>1
  <2> QED BY <2>1
<1> QED BY <1>2 DEF Min

LEMMA Greatest ==
    ASSUME NEW l \in Nat, NEW S \in SUBSET (1..l), S # {}
    PROVE  \E x \in S : \A y \in S : y <= x
<1> DEFINE T == {l - x : x \in S}
<1>1. T \in SUBSET Nat /\ T # {}
  <2>1. \A x \in S : l - x \in Nat
    OBVIOUS
  <2> QED BY <2>1
<1>2. Min(T) \in T /\ \A y \in T : Min(T) <= y
  BY <1>1, Least
<1>3. PICK x \in S : Min(T) = l - x
  BY <1>2
<1>4. ASSUME NEW y \in S PROVE y <= x
  <2>1. l - x <= l - y
    BY <1>2, <1>3
  <2> QED BY <2>1
<1> QED BY <1>4

LEMMA MaxOfTwo ==
    ASSUME NEW a \in Nat, NEW b \in Nat
    PROVE  Max({a, b}) = IF a >= b THEN a ELSE b
BY DEF Max

-----------------------------------------------------------------------------
(* Type correctness *)

Cursors  == [after: Nat, join: Nat, before: Nat]
Pages    == [todo: SUBSET Nat, more: BOOLEAN, oldest: Nat]
Packets  == [type: {"hello", "event", "history_page"}, seq: Nat, more: BOOLEAN]
Pagers   == [more: BOOLEAN, oldest: Nat, loading: BOOLEAN]
Services == {"none", "hello", "insert", "select", "page", "presence", "notice", "ready"}

(* Every sequence number the browser or its handler knows is one of the     *)
(* log's; what the browser holds are messages; a page that left something   *)
(* out has an oldest message.                                               *)
LogOK ==
    /\ given \in Cases
    /\ log \in Seq({"message", "other"}) /\ Len(given.Log) <= Len(log)
    /\ flights \subseteq 1..Len(log) /\ leaving \subseteq 1..Len(log)
HandlerOK ==
    /\ svc \in Services
    /\ request \in Cursors /\ told \in Nat
    /\ page \in Pages /\ (svc # "page" => page = NoPage)
    /\ page.todo \subseteq 1..Len(log) /\ page.oldest <= Len(log)
    /\ page.more => page.oldest > 0
WireOK ==
    /\ wire \in Seq(Packets)
    /\ \A i \in 1..Len(wire) :
          /\ wire[i].seq <= Len(log)
          /\ wire[i].type = "event" => wire[i].seq > 0
          /\ wire[i].type = "history_page" /\ wire[i].more => wire[i].seq > 0
BrowserOK ==
    /\ joinSeq \in Nat /\ afterSeq \in Nat /\ afterSeq <= Len(log)
    /\ mem \subseteq 1..Len(log) /\ \A n \in mem : IsMessage(n)
    /\ notice \in BOOLEAN /\ (notice => given.Notices)
    /\ pager \in Pagers /\ pager.oldest <= Len(log)
CountsOK ==
    /\ met \in BOOLEAN /\ boundary \in Nat
    /\ posts \in Nat /\ drops \in Nat /\ reloads \in Nat /\ reloads <= given.MaxReloads
TypeOK == LogOK /\ HandlerOK /\ WireOK /\ BrowserOK /\ CountsOK

LEMMA GivenTyped ==
    ASSUME given \in Cases
    PROVE  /\ given.PageSize \in Nat \ {0} /\ given.Log \in Seq({"message", "other"})
           /\ given.MaxReloads \in Nat
           /\ given.Overlap \in BOOLEAN /\ given.Notices \in BOOLEAN
BY SyncAssumption

LEMMA NonesTyped ==
    /\ NoCursors \in Cursors /\ NoPage \in Pages /\ NoPager \in Pagers
    /\ NoCursors.after = 0 /\ NoCursors.join = 0 /\ NoCursors.before = 0
    /\ NoPage.todo = {} /\ NoPage.more = FALSE /\ NoPage.oldest = 0
    /\ NoPager.more = FALSE /\ NoPager.oldest = 0 /\ NoPager.loading = FALSE
BY DEF NoCursors, NoPage, NoPager, Cursors, Pages, Pagers

(* What Store appends, and what an appended packet changes.                 *)
LEMMA Stored ==
    ASSUME TypeOK, NEW kind \in {"message", "other"}, Store(kind)
    PROVE  /\ log' \in Seq({"message", "other"}) /\ Len(log) \in Nat
           /\ Len(log') = Len(log) + 1 /\ log'[Len(log) + 1] = kind
           /\ \A n \in 1..Len(log) : log'[n] = log[n]
           /\ flights' = flights \cup {Len(log) + 1}
BY Appended DEF TypeOK, LogOK, Store

LEMMA Sent ==
    ASSUME TypeOK, NEW type \in {"hello", "event", "history_page"}, NEW seq \in Nat, NEW more \in BOOLEAN,
           wire' = Append(wire, Packet(type, seq, more))
    PROVE  /\ wire' \in Seq(Packets) /\ Len(wire) \in Nat /\ Len(wire') = Len(wire) + 1
           /\ wire'[Len(wire) + 1].type = type /\ wire'[Len(wire) + 1].seq = seq
           /\ wire'[Len(wire) + 1].more = more
           /\ \A i \in 1..Len(wire) : wire'[i] = wire[i]
<1>1. Packet(type, seq, more) \in Packets
  BY DEF Packet, Packets
<1>2. /\ wire' \in Seq(Packets) /\ Len(wire) \in Nat /\ Len(wire') = Len(wire) + 1
      /\ wire'[Len(wire) + 1] = Packet(type, seq, more)
      /\ \A i \in 1..Len(wire) : wire'[i] = wire[i]
  BY <1>1, Appended DEF TypeOK, WireOK
<1> QED BY <1>2 DEF Packet

LEMMA InitTyped == Init => TypeOK
<1> SUFFICES ASSUME Init PROVE TypeOK
  OBVIOUS
<1>1. /\ log \in Seq({"message", "other"}) /\ Len(log) \in Nat /\ given.MaxReloads \in Nat
  BY GivenTyped, LenProperties DEF Init
<1>2. <<>> \in Seq(Packets) /\ Len(<<>>) = 0
  BY EmptySeq
<1>3. \A i \in 1..Len(wire) : FALSE
  BY <1>2 DEF Init
<1>4. /\ given \in Cases /\ Len(given.Log) <= Len(log)
      /\ flights = {} /\ leaving = {} /\ svc = "none" /\ request = NoCursors /\ page = NoPage
      /\ told = 0 /\ wire \in Seq(Packets) /\ joinSeq = 0 /\ afterSeq = 0
      /\ mem = {} /\ notice = FALSE /\ pager = NoPager
      /\ met = FALSE /\ boundary = 0 /\ posts = 0 /\ drops = 0 /\ reloads = 0
  BY <1>1, <1>2 DEF Init
<1> HIDE DEF Init
<1>5. /\ request \in Cursors /\ page \in Pages /\ page.todo = {} /\ page.more = FALSE /\ page.oldest = 0
      /\ pager \in Pagers /\ pager.oldest = 0
  BY <1>4, NonesTyped
<1>6. svc \in Services /\ notice \in BOOLEAN /\ ~notice /\ ~page.more /\ met \in BOOLEAN
  BY <1>4, <1>5 DEF Services
<1>7. /\ flights \subseteq 1..Len(log) /\ leaving \subseteq 1..Len(log)
      /\ page.todo \subseteq 1..Len(log) /\ page.oldest <= Len(log)
      /\ mem \subseteq 1..Len(log) /\ \A n \in mem : IsMessage(n)
      /\ reloads <= given.MaxReloads /\ afterSeq <= Len(log) /\ pager.oldest <= Len(log)
  BY <1>1, <1>4, <1>5
<1> QED BY <1>1, <1>3, <1>4, <1>5, <1>6, <1>7
        DEF TypeOK, LogOK, HandlerOK, WireOK, BrowserOK, CountsOK

(* The log only grows, and what a step stores is in flight.                 *)
Grown ==
    /\ Len(log) \in Nat /\ Len(log') \in Nat /\ Len(log) <= Len(log')
    /\ \A n \in 1..Len(log) : log'[n] = log[n]

LEMMA LogStep == ASSUME TypeOK, [Next]_vars PROVE LogOK' /\ Grown /\ given' = given
<1>0. /\ given \in Cases /\ Len(log) \in Nat /\ Len(given.Log) \in Nat
      /\ Len(given.Log) <= Len(log) /\ log \in Seq({"message", "other"})
      /\ flights \subseteq 1..Len(log) /\ leaving \subseteq 1..Len(log)
  BY GivenTyped, LenProperties DEF TypeOK, LogOK
<1>1. ASSUME NEW kind \in {"message", "other"}, Store(kind), given' = given,
             leaving' \subseteq leaving \cup {Len(log')}
      PROVE  LogOK' /\ Grown
  <2>1. /\ log' \in Seq({"message", "other"})
        /\ Len(log') = Len(log) + 1
        /\ \A n \in 1..Len(log) : log'[n] = log[n]
        /\ flights' = flights \cup {Len(log) + 1}
    BY <1>1, Stored
  <2>2. flights' \subseteq 1..Len(log') /\ leaving' \subseteq 1..Len(log')
    <3>1. 1..Len(log) \cup {Len(log')} \subseteq 1..Len(log')
      BY <1>0, <2>1
    <3> QED BY <1>0, <1>1, <2>1, <3>1
  <2> QED BY <1>0, <1>1, <2>1, <2>2 DEF LogOK, Grown
<1>2. ASSUME given' = given, log' = log, flights' \subseteq flights, leaving' \subseteq leaving
      PROVE  LogOK' /\ Grown
  BY <1>0, <1>2 DEF LogOK, Grown
<1>3. CASE \E kind \in {"message", "other"} : Post(kind)
  BY <1>1, <1>3 DEF Post
<1>4. CASE \E n \in flights : Fan(n)
  BY <1>2, <1>4 DEF Fan, bounds
<1>5. CASE \E n \in leaving : Left(n)
  BY <1>1, <1>5 DEF Left, bounds
<1>6. CASE Announce("other", "presence", "notice") \/ Announce("message", "notice", "ready")
  BY <1>1, <1>6 DEF Announce, bounds
<1>7. CASE Hello \/ Insert \/ Select \/ SendPage \/ EndPage
  BY <1>2, <1>7 DEF Hello, Insert, Select, SendPage, EndPage, server, bounds
<1>8. CASE Open \/ Deliver \/ LoadOlder \/ Notify
  BY <1>2, <1>8 DEF Open, Deliver, LoadOlder, Notify, server, bounds
<1>9. CASE Drop \/ Reload
  <2>1. Disconnect /\ given' = given
    BY <1>9 DEF Drop, Reload
  <2> QED BY <1>1, <1>2, <2>1 DEF Disconnect, server
<1>10. CASE Idle \/ UNCHANGED vars
  BY <1>2, <1>10 DEF Idle, vars, server, bounds
<1> QED BY <1>3, <1>4, <1>5, <1>6, <1>7, <1>8, <1>9, <1>10 DEF Next, HandlerStep

(* The older messages a page leaves out, and the page that is selected.     *)
LEMMA NewestAbove ==
    ASSUME TypeOK, NEW l \in Nat, NEW S \in SUBSET (1..l)
    PROVE  /\ Newest(S) \subseteq S
           /\ S # {} => Newest(S) # {}
           /\ \A x \in S \ Newest(S) : \A y \in Newest(S) : x < y
<1>0. S \subseteq Nat /\ given.PageSize \in Nat \ {0}
  BY GivenTyped DEF TypeOK, LogOK
<1>1. \A x \in S : /\ IsFiniteSet({m \in S : m > x})
                   /\ Cardinality({m \in S : m > x}) \in Nat
  <2>1. IsFiniteSet(1..l)
    BY FS_Interval
  <2> QED BY <2>1, FS_Subset, FS_CardinalityType
<1>2. ASSUME S # {} PROVE Newest(S) # {}
  <2>1. PICK x \in S : \A y \in S : y <= x
    BY <1>2, Greatest
  <2>2. \A m \in S : ~(m > x)
    BY <1>0, <2>1
  <2>3. Cardinality({m \in S : m > x}) < given.PageSize
    <3>1. {m \in S : m > x} = {}
      BY <2>2
    <3> QED BY <1>0, <3>1, FS_EmptySet
  <2> QED BY <2>3 DEF Newest
<1>3. ASSUME NEW x \in S \ Newest(S), NEW y \in Newest(S) PROVE x < y
  <2>1. y \in S /\ Cardinality({m \in S : m > y}) < given.PageSize
    BY DEF Newest
  <2>2. ~(Cardinality({m \in S : m > x}) < given.PageSize)
    BY DEF Newest
  <2>3. CASE y <= x
    <3>1. {m \in S : m > x} \in SUBSET {m \in S : m > y}
      <4>1. \A m \in S : m > x => m > y
        BY <1>0, <2>1, <2>3
      <4> QED BY <4>1
    <3>2. Cardinality({m \in S : m > x}) <= Cardinality({m \in S : m > y})
      BY <1>1, <2>1, <3>1, FS_Subset
    <3> QED BY <1>0, <1>1, <2>1, <2>2, <3>2
  <2> QED BY <1>0, <2>1, <2>3
<1> QED BY <1>2, <1>3 DEF Newest

All == {n \in 1..Len(log) : IsMessage(n) /\ n > Floor(request)
                           /\ (request.before > 0 => n < request.before)}

LEMMA Selected ==
    ASSUME TypeOK, Select
    PROVE  /\ page' \in Pages /\ page'.todo \subseteq All /\ page'.oldest <= Len(log)
           /\ page'.more => page'.oldest > 0
           /\ \A n \in page'.todo : page'.oldest <= n
           /\ \A n \in All \ page'.todo : page'.more /\ n < page'.oldest
<1> DEFINE newest == Newest(All)
<1>1. /\ page' = [todo |-> newest, more |-> newest # All,
                  oldest |-> IF newest = {} THEN 0 ELSE Min(newest)]
  BY DEF Select, All
<1>2. Len(log) \in Nat /\ All \subseteq 1..Len(log)
  BY LenProperties DEF TypeOK, LogOK, All
<1>3. /\ newest \subseteq All /\ (All # {} => newest # {})
      /\ \A x \in All \ newest : \A y \in newest : x < y
  BY <1>2, NewestAbove
<1> HIDE DEF newest
<1>4. ASSUME newest # {}
      PROVE  Min(newest) \in newest /\ \A y \in newest : Min(newest) <= y
  <2>1. newest \subseteq Nat
    BY <1>2, <1>3
  <2> QED BY <1>4, <2>1, Least
<1>5. newest \subseteq 1..Len(log)
  BY <1>2, <1>3
<1>6. CASE newest = {}
  <2>1. page' = [todo |-> {}, more |-> FALSE, oldest |-> 0] /\ All = {}
    BY <1>1, <1>3, <1>6
  <2> QED BY <1>2, <2>1 DEF Pages
<1>7. CASE newest # {}
  <2>1. PICK m \in newest : m = Min(newest) /\ \A y \in newest : m <= y
    BY <1>4, <1>7
  <2>2. page' = [todo |-> newest, more |-> newest # All, oldest |-> m]
    BY <1>1, <1>7, <2>1
  <2>3. m \in 1..Len(log)
    BY <1>5
  <2>4. page' \in Pages /\ page'.todo = newest /\ page'.oldest = m /\ page'.more = (newest # All)
    BY <1>5, <2>2, <2>3 DEF Pages
  <2>5. \A n \in All \ newest : n < m /\ newest # All
    BY <1>3, <2>1
  <2>6. \A n \in All \ page'.todo : page'.more /\ n < page'.oldest
    BY <2>4, <2>5
  <2>7. \A n \in page'.todo : page'.oldest <= n
    BY <2>1, <2>4
  <2>8. page'.oldest <= Len(log) /\ page'.oldest > 0
    BY <1>2, <2>3, <2>4
  <2> QED BY <1>3, <2>4, <2>6, <2>7, <2>8
<1> QED BY <1>6, <1>7

LEMMA LoweredPage ==
    ASSUME TypeOK, SendPage
    PROVE  /\ Min(page.todo) \in page.todo /\ \A y \in page.todo : Min(page.todo) <= y
           /\ page' \in Pages /\ page'.todo = page.todo \ {Min(page.todo)}
           /\ page'.more = page.more /\ page'.oldest = page.oldest
<1>1. page \in Pages /\ page.todo \in SUBSET Nat /\ page.todo # {}
  BY DEF TypeOK, HandlerOK, Pages, SendPage
<1>2. Min(page.todo) \in page.todo /\ \A y \in page.todo : Min(page.todo) <= y
  BY <1>1, Least
<1>3. page' = [page EXCEPT !.todo = @ \ {Min(page.todo)}]
  BY DEF SendPage
<1>4. /\ page' \in Pages /\ page'.todo = page.todo \ {Min(page.todo)}
      /\ page'.more = page.more /\ page'.oldest = page.oldest
  BY <1>1, <1>3 DEF Pages
<1> QED BY <1>2, <1>4

LEMMA HandlerStepTyped == ASSUME TypeOK, [Next]_vars PROVE HandlerOK'
<1>0. /\ LogOK' /\ Grown /\ given' = given
      /\ svc \in Services /\ request \in Cursors /\ told \in Nat
      /\ page \in Pages /\ (svc # "page" => page = NoPage)
      /\ page.todo \subseteq 1..Len(log) /\ page.oldest <= Len(log)
      /\ page.more => page.oldest > 0
  BY LogStep DEF TypeOK, HandlerOK
<1>1. /\ page.todo \subseteq 1..Len(log') /\ page.oldest <= Len(log')
      /\ page.oldest \in Nat
  BY <1>0 DEF Grown, Pages
<1>2. ASSUME page' = page, svc' = svc \/ page = NoPage, svc' \in Services,
             request' \in Cursors, told' \in Nat
      PROVE  HandlerOK'
  BY <1>0, <1>1, <1>2 DEF HandlerOK
<1>3. ASSUME page' = NoPage, svc' \in Services, request' \in Cursors, told' \in Nat
      PROVE  HandlerOK'
  <2>1. page' \in Pages /\ page'.todo = {} /\ ~page'.more /\ page'.oldest = 0
    BY <1>3, NonesTyped
  <2> QED BY <1>0, <1>3, <2>1 DEF HandlerOK, Grown
<1>4. CASE \/ \E kind \in {"message", "other"} : Post(kind)
           \/ \E n \in flights : Fan(n)
           \/ \E n \in leaving : Left(n)
           \/ Deliver \/ Notify \/ Idle \/ UNCHANGED vars
  <2>1. page' = page /\ svc' = svc /\ request' = request /\ told' = told
    BY <1>4 DEF Post, Fan, Left, Deliver, Notify, Idle, vars, handler
  <2> QED BY <1>0, <1>2, <2>1
<1>5. CASE Announce("other", "presence", "notice") \/ Announce("message", "notice", "ready")
  <2>1. /\ page' = page /\ page = NoPage /\ svc' \in Services /\ request' = request
        /\ told' = Len(log')
    BY <1>0, <1>5 DEF Announce, Services
  <2> QED BY <1>0, <1>2, <2>1 DEF Grown
<1>6. CASE Hello \/ Insert
  BY <1>0, <1>2, <1>6 DEF Hello, Insert, Services
<1>7. CASE Open
  <2>1. page = NoPage /\ page' = page /\ told' = told /\ svc' \in Services
    BY <1>0, <1>7 DEF Open, Connected, Services
  <2>2. request' \in Cursors
    <3> DEFINE from == resolveConnectAfterSeq(LocalMessageCount, joinSeq, afterSeq)
    <3>1. from \in Nat /\ joinSeq \in Nat
      BY DEF resolveConnectAfterSeq, TypeOK, BrowserOK
    <3>2. request' = [NoCursors EXCEPT !.after = from, !.join = joinSeq]
      BY <1>7 DEF Open
    <3> HIDE DEF from
    <3> QED BY <3>1, <3>2 DEF NoCursors, Cursors
  <2> QED BY <1>0, <1>2, <2>1, <2>2
<1>8. CASE LoadOlder
  <2>1. page = NoPage /\ page' = page /\ told' = told /\ svc' \in Services
    BY <1>0, <1>8 DEF LoadOlder, Services
  <2>2. request' \in Cursors
    BY <1>8 DEF LoadOlder, Cursors, TypeOK, BrowserOK, Pagers
  <2> QED BY <1>0, <1>2, <2>1, <2>2
<1>9. CASE Select
  <2>1. /\ page' \in Pages /\ page'.todo \subseteq All /\ page'.oldest <= Len(log)
        /\ page'.more => page'.oldest > 0
    BY <1>9, Selected
  <2>2. svc' = "page" /\ request' = request /\ told' = told /\ log' = log /\ svc' \in Services
    BY <1>9 DEF Select, server, Services
  <2>3. page'.todo \subseteq 1..Len(log)
    BY <2>1 DEF All
  <2> QED BY <1>0, <2>1, <2>2, <2>3 DEF HandlerOK
<1>10. CASE SendPage
  <2>1. /\ page' \in Pages /\ page'.todo \subseteq page.todo
        /\ page'.more = page.more /\ page'.oldest = page.oldest
    BY <1>10, LoweredPage
  <2>2. svc' = svc /\ svc = "page" /\ request' = request /\ told' = told /\ log' = log
    BY <1>10 DEF SendPage, server
  <2> QED BY <1>0, <2>1, <2>2 DEF HandlerOK
<1>11. CASE EndPage
  BY <1>0, <1>3, <1>11 DEF EndPage, Services
<1>12. CASE Drop \/ Reload
  <2>1. svc' = "none" /\ request' = NoCursors /\ page' = NoPage /\ told' = 0
    BY <1>12 DEF Drop, Reload, Disconnect
  <2> QED BY <1>3, <2>1, NonesTyped DEF Services
<1> QED BY <1>4, <1>5, <1>6, <1>7, <1>8, <1>9, <1>10, <1>11, <1>12 DEF Next, HandlerStep

(* How a step leaves the wire: as it was, with a packet more, without its   *)
(* head, or, when the connection is lost, empty.                            *)
Carries(type, seq, more) ==
    /\ Len(wire') = Len(wire) + 1
    /\ wire'[Len(wire) + 1].type = type /\ wire'[Len(wire) + 1].seq = seq
    /\ wire'[Len(wire) + 1].more = more
    /\ \A i \in 1..Len(wire) : wire'[i] = wire[i]

LEMMA WireStep == ASSUME TypeOK, [Next]_vars PROVE WireOK'
<1>0. /\ HandlerOK' /\ Grown /\ given' = given
      /\ wire \in Seq(Packets) /\ Len(wire) \in Nat
      /\ \A i \in 1..Len(wire) : wire[i] \in Packets
      /\ flights \subseteq 1..Len(log) /\ page.todo \subseteq 1..Len(log)
      /\ page.oldest \in Nat /\ page.oldest <= Len(log) /\ (page.more => page.oldest > 0)
      /\ page.more \in BOOLEAN
  BY LogStep, HandlerStepTyped, LenProperties, ElementOfSeq DEF TypeOK, LogOK, HandlerOK, WireOK, Pages
<1>1. ASSUME wire' = wire PROVE WireOK'
  BY <1>0, <1>1 DEF TypeOK, WireOK, Grown, Packets
<1>2. ASSUME NEW type \in {"hello", "event", "history_page"}, NEW seq \in Nat, NEW more \in BOOLEAN,
             wire' = Append(wire, Packet(type, seq, more)), seq <= Len(log),
             type = "event" => seq > 0, more => seq > 0
      PROVE  WireOK'
  <2>1. wire' \in Seq(Packets) /\ Carries(type, seq, more)
    BY <1>2, Sent DEF Carries
  <2>2. \A i \in 1..Len(wire') : i \in 1..Len(wire) \/ i = Len(wire) + 1
    BY <1>0, <2>1 DEF Carries
  <2>3. \A i \in 1..Len(wire) : wire[i].seq \in Nat
    BY <1>0 DEF Packets
  <2> QED BY <1>0, <1>2, <2>1, <2>2, <2>3 DEF TypeOK, WireOK, Grown, Carries
<1>3. CASE Deliver
  <2>1. /\ wire' \in Seq(Packets) /\ Len(wire') = Len(wire) - 1
        /\ \A i \in 1..Len(wire) - 1 : wire'[i] = wire[i + 1]
    BY <1>0, <1>3, Tailed DEF Deliver
  <2>2. \A i \in 1..Len(wire') : i + 1 \in 1..Len(wire) /\ wire'[i] = wire[i + 1]
    BY <1>0, <2>1
  <2>3. log' = log
    BY <1>3 DEF Deliver, server
  <2> QED BY <2>1, <2>2, <2>3 DEF TypeOK, WireOK
<1>4. CASE Drop \/ Reload
  <2>1. wire' = <<>>
    BY <1>4 DEF Drop, Reload, Disconnect
  <2>2. wire' \in Seq(Packets) /\ Len(wire') = 0
    BY <2>1, EmptySeq
  <2> QED BY <2>2 DEF WireOK
<1>5. CASE \E n \in flights : Fan(n)
  <2>1. PICK n \in flights : Fan(n)
    BY <1>5
  <2>2. n \in Nat /\ n > 0 /\ n <= Len(log)
    BY <1>0
  <2> QED BY <1>1, <1>2, <2>1, <2>2 DEF Fan
<1>6. CASE Hello
  <2>1. PICK l \in Nat : l = Len(log)
    BY <1>0 DEF Grown
  <2>2. wire' = Append(wire, Packet("hello", l, FALSE))
    BY <1>6, <2>1 DEF Hello
  <2>3. l <= Len(log) /\ "hello" # "event"
    BY <2>1
  <2> QED BY <1>2, <2>2, <2>3
<1>7. CASE SendPage
  <2>1. PICK n \in page.todo : wire' = Append(wire, Packet("event", n, FALSE))
    BY <1>7, LoweredPage DEF SendPage
  <2>2. n \in Nat /\ n > 0 /\ n <= Len(log)
    BY <1>0
  <2> QED BY <1>2, <2>1, <2>2
<1>8. CASE EndPage
  BY <1>0, <1>2, <1>8 DEF EndPage
<1>9. CASE \/ \E kind \in {"message", "other"} : Post(kind)
           \/ \E n \in leaving : Left(n)
           \/ Insert \/ Select \/ Open \/ LoadOlder \/ Notify \/ Idle \/ UNCHANGED vars
           \/ Announce("other", "presence", "notice") \/ Announce("message", "notice", "ready")
  BY <1>1, <1>9 DEF Post, Left, Insert, Select, Open, LoadOlder, Notify, Idle, vars, Announce
<1> QED BY <1>3, <1>4, <1>5, <1>6, <1>7, <1>8, <1>9 DEF Next, HandlerStep

(* What the browser makes of a packet.                                      *)
LEMMA Handled ==
    ASSUME TypeOK, Deliver
    PROVE  /\ wire[1] \in Packets /\ Len(wire) \in Nat /\ Len(wire) > 0
           /\ Len(wire') = Len(wire) - 1 /\ \A i \in 1..Len(wire') : wire'[i] = wire[i + 1]
           /\ wire[1].type = "event" =>
                 /\ afterSeq' = (IF afterSeq >= wire[1].seq THEN afterSeq ELSE wire[1].seq)
                 /\ joinSeq' = joinSeq /\ pager' = pager
                 /\ mem' = IF IsMessage(wire[1].seq) THEN mem \cup {wire[1].seq} ELSE mem
           /\ wire[1].type = "hello" =>
                 /\ afterSeq' = afterSeq /\ mem' = mem /\ pager' = NoPager
                 /\ joinSeq' = IF joinSeq = 0 THEN wire[1].seq ELSE joinSeq
           /\ wire[1].type = "history_page" =>
                 /\ afterSeq' = afterSeq /\ mem' = mem /\ joinSeq' = joinSeq
                 /\ pager' \in Pagers /\ ~pager'.loading /\ pager'.more = wire[1].more
                 /\ pager'.oldest \in {0, wire[1].seq}
                 /\ wire[1].more => pager'.oldest = wire[1].seq
<1>1. /\ wire[1] \in Packets /\ Head(wire) = wire[1] /\ Len(wire) \in Nat /\ Len(wire) > 0
      /\ Len(wire') = Len(wire) - 1 /\ \A i \in 1..Len(wire') : wire'[i] = wire[i + 1]
  BY Tailed DEF TypeOK, WireOK, Deliver
<1>2. /\ 1 \in 1..Len(wire) /\ wire[1].seq \in Nat /\ afterSeq \in Nat /\ pager \in Pagers
      /\ wire[1].more \in BOOLEAN
      /\ wire[1].type = "history_page" /\ wire[1].more => wire[1].seq > 0
  BY <1>1 DEF TypeOK, WireOK, BrowserOK, Packets
<1>3. HandleEvent(wire[1])
  BY <1>1 DEF Deliver
<1>4. CASE wire[1].type = "event"
  BY <1>1, <1>2, <1>3, <1>4, MaxOfTwo DEF HandleEvent
<1>5. CASE wire[1].type = "hello"
  BY <1>1, <1>2, <1>3, <1>5 DEF HandleEvent
<1>6. CASE wire[1].type = "history_page"
  <2>1. pager' = [more |-> wire[1].more, loading |-> FALSE,
                  oldest |-> IF wire[1].seq > 0 THEN wire[1].seq
                             ELSE IF wire[1].more THEN pager.oldest ELSE 0]
    BY <1>3, <1>6 DEF HandleEvent
  <2>2. pager' = [more |-> wire[1].more, loading |-> FALSE,
                  oldest |-> IF wire[1].seq > 0 THEN wire[1].seq ELSE 0]
    BY <1>2, <1>6, <2>1
  <2>3. /\ pager' \in Pagers /\ ~pager'.loading /\ pager'.more = wire[1].more
        /\ pager'.oldest = IF wire[1].seq > 0 THEN wire[1].seq ELSE 0
    BY <1>2, <2>2 DEF Pagers
  <2> QED BY <1>1, <1>2, <1>3, <1>6, <2>3 DEF HandleEvent
<1> QED BY <1>1, <1>4, <1>5, <1>6 DEF Packets

LEMMA BrowserStep == ASSUME TypeOK, [Next]_vars PROVE BrowserOK' /\ CountsOK'
<1>0. /\ Grown /\ given' = given /\ given.MaxReloads \in Nat /\ wire \in Seq(Packets)
      /\ joinSeq \in Nat /\ afterSeq \in Nat /\ afterSeq <= Len(log)
      /\ mem \subseteq 1..Len(log) /\ \A n \in mem : IsMessage(n)
      /\ notice \in BOOLEAN /\ (notice => given.Notices)
      /\ pager \in Pagers /\ pager.oldest <= Len(log) /\ pager.oldest \in Nat
      /\ CountsOK
  BY LogStep, GivenTyped DEF TypeOK, LogOK, BrowserOK, Pagers, WireOK
<1>1. /\ afterSeq <= Len(log') /\ mem \subseteq 1..Len(log') /\ pager.oldest <= Len(log')
      /\ \A n \in 1..Len(log) : IsMessage(n)' <=> IsMessage(n)
  BY <1>0 DEF Grown, IsMessage
<1>2. ASSUME UNCHANGED <<storage, mem, notice>>,
             \/ pager' = pager
             \/ pager' = NoPager
             \/ pager' = [pager EXCEPT !.loading = TRUE]
      PROVE  BrowserOK'
  <2>1. pager' \in Pagers /\ pager'.oldest <= Len(log')
    <3>1. CASE pager' = pager
      BY <1>0, <1>1, <3>1
    <3>2. CASE pager' = NoPager
      BY <1>0, <3>2, NonesTyped DEF Grown
    <3>3. CASE pager' = [pager EXCEPT !.loading = TRUE]
      <4>1. pager' \in Pagers /\ pager'.oldest = pager.oldest
        BY <1>0, <3>3 DEF Pagers
      <4> QED BY <1>1, <4>1
    <3> QED BY <1>2, <3>1, <3>2, <3>3
  <2>2. \A n \in mem' : IsMessage(n)'
    BY <1>0, <1>1, <1>2
  <2> QED BY <1>0, <1>1, <1>2, <2>1, <2>2 DEF BrowserOK, storage
<1>3. CASE Deliver
  <2>1. CountsOK'
    <3>1. boundary' \in Nat
      BY <1>3, <1>0, Handled, Tailed DEF Deliver, CountsOK, Packets
    <3>2. met' \in BOOLEAN /\ UNCHANGED <<given, posts, drops, reloads>>
      BY <1>3 DEF Deliver
    <3> QED BY <1>0, <3>1, <3>2 DEF CountsOK
  <2>2. log' = log /\ notice' = notice /\ Len(log) \in Nat
    BY <1>0, <1>3 DEF Deliver, server, HandleEvent, Grown
  <2>3. /\ wire[1] \in Packets /\ wire[1].seq \in Nat /\ wire[1].seq <= Len(log)
        /\ wire[1].type = "event" => wire[1].seq > 0
    BY <1>3, Handled DEF TypeOK, WireOK, Packets
  <2>4. CASE wire[1].type = "event"
    <3>1. mem' \subseteq 1..Len(log) /\ \A n \in mem' : IsMessage(n)
      <4>1. PICK m \in 1..Len(log) : m = wire[1].seq
        BY <2>2, <2>3, <2>4
      <4>2. mem' = IF IsMessage(m) THEN mem \cup {m} ELSE mem
        BY <1>3, <2>4, <4>1, Handled
      <4> QED BY <1>0, <4>2
    <3>2. afterSeq' \in Nat /\ afterSeq' <= Len(log) /\ joinSeq' = joinSeq /\ pager' = pager
      BY <1>0, <1>3, <2>3, <2>4, Handled
    <3> QED BY <1>0, <2>1, <2>2, <3>1, <3>2 DEF BrowserOK, IsMessage
  <2>5. CASE wire[1].type = "hello"
    <3>1. afterSeq' = afterSeq /\ mem' = mem /\ joinSeq' \in Nat /\ pager' = NoPager
      BY <1>0, <1>3, <2>3, <2>5, Handled
    <3> QED BY <1>0, <2>1, <2>2, <3>1, NonesTyped DEF BrowserOK, IsMessage
  <2>6. CASE wire[1].type = "history_page"
    <3>1. /\ afterSeq' = afterSeq /\ mem' = mem /\ joinSeq' = joinSeq
          /\ pager' \in Pagers /\ pager'.oldest <= Len(log)
      BY <1>0, <1>3, <2>2, <2>3, <2>6, Handled
    <3> QED BY <1>0, <2>1, <2>2, <3>1 DEF BrowserOK, IsMessage
  <2> QED BY <2>3, <2>4, <2>5, <2>6 DEF Packets
<1>4. CASE Drop
  <2>1. CountsOK'
    BY <1>0, <1>4 DEF Drop, CountsOK
  <2> QED BY <1>2, <1>4, <2>1 DEF Drop, memory
<1>5. CASE Reload
  <2>1. CountsOK'
    BY <1>0, <1>5 DEF Reload, CountsOK
  <2>2. mem' = {} /\ notice' = FALSE /\ pager' = NoPager /\ UNCHANGED storage
    BY <1>5 DEF Reload
  <2>3. \A n \in mem' : FALSE
    BY <2>2
  <2>4. ~notice' /\ notice' \in BOOLEAN
    BY <2>2
  <2> QED BY <1>0, <1>1, <2>1, <2>2, <2>3, <2>4, NonesTyped DEF BrowserOK, storage, Grown
<1>6. CASE \E kind \in {"message", "other"} : Post(kind)
  <2>1. CountsOK'
    BY <1>0, <1>6 DEF Post, CountsOK
  <2> QED BY <1>2, <1>6, <2>1 DEF Post, memory
<1>7. CASE Hello
  <2>1. CountsOK'
    BY <1>0, <1>7 DEF Hello, CountsOK
  <2> QED BY <1>2, <1>7, <2>1 DEF Hello, memory
<1>8. CASE Notify
  <2>1. CountsOK'
    BY <1>0, <1>8 DEF Notify, bounds, CountsOK
  <2>2. /\ UNCHANGED <<storage, mem, pager>> /\ notice' = TRUE /\ given.Notices
    BY <1>8 DEF Notify
  <2>3. \A n \in mem' : IsMessage(n)'
    BY <1>0, <1>1, <2>2
  <2> QED BY <1>0, <1>1, <2>1, <2>2, <2>3 DEF BrowserOK, storage
<1>9. CASE LoadOlder
  <2>1. CountsOK'
    BY <1>0, <1>9 DEF LoadOlder, bounds, CountsOK
  <2> QED BY <1>2, <1>9, <2>1 DEF LoadOlder
<1>10. CASE \/ \E n \in flights : Fan(n)
            \/ \E n \in leaving : Left(n)
            \/ Insert \/ Select \/ SendPage \/ EndPage \/ Open \/ Idle \/ UNCHANGED vars
            \/ Announce("other", "presence", "notice") \/ Announce("message", "notice", "ready")
  <2>1. UNCHANGED <<bounds, storage, memory>>
    BY <1>10 DEF Fan, Left, Insert, Select, SendPage, EndPage, Open, Idle, vars, Announce
  <2>2. CountsOK'
    BY <1>0, <2>1 DEF bounds, CountsOK
  <2> QED BY <1>2, <2>1, <2>2 DEF memory
<1> QED BY <1>3, <1>4, <1>5, <1>6, <1>7, <1>8, <1>9, <1>10 DEF Next, HandlerStep

(* Every state the browser and its room reach is of its type, for any room, *)
(* page size and number of posts, losses and reloads.                       *)
THEOREM TypeCorrect == Spec => []TypeOK
<1>1. TypeOK /\ [Next]_vars => TypeOK'
  BY LogStep, HandlerStepTyped, WireStep, BrowserStep DEF TypeOK
<1> QED BY <1>1, InitTyped, PTL DEF Spec

-----------------------------------------------------------------------------
(* The spinner of a page of older messages *)

LEMMA ComingStep == ASSUME TypeOK, PageComing, [Next]_vars PROVE PageComing'
<1> DEFINE Ends(i) == wire[i].type \in {"hello", "history_page"}
           Ended == \E i \in 1..Len(wire) : Ends(i)
<1>0. /\ Len(wire) \in Nat /\ wire \in Seq(Packets)
      /\ pager.loading => svc \in {"none", "hello"} \/ (svc \in {"select", "page"} /\ request.before > 0) \/ Ended
  BY LenProperties DEF TypeOK, WireOK, PageComing
<1>1. ASSUME svc' \in {"none", "hello"} \/ ~pager'.loading PROVE PageComing'
  BY <1>1 DEF PageComing
<1>2. ASSUME NEW type \in {"hello", "event", "history_page"}, NEW seq \in Nat, NEW more \in BOOLEAN,
             wire' = Append(wire, Packet(type, seq, more)), pager' = pager, request' = request,
             type = "event" => svc' = svc
      PROVE  PageComing'
  <2>1. Carries(type, seq, more)
    BY <1>2, Sent DEF Carries
  <2>2. Ended => Ended'
    BY <1>0, <2>1 DEF Carries
  <2>3. type # "event" => Ended'
    BY <1>0, <2>1 DEF Carries
  <2> QED BY <1>0, <1>2, <2>2, <2>3 DEF PageComing
<1>3. ASSUME wire' = wire, pager' = pager, request' = request,
             svc' = svc \/ (svc = "select" /\ svc' = "page") \/ svc \notin {"none", "hello", "select", "page"}
      PROVE  PageComing'
  BY <1>0, <1>3 DEF PageComing
<1>4. CASE Deliver
  <2>1. CASE wire[1].type = "event"
    <3>1. pager' = pager /\ svc' = svc /\ request' = request
      BY <1>4, <2>1, Handled DEF Deliver, handler
    <3>2. Ended => Ended'
      <4> SUFFICES ASSUME NEW i \in 1..Len(wire), Ends(i) PROVE Ended'
        OBVIOUS
      <4>1. i # 1
        BY <2>1
      <4>2. i - 1 \in 1..Len(wire') /\ wire'[i - 1] = wire[i]
        BY <1>0, <1>4, <4>1, Handled
      <4> QED BY <4>2
    <3> QED BY <1>0, <3>1, <3>2 DEF PageComing
  <2>2. CASE wire[1].type # "event"
    BY <1>1, <1>4, <2>2, Handled, NonesTyped DEF Packets
  <2> QED BY <2>1, <2>2
<1>5. CASE Drop \/ Reload
  BY <1>1, <1>5 DEF Drop, Reload, Disconnect
<1>6. CASE \E n \in flights : Fan(n)
  <2>1. PICK n \in flights : Fan(n)
    BY <1>6
  <2>2. n \in Nat
    BY <2>1 DEF TypeOK, LogOK
  <2> QED BY <1>2, <1>3, <2>1, <2>2 DEF Fan, handler, memory
<1>7. CASE Hello
  <2>1. PICK l \in Nat : l = Len(log)
    BY LenProperties DEF TypeOK, LogOK
  <2>2. wire' = Append(wire, Packet("hello", l, FALSE))
    BY <1>7, <2>1 DEF Hello
  <2>3. pager' = pager /\ request' = request /\ "hello" # "event"
    BY <1>7 DEF Hello, memory
  <2> QED BY <1>2, <2>2, <2>3
<1>8. CASE SendPage
  <2>1. PICK n \in page.todo : wire' = Append(wire, Packet("event", n, FALSE))
    BY <1>8, LoweredPage DEF SendPage
  <2>4. n \in Nat
    BY DEF TypeOK, HandlerOK
  <2>2. pager' = pager /\ request' = request /\ svc' = svc
    BY <1>8 DEF SendPage, memory
  <2> QED BY <1>2, <2>1, <2>2, <2>4
<1>9. CASE EndPage
  BY <1>2, <1>9 DEF EndPage, memory, TypeOK, HandlerOK, Pages
<1>10. CASE LoadOlder
  BY <1>10 DEF LoadOlder, PageComing, TypeOK, BrowserOK, Pagers
<1>11. CASE Open
  BY <1>1, <1>11 DEF Open
<1>12. CASE \/ \E kind \in {"message", "other"} : Post(kind)
            \/ \E n \in leaving : Left(n)
            \/ Insert \/ Select \/ Notify \/ Idle \/ UNCHANGED vars
            \/ Announce("other", "presence", "notice") \/ Announce("message", "notice", "ready")
  BY <1>3, <1>12 DEF Post, Left, Insert, Select, Notify, Idle, vars, handler, memory, Announce
<1> QED BY <1>4, <1>5, <1>6, <1>7, <1>8, <1>9, <1>10, <1>11, <1>12 DEF Next, HandlerStep

(* The spinner always has an end in sight (PageComing).                     *)
THEOREM SpinnersEnd == Spec => []PageComing
<1>1. Init => PageComing
  BY NonesTyped DEF Init, PageComing
<1>2. TypeOK /\ PageComing /\ [Next]_vars => PageComing'
  BY ComingStep
<1> QED BY <1>1, <1>2, TypeCorrect, PTL DEF Spec

-----------------------------------------------------------------------------
(* Nothing from before the join *)

(* The Seq of the first hello, once it is sent.                             *)
Greeted  == met \/ svc \notin {"none", "hello"}
Bound    == IF met THEN boundary ELSE wire[1].seq
Since(n) == n > Bound \/ n \in early

(* Before the first hello arrives nothing has, and it is the first to; the  *)
(* connection is not lost before that.                                      *)
New ==
    /\ mem = {} /\ joinSeq = 0 /\ afterSeq = 0 /\ pager = NoPager /\ boundary = 0
    /\ request = NoCursors
    /\ IF Greeted THEN wire # <<>> /\ wire[1].type = "hello" ELSE wire = <<>>

(* From then on nothing older is on its way to the browser, and the join    *)
(* boundary it sends with each command keeps it so.                         *)
Bounded ==
    /\ Bound \in Nat /\ Bound <= Len(log)
    /\ given.Log # <<>> => Bound > 0
    /\ \A n \in flights \cup page.todo \cup mem : Since(n)
    /\ \A i \in 1..Len(wire) : wire[i].type = "event" => Since(wire[i].seq)
    /\ svc # "none" => request = NoCursors \/ request.join = Bound \/ Bound = 0

LeakInv ==
    /\ ~met => New
    /\ Greeted => Bounded
    /\ met /\ boundary > 0 => joinSeq = boundary

LEMMA FloorAbove ==
    ASSUME NEW r \in Cursors, NEW b \in Nat, b <= Len(log), log \in Seq({"message", "other"}),
           r = NoCursors \/ r.join = b \/ b = 0
    PROVE  Floor(r) \in Nat /\ Floor(r) >= b
<1>0. Len(log) \in Nat /\ r.after \in Nat /\ r.join \in Nat /\ r.before \in Nat
  BY LenProperties DEF Cursors
<1>1. Max({r.after, r.join}) \in Nat /\ Max({r.after, r.join}) >= r.join
  BY <1>0, MaxOfTwo
<1>2. CASE r = NoCursors
  BY <1>0, <1>2, NonesTyped DEF Floor
<1>3. CASE r.join = b \/ b = 0
  BY <1>0, <1>1, <1>3 DEF Floor
<1> QED BY <1>2, <1>3

(* A step that delivers nothing and sends nothing.                          *)
LEMMA LeakQuiet ==
    ASSUME TypeOK, LeakInv, Grown, given' = given,
           UNCHANGED <<wire, joinSeq, afterSeq, mem, met, boundary, early>>,
           Greeted' => Greeted, Greeted => Greeted',
           flights' \subseteq flights \cup {Len(log')},
           Len(log') > Len(log) \/ flights' \subseteq flights,
           Greeted => \A n \in page'.todo : n \in page.todo \/ n > Bound,
           ~met => request' = NoCursors /\ pager' = pager,
           Greeted /\ svc' # "none" => request' = NoCursors \/ request'.join = Bound \/ Bound = 0
    PROVE  LeakInv'
<1>1. Bound' = Bound /\ early' = early
  BY DEF Bound, Since
<1>2. ~met' => New'
  BY DEF LeakInv, New, Greeted
<1>3. ASSUME Greeted' PROVE Bounded'
  <2>0. Bounded /\ Len(log) \in Nat /\ Len(log') \in Nat /\ Len(log) <= Len(log')
    BY <1>3 DEF LeakInv, Grown
  <2>1. Bound' \in Nat /\ Bound' <= Len(log') /\ (given.Log # <<>> => Bound' > 0)
    BY <1>1, <2>0 DEF Bounded
  <2>2. \A n \in flights' : Since(n)'
    BY <1>1, <2>0 DEF Bounded, Since
  <2>3. \A n \in page'.todo \cup mem' : Since(n)'
    BY <1>1, <1>3, <2>0 DEF Bounded, Since
  <2>4. \A i \in 1..Len(wire') : wire'[i].type = "event" => Since(wire'[i].seq)
    BY <1>1, <2>0 DEF Bounded, Since
  <2> QED BY <1>1, <1>3, <2>1, <2>2, <2>3, <2>4 DEF Bounded, Since
<1> QED BY <1>2, <1>3 DEF LeakInv

(* A packet is sent to a browser that was sent a hello before.              *)
LEMMA LeakSend ==
    ASSUME TypeOK, LeakInv, Greeted, Greeted', NEW type \in {"hello", "event", "history_page"}, NEW seq \in Nat,
           NEW more \in BOOLEAN, wire' = Append(wire, Packet(type, seq, more)),
           UNCHANGED <<given, log, joinSeq, afterSeq, mem, pager, met, boundary, early, request>>,
           svc # "none", flights' \subseteq flights, page'.todo \subseteq page.todo,
           type = "event" => Since(seq)
    PROVE  LeakInv'
<1>0. Len(wire) \in Nat /\ Carries(type, seq, more) /\ (~met => New) /\ Bounded
  BY Sent DEF Carries, LeakInv
<1>1. ~met => /\ Len(wire) > 0 /\ wire'[1] = wire[1] /\ wire' # <<>>
              /\ wire[1].type = "hello"
  <2>1. ASSUME ~met PROVE Len(wire) > 0 /\ wire[1].type = "hello"
    BY <1>0, <2>1, EmptySeq DEF New, TypeOK, WireOK
  <2>2. Len(wire) > 0 => wire'[1] = wire[1] /\ wire' # <<>>
    BY <1>0, EmptySeq DEF Carries
  <2> QED BY <2>1, <2>2
<1>2. Bound' = Bound /\ early' = early
  BY <1>1 DEF Bound, Since
<1>3. ~met' => New'
  BY <1>0, <1>1 DEF New
<1>4. Bounded'
  <2>1. \A i \in 1..Len(wire') : i \in 1..Len(wire) \/ i = Len(wire) + 1
    BY <1>0 DEF Carries
  <2>2. \A i \in 1..Len(wire') : wire'[i].type = "event" => Since(wire'[i].seq)
    BY <1>0, <1>2, <2>1 DEF Carries, Bounded, Since
  <2> QED BY <1>0, <1>2, <2>2 DEF Bounded, Since
<1> QED BY <1>3, <1>4 DEF LeakInv

LEMMA LeakStep == ASSUME TypeOK, TypeOK', LeakInv, [Next]_vars PROVE LeakInv'
<1>0. /\ Grown /\ given' = given /\ Len(log) \in Nat /\ Len(log') \in Nat
      /\ log \in Seq({"message", "other"}) /\ request \in Cursors
      /\ Len(wire) \in Nat /\ wire \in Seq(Packets) /\ \A i \in 1..Len(wire) : wire[i] \in Packets
      /\ flights \subseteq 1..Len(log) /\ page.todo \subseteq 1..Len(log)
      /\ (~met => New) /\ (Greeted => Bounded)
      /\ met \in BOOLEAN /\ joinSeq \in Nat /\ boundary \in Nat
  BY LogStep, LenProperties, ElementOfSeq
     DEF TypeOK, LogOK, HandlerOK, WireOK, BrowserOK, CountsOK, LeakInv, Grown
<1>1. /\ met => Bound = boundary
      /\ Greeted /\ svc # "none" => request = NoCursors \/ request.join = Bound \/ Bound = 0
      /\ ~met => request = NoCursors
  BY <1>0 DEF Bound, Bounded, New
<1>2. CASE \E kind \in {"message", "other"} : Post(kind)
  <2>1. PICK kind \in {"message", "other"} : Post(kind)
    BY <1>2
  <2>2. flights' = flights \cup {Len(log')} /\ Len(log') > Len(log)
    BY <1>0, <2>1, Stored DEF Post
  <2>3. UNCHANGED <<wire, joinSeq, afterSeq, mem, met, boundary, early, svc, request, page, pager>>
    BY <2>1 DEF Post, handler, storage, memory
  <2> QED BY <1>0, <1>1, <2>2, <2>3, LeakQuiet DEF Greeted
<1>3. CASE \E n \in leaving : Left(n)
  <2>2. flights' = flights \cup {Len(log')} /\ Len(log') > Len(log)
    BY <1>0, <1>3, Stored DEF Left
  <2>3. UNCHANGED <<wire, joinSeq, afterSeq, mem, met, boundary, early, svc, request, page, pager>>
    BY <1>3 DEF Left, handler, storage, memory, bounds
  <2> QED BY <1>0, <1>1, <2>2, <2>3, LeakQuiet DEF Greeted
<1>4. CASE Announce("other", "presence", "notice") \/ Announce("message", "notice", "ready")
  <2>2. flights' = flights \cup {Len(log')} /\ Len(log') > Len(log)
    BY <1>0, <1>4, Stored DEF Announce
  <2>3. UNCHANGED <<wire, joinSeq, afterSeq, mem, met, boundary, early, request, page, pager>>
    BY <1>4 DEF Announce, storage, memory, bounds
  <2>4. svc \in {"presence", "notice"} /\ svc' \in {"notice", "ready"}
    BY <1>4 DEF Announce
  <2> QED BY <1>0, <1>1, <2>2, <2>3, <2>4, LeakQuiet DEF Greeted
<1>5. CASE Insert \/ Notify \/ Idle \/ UNCHANGED vars
  <2>1. /\ UNCHANGED <<wire, joinSeq, afterSeq, mem, met, boundary, early, request, page, pager, flights>>
        /\ svc' = svc \/ (svc = "insert" /\ svc' = "select")
    BY <1>5 DEF Insert, Notify, Idle, vars, server, handler, storage, memory, bounds
  <2> QED BY <1>0, <1>1, <2>1, LeakQuiet DEF Greeted
<1>6. CASE Select
  <2>1. /\ UNCHANGED <<wire, joinSeq, afterSeq, mem, met, boundary, early, request, pager, flights>>
        /\ svc = "select" /\ svc' = "page" /\ Greeted /\ Greeted'
    BY <1>6 DEF Select, server, storage, memory, bounds, Greeted
  <2>2. PICK b \in Nat : b = Bound /\ b <= Len(log) /\ (request = NoCursors \/ request.join = b \/ b = 0)
    BY <1>0, <1>1, <2>1 DEF Bounded
  <2>3. PICK l \in Nat : l = Floor(request) /\ l >= b
    BY <1>0, <2>2, FloorAbove
  <2>4. \A n \in page'.todo : n \in Nat /\ n > l
    BY <1>0, <1>6, <2>3, Selected DEF All
  <2>5. \A n \in page'.todo : n > Bound
    BY <2>2, <2>3, <2>4
  <2> QED BY <1>0, <1>1, <2>1, <2>5, LeakQuiet
<1>7. CASE Open
  <2>1. /\ UNCHANGED <<wire, joinSeq, afterSeq, mem, met, boundary, early, page, pager, flights>>
        /\ svc = "none" /\ svc' = "hello"
    BY <1>7 DEF Open, server, storage, memory, bounds, Connected
  <2> DEFINE from == resolveConnectAfterSeq(LocalMessageCount, joinSeq, afterSeq)
  <2>2. request' = [after |-> from, join |-> joinSeq, before |-> 0]
    BY <1>7 DEF Open, NoCursors
  <2>3. request'.join = joinSeq
    BY <2>2
  <2>4. ASSUME ~met PROVE request' = NoCursors
    <3>1. from = 0 /\ joinSeq = 0
      BY <1>0, <2>4 DEF New, resolveConnectAfterSeq
    <3> QED BY <2>2, <3>1 DEF NoCursors
  <2>5. met => joinSeq = Bound \/ Bound = 0
    BY <1>0, <1>1 DEF LeakInv
  <2> QED BY <1>0, <2>1, <2>3, <2>4, <2>5, LeakQuiet DEF Greeted
<1>8. CASE LoadOlder
  <2>1. /\ UNCHANGED <<wire, joinSeq, afterSeq, mem, met, boundary, early, page, flights>>
        /\ svc = "ready" /\ svc' = "select" /\ pager.more
    BY <1>8 DEF LoadOlder, server, storage, bounds
  <2>2. met
    BY <1>0, <2>1, NonesTyped DEF New
  <2>3. request' = [after |-> 0, join |-> joinSeq, before |-> pager.oldest]
    BY <1>8 DEF LoadOlder
  <2>4. request'.join = joinSeq
    BY <2>3
  <2>5. joinSeq = Bound \/ Bound = 0
    BY <1>0, <1>1, <2>2 DEF LeakInv
  <2> QED BY <1>0, <2>1, <2>2, <2>4, <2>5, LeakQuiet DEF Greeted
<1>9. CASE \E n \in flights : Fan(n)
  <2>1. PICK n \in flights : Fan(n)
    BY <1>9
  <2>2. /\ UNCHANGED <<given, log, joinSeq, afterSeq, mem, pager, met, boundary, early, request, page, svc>>
        /\ flights' \subseteq flights /\ n \in Nat
    BY <1>0, <2>1 DEF Fan, handler, storage, memory, bounds
  <2>3. CASE InRoom
    <3>1. svc # "none" /\ Greeted /\ Greeted'
      BY <2>2, <2>3 DEF InRoom, Greeted
    <3>2. Since(n)
      BY <1>0, <3>1 DEF Bounded
    <3>3. wire' = Append(wire, Packet("event", n, FALSE))
      BY <2>1, <2>3 DEF Fan
    <3> QED BY <2>2, <3>1, <3>2, <3>3, LeakSend
  <2>4. CASE ~InRoom
    <3>1. wire' = wire
      BY <2>1, <2>4 DEF Fan
    <3> QED BY <1>0, <1>1, <2>2, <3>1, LeakQuiet DEF Greeted
  <2> QED BY <2>3, <2>4
<1>10. CASE SendPage
  <2>1. PICK n \in page.todo : wire' = Append(wire, Packet("event", n, FALSE))
    BY <1>10, LoweredPage DEF SendPage
  <2>2. /\ UNCHANGED <<given, log, joinSeq, afterSeq, mem, pager, met, boundary, early, request, flights, svc>>
        /\ page'.todo \subseteq page.todo /\ n \in Nat /\ svc = "page"
    BY <1>0, <1>10, LoweredPage DEF SendPage, server, storage, memory, bounds
  <2>3. Greeted /\ Greeted' /\ Since(n)
    BY <1>0, <2>2 DEF Greeted, Bounded
  <2> QED BY <2>1, <2>2, <2>3, LeakSend
<1>11. CASE EndPage
  <2>1. /\ UNCHANGED <<given, log, joinSeq, afterSeq, mem, pager, met, boundary, early, request, flights>>
        /\ svc = "page" /\ svc' \in {"presence", "ready"} /\ page' = NoPage
        /\ wire' = Append(wire, Packet("history_page", page.oldest, page.more))
    BY <1>11 DEF EndPage, server, storage, memory, bounds
  <2>2. page'.todo \subseteq page.todo /\ page.oldest \in Nat /\ page.more \in BOOLEAN
    BY <2>1, NonesTyped DEF TypeOK, HandlerOK, Pages
  <2> QED BY <2>1, <2>2, LeakSend DEF Greeted
<1>12. CASE Hello
  <2>1. PICK l \in Nat : l = Len(log)
    BY <1>0
  <2>2. wire' = Append(wire, Packet("hello", l, FALSE)) /\ svc = "hello" /\ svc' = "insert"
    BY <1>12, <2>1 DEF Hello
  <2>3. UNCHANGED <<given, log, joinSeq, afterSeq, mem, pager, met, boundary, request, flights, page>>
    BY <1>12 DEF Hello, server, storage, memory
  <2>4. CASE met
    <3>1. early' = early
      BY <1>12, <2>4 DEF Hello
    <3> QED BY <2>2, <2>3, <2>4, <3>1, LeakSend DEF Greeted
  <2>5. CASE ~met
    <3>1. wire = <<>> /\ early' = flights /\ New
      BY <1>0, <1>12, <2>2, <2>5 DEF Hello, New, Greeted
    <3>2. Len(wire) = 0
      BY <3>1, EmptySeq
    <3>3. Len(wire') = 1 /\ wire'[1].type = "hello" /\ wire'[1].seq = Len(log) /\ wire' # <<>>
      <4>1. Carries("hello", l, FALSE)
        BY <2>2, Sent DEF Carries
      <4> QED BY <2>1, <3>2, <4>1, EmptySeq DEF Carries
    <3>4. New' /\ Bound' = Len(log)
      BY <2>2, <2>3, <2>5, <3>1, <3>3 DEF New, Greeted, Bound
    <3>5. page'.todo = {} /\ mem' = {}
      BY <2>2, <2>3, <3>1, NonesTyped DEF TypeOK, HandlerOK, New
    <3>6. \A n \in flights' : Since(n)'
      BY <2>3, <3>1 DEF Since
    <3>7. given.Log # <<>> => Len(log) > 0
      <4>1. given.Log \in Seq({"message", "other"}) /\ Len(given.Log) <= Len(log)
        BY GivenTyped DEF TypeOK, LogOK
      <4> QED BY <1>0, <4>1, EmptySeq, LenProperties
    <3>8. \A i \in 1..Len(wire') : wire'[i].type # "event"
      BY <3>3
    <3>9. Bounded'
      <4>1. Bound' \in Nat /\ Bound' <= Len(log') /\ (given'.Log # <<>> => Bound' > 0)
        BY <1>0, <2>3, <3>4, <3>7
      <4>2. \A n \in flights' \cup page'.todo \cup mem' : Since(n)'
        BY <3>5, <3>6
      <4>3. request' = NoCursors
        BY <2>3, <3>1 DEF New
      <4> QED BY <3>8, <4>1, <4>2, <4>3 DEF Bounded
    <3> QED BY <2>3, <2>5, <3>4, <3>9 DEF LeakInv
  <2> QED BY <2>4, <2>5
<1>13. CASE Deliver
  <2>0. /\ wire[1] \in Packets /\ Len(wire) > 0 /\ 1 \in 1..Len(wire) /\ wire # <<>>
        /\ Len(wire') = Len(wire) - 1 /\ \A i \in 1..Len(wire') : wire'[i] = wire[i + 1]
        /\ UNCHANGED <<given, log, flights, svc, request, page, early>>
        /\ met' = (met \/ wire[1].type = "hello")
        /\ boundary' = IF met' /\ ~met THEN wire[1].seq ELSE boundary
    BY <1>13, Handled, Tailed, <1>0 DEF Deliver, server, handler
  <2>1. Greeted
    BY <1>0, <2>0 DEF New, Greeted
  <2>2. ~met => wire[1].type = "hello"
    BY <1>0, <2>1 DEF New
  <2>3. met' /\ Greeted' /\ Bound' = Bound
    BY <1>0, <2>0, <2>1, <2>2 DEF Greeted, Bound
  <2>4. Bound' = Bound /\ early' = early
    BY <2>0, <2>3
  <2>5. Bounded
    BY <1>0, <2>1
  <2>6. \A n \in mem' : Since(n)
    <3>1. mem' = mem \/ (wire[1].type = "event" /\ mem' = mem \cup {wire[1].seq})
      BY <1>13, <2>0, Handled DEF Packets
    <3> QED BY <2>0, <2>5, <3>1 DEF Bounded
  <2>7. \A i \in 1..Len(wire') : wire'[i].type = "event" => Since(wire'[i].seq)
    <3>1. \A i \in 1..Len(wire') : i + 1 \in 1..Len(wire)
      BY <1>0, <2>0
    <3> QED BY <2>0, <2>5, <3>1 DEF Bounded
  <2>8. Bounded'
    BY <2>0, <2>3, <2>4, <2>5, <2>6, <2>7 DEF Bounded, Since
  <2>9. boundary' > 0 => joinSeq' = boundary'
    <3>1. CASE met
      <4>1. joinSeq' = IF wire[1].type = "hello" /\ joinSeq = 0 THEN wire[1].seq ELSE joinSeq
        BY <1>13, <2>0, Handled DEF Packets
      <4>2. boundary' = boundary
        BY <2>0, <3>1
      <4> QED BY <3>1, <4>1, <4>2 DEF LeakInv
    <3>2. CASE ~met
      BY <1>0, <1>13, <2>0, <2>2, <3>2, Handled DEF New
    <3> QED BY <3>1, <3>2
  <2> QED BY <2>3, <2>8, <2>9 DEF LeakInv
<1>14. CASE Drop \/ Reload
  <2>1. /\ Disconnect /\ UNCHANGED <<storage, met, boundary, early>>
        /\ mem' \subseteq mem
    BY <1>14 DEF Drop, Reload, memory
  <2>2. /\ met /\ svc' = "none" /\ request' = NoCursors /\ page' = NoPage /\ wire' = <<>>
        /\ flights' = flights \/ (flights' = flights \cup {Len(log')} /\ Len(log') > Len(log))
    BY <1>0, <2>1, Stored DEF Disconnect, server
  <2>3. met' /\ Greeted' /\ Bounded /\ Bound' = Bound /\ early' = early
    BY <1>0, <2>1, <2>2 DEF Greeted, Bound, Since
  <2>4. page'.todo = {} /\ Len(wire') = 0
    BY <2>2, NonesTyped, EmptySeq
  <2>5. \A n \in flights' \cup mem' : Since(n)
    <3>1. \A n \in flights \cup mem : Since(n)
      BY <2>3 DEF Bounded
    <3>2. Len(log') > Len(log) => Since(Len(log'))
      BY <1>0, <2>3 DEF Bounded, Since
    <3> QED BY <2>1, <2>2, <3>1, <3>2
  <2>6. Bounded'
    BY <1>0, <2>2, <2>3, <2>4, <2>5 DEF Bounded, Grown, Since
  <2> QED BY <2>1, <2>3, <2>6 DEF LeakInv, storage
<1> QED BY <1>2, <1>3, <1>4, <1>5, <1>6, <1>7, <1>8, <1>9, <1>10, <1>11, <1>12, <1>13, <1>14
        DEF Next, HandlerStep

LEMMA LeakInitially == Init => LeakInv
BY DEF Init, LeakInv, New, Greeted

LEMMA JoinInvariant == Spec => [](TypeOK /\ LeakInv)
<1>1. Init => TypeOK /\ LeakInv
  BY InitTyped, LeakInitially
<1>2. TypeOK /\ LeakInv /\ [Next]_vars => (TypeOK /\ LeakInv)'
  <2> SUFFICES ASSUME TypeOK, LeakInv, [Next]_vars PROVE TypeOK' /\ LeakInv'
    OBVIOUS
  <2>1. TypeOK'
    BY LogStep, HandlerStepTyped, WireStep, BrowserStep DEF TypeOK
  <2> QED BY <2>1, LeakStep
<1> QED BY <1>1, <1>2, PTL DEF Spec

(* No message from before the first hello reaches the browser, in whatever  *)
(* order events are fanned out and however often the connection is lost and *)
(* the page reloaded (NoLeak).                                              *)
THEOREM NothingLeaks == Spec => []NoLeak
<1>1. TypeOK /\ LeakInv => NoLeak
  <2> SUFFICES ASSUME TypeOK, LeakInv, NEW n \in mem PROVE n \in SinceJoin \cup early
    BY DEF NoLeak
  <2>1. met
    BY DEF LeakInv, New
  <2>2. Since(n) /\ Bound = boundary /\ n \in 1..Len(log) /\ IsMessage(n)
    BY <2>1 DEF LeakInv, Greeted, Bounded, Bound, TypeOK, BrowserOK
  <2> QED BY <2>2 DEF Since, SinceJoin
<1> QED BY <1>1, JoinInvariant, PTL

-----------------------------------------------------------------------------
(* Pages of history *)

(* The replay of the connection is not selected yet.                        *)
Starting ==
    \/ svc \in {"none", "hello", "insert"}
    \/ svc = "select" /\ request.before = 0

Cursor(i) == wire[i].type = "history_page"
NoCursor  == \A i \in 1..Len(wire) : ~Cursor(i)

(* As long as the browser meets the replay with an empty pager, it waits    *)
(* for one page at a time: for the connection's, or for the older one it    *)
(* asked for from where its messages begin.                                 *)
Phases ==
    /\ Starting => ~pager.more /\ NoCursor
    /\ svc \in {"none", "hello"} => wire = <<>>
    /\ svc \in {"hello", "insert"} => request.before = 0
    /\ pager.loading => pager.more
    /\ \A i \in 1..Len(wire) : wire[i].type = "hello" => i = 1 /\ ~pager.more
    /\ \A i, j \in 1..Len(wire) : Cursor(i) /\ Cursor(j) => i = j
    /\ svc \in {"select", "page"} =>
          /\ NoCursor
          /\ request.before = 0 => ~pager.more
          /\ request.before > 0 => /\ pager.loading /\ request.before = pager.oldest
                                  /\ request.join = boundary /\ boundary > 0
    /\ pager.more /\ ~pager.loading => NoCursor

LEMMA PhasesQuiet ==
    ASSUME Phases, UNCHANGED <<wire, pager, request, boundary>>,
           svc' = svc \/ (svc = "insert" /\ svc' = "select") \/ (svc = "select" /\ svc' = "page")
           \/ {svc, svc'} \subseteq {"presence", "notice", "ready"}
    PROVE  Phases'
BY DEF Phases, Starting, NoCursor, Cursor

LEMMA PhasesSend ==
    ASSUME TypeOK, Phases, NEW type \in {"event", "history_page"}, NEW seq \in Nat, NEW more \in BOOLEAN,
           wire' = Append(wire, Packet(type, seq, more)), UNCHANGED <<pager, request, boundary>>,
           IF type = "event" THEN svc' = svc /\ svc \notin {"none", "hello"}
           ELSE svc = "page" /\ svc' \in {"presence", "ready"}
    PROVE  Phases'
<1>0. Len(wire) \in Nat /\ Carries(type, seq, more) /\ type # "hello"
  BY Sent DEF Carries
<1>1. \A i \in 1..Len(wire') : i \in 1..Len(wire) \/ i = Len(wire) + 1
  BY <1>0 DEF Carries
<1>2. \A i \in 1..Len(wire) : i \in 1..Len(wire') /\ wire'[i] = wire[i]
  BY <1>0 DEF Carries
<1>3. \A i \in 1..Len(wire') : wire'[i].type = "hello" => i = 1 /\ ~pager.more
  BY <1>0, <1>1, <1>2 DEF Carries, Phases
<1>4. CASE type = "event"
  <2>1. \A i \in 1..Len(wire') : wire'[i].type = "history_page" => i \in 1..Len(wire) /\ Cursor(i)
    BY <1>0, <1>1, <1>4 DEF Carries, Cursor
  <2>2. NoCursor => NoCursor'
    BY <2>1 DEF NoCursor, Cursor
  <2>3. \A i, j \in 1..Len(wire') : Cursor(i)' /\ Cursor(j)' => i = j
    BY <2>1 DEF Phases, Cursor
  <2> QED BY <1>3, <1>4, <2>2, <2>3 DEF Phases, Starting
<1>5. CASE type = "history_page"
  <2>1. \A i \in 1..Len(wire') : Cursor(i)' => i = Len(wire) + 1
    BY <1>0, <1>1, <1>5 DEF Carries, Cursor, NoCursor, Phases
  <2>2. ~Starting' /\ svc' \notin {"none", "hello", "insert", "select", "page"}
    BY <1>5 DEF Starting
  <2>3. ~(pager.more /\ ~pager.loading)
    BY <1>5 DEF Phases, TypeOK, HandlerOK, Cursors
  <2> QED BY <1>3, <2>1, <2>2, <2>3 DEF Phases
<1> QED BY <1>4, <1>5

LEMMA Shifted ==
    ASSUME TypeOK, Deliver
    PROVE  \A i \in 1..Len(wire) : i = 1 \/ (i - 1 \in 1..Len(wire') /\ wire'[i - 1] = wire[i])
<1> SUFFICES ASSUME NEW i \in 1..Len(wire), i # 1
             PROVE  i - 1 \in 1..Len(wire') /\ wire'[i - 1] = wire[i]
  OBVIOUS
<1> QED BY Handled

LEMMA PhasesDeliver == ASSUME TypeOK, LeakInv, Phases, Deliver PROVE Phases'
<1>0. /\ wire[1] \in Packets /\ Len(wire) \in Nat /\ Len(wire) > 0 /\ 1 \in 1..Len(wire) /\ wire # <<>>
      /\ Len(wire') = Len(wire) - 1
      /\ svc' = svc /\ request' = request
  BY Handled, EmptySeq DEF Deliver, handler
<1>1. \A i \in 1..Len(wire') : i + 1 \in 1..Len(wire) /\ i + 1 # 1 /\ wire'[i] = wire[i + 1]
  BY <1>0, Handled
<1>2. svc \notin {"none", "hello"} /\ Greeted
  BY <1>0 DEF Phases, Greeted
<1>3. Bound' = Bound /\ (boundary > 0 => boundary' = boundary)
  <2>1. met => boundary' = boundary
    BY DEF Deliver, TypeOK, CountsOK
  <2>2. ~met => boundary = 0
    BY DEF LeakInv, New
  <2>3. ~met => wire[1].type = "hello"
    BY <1>2 DEF LeakInv, New
  <2>4. Head(wire) = wire[1]
    BY <1>0, Tailed DEF TypeOK, WireOK
  <2>5. met'
    BY <2>3, <2>4 DEF Deliver
  <2>6. ~met => boundary' = wire[1].seq
    BY <2>4, <2>5 DEF Deliver
  <2> QED BY <2>1, <2>2, <2>5, <2>6 DEF Bound
<1>4. NoCursor => NoCursor'
  BY <1>1 DEF NoCursor, Cursor
<1>5. \A i \in 1..Len(wire') : wire'[i].type # "hello"
  BY <1>1 DEF Phases
<1>6. \A i, j \in 1..Len(wire') : Cursor(i)' /\ Cursor(j)' => i = j
  <2> SUFFICES ASSUME NEW i \in 1..Len(wire'), NEW j \in 1..Len(wire'), Cursor(i)', Cursor(j)'
               PROVE  i = j
    OBVIOUS
  <2>1. PICK k \in 1..Len(wire) : k = i + 1 /\ Cursor(k)
    BY <1>1 DEF Cursor
  <2>2. PICK l \in 1..Len(wire) : l = j + 1 /\ Cursor(l)
    BY <1>1 DEF Cursor
  <2>3. k = l
    BY <2>1, <2>2 DEF Phases
  <2> QED BY <2>1, <2>2, <2>3
<1>7. CASE wire[1].type = "event"
  <2>1. pager' = pager
    BY <1>7, Handled
  <2> QED BY <1>0, <1>2, <1>3, <1>4, <1>5, <1>6, <2>1 DEF Phases, Starting
<1>8. CASE wire[1].type = "hello"
  <2>1. pager' = NoPager /\ ~pager'.more /\ ~pager'.loading
    BY <1>8, Handled, NonesTyped
  <2>2. ~pager.more
    BY <1>0, <1>8 DEF Phases
  <2> QED BY <1>0, <1>2, <1>3, <1>4, <1>5, <1>6, <2>1, <2>2 DEF Phases, Starting
<1>9. CASE wire[1].type = "history_page"
  <2>1. ~Starting /\ svc \notin {"insert", "select", "page"}
    BY <1>0, <1>2, <1>9 DEF Phases, NoCursor, Cursor, Starting
  <2>2. NoCursor'
    <3> SUFFICES ASSUME NEW i \in 1..Len(wire'), Cursor(i)' PROVE FALSE
      BY DEF NoCursor
    <3>1. PICK k \in 1..Len(wire) : k = i + 1 /\ Cursor(k)
      BY <1>1 DEF Cursor
    <3>2. k = 1
      BY <1>0, <1>9, <3>1 DEF Phases, Cursor
    <3> QED BY <3>1, <3>2
  <2>3. ~pager'.loading
    BY <1>9, Handled
  <2> QED BY <1>0, <1>2, <1>5, <1>6, <2>1, <2>2, <2>3 DEF Phases, Starting
<1> QED BY <1>0, <1>7, <1>8, <1>9 DEF Packets

LEMMA PhasesStep ==
    ASSUME TypeOK, LeakInv, given.Log # <<>>, Phases, [Next]_vars, Drop => ~pager.more
    PROVE  Phases'
<1>1. CASE \/ \E kind \in {"message", "other"} : Post(kind)
           \/ \E n \in leaving : Left(n)
           \/ Insert \/ Select \/ Notify \/ Idle \/ UNCHANGED vars
           \/ Announce("other", "presence", "notice") \/ Announce("message", "notice", "ready")
  <2>1. /\ UNCHANGED <<wire, pager, request, boundary>>
        /\ \/ svc' = svc \/ (svc = "insert" /\ svc' = "select") \/ (svc = "select" /\ svc' = "page")
           \/ {svc, svc'} \subseteq {"presence", "notice", "ready"}
    BY <1>1 DEF Post, Left, Insert, Select, Notify, Idle, Announce, vars, handler, memory, bounds
  <2> QED BY <2>1, PhasesQuiet
<1>2. CASE \E n \in flights : Fan(n)
  <2>1. PICK n \in flights : Fan(n)
    BY <1>2
  <2>2. UNCHANGED <<pager, request, boundary, svc>> /\ n \in Nat
    BY <2>1 DEF Fan, handler, memory, bounds, TypeOK, LogOK
  <2>3. CASE InRoom
    <3>1. wire' = Append(wire, Packet("event", n, FALSE)) /\ svc \notin {"none", "hello"}
      BY <2>1, <2>3 DEF Fan, InRoom
    <3> QED BY <2>2, <3>1, PhasesSend
  <2>4. CASE ~InRoom
    BY <2>1, <2>2, <2>4, PhasesQuiet DEF Fan
  <2> QED BY <2>3, <2>4
<1>3. CASE SendPage
  <2>1. PICK n \in page.todo : wire' = Append(wire, Packet("event", n, FALSE))
    BY <1>3, LoweredPage DEF SendPage
  <2>2. /\ n \in Nat /\ UNCHANGED <<pager, request, boundary, svc>> /\ svc = "page"
    BY <1>3 DEF SendPage, memory, bounds, TypeOK, HandlerOK
  <2> QED BY <2>1, <2>2, PhasesSend
<1>4. CASE EndPage
  <2>1. /\ UNCHANGED <<pager, request, boundary>> /\ svc = "page" /\ svc' \in {"presence", "ready"}
        /\ wire' = Append(wire, Packet("history_page", page.oldest, page.more))
        /\ page.oldest \in Nat /\ page.more \in BOOLEAN
    BY <1>4 DEF EndPage, memory, bounds, TypeOK, HandlerOK, Pages
  <2> QED BY <2>1, PhasesSend
<1>5. CASE Hello
  <2>1. PICK l \in Nat : l = Len(log)
    BY LenProperties DEF TypeOK, LogOK
  <2>2. /\ wire' = Append(wire, Packet("hello", l, FALSE)) /\ svc = "hello" /\ svc' = "insert"
        /\ UNCHANGED <<pager, request, boundary>>
    BY <1>5, <2>1 DEF Hello, memory
  <2>3. Carries("hello", l, FALSE)
    BY <2>2, Sent DEF Carries
  <2>4. Len(wire) = 0
    BY <2>2, EmptySeq DEF Phases
  <2>5. Len(wire') = 1 /\ wire'[1].type = "hello"
    BY <2>3, <2>4 DEF Carries
  <2>6. NoCursor'
    BY <2>5 DEF NoCursor, Cursor
  <2>7. ~pager'.more /\ ~pager'.loading /\ request'.before = 0
    BY <2>2 DEF Phases, Starting
  <2>8. \A i \in 1..Len(wire') : i = 1 /\ ~Cursor(i)'
    BY <2>5, <2>6 DEF NoCursor
  <2> QED BY <2>2, <2>6, <2>7, <2>8 DEF Phases
<1>6. CASE Deliver
  BY <1>6, PhasesDeliver
<1>7. CASE LoadOlder
  <2>1. /\ svc = "ready" /\ svc' = "select" /\ wire' = wire /\ pager.more /\ ~pager.loading
        /\ pager.oldest > 0 /\ boundary' = boundary
        /\ request' = [after |-> 0, join |-> joinSeq, before |-> pager.oldest]
        /\ pager' = [pager EXCEPT !.loading = TRUE]
    BY <1>7 DEF LoadOlder, bounds
  <2>2. /\ request'.before = pager.oldest /\ request'.join = joinSeq
        /\ pager'.more = pager.more /\ pager'.loading = TRUE /\ pager'.oldest = pager.oldest
        /\ pager.oldest \in Nat
    BY <2>1 DEF TypeOK, BrowserOK, Pagers
  <2>3. boundary > 0 /\ joinSeq = boundary
    <3>1. met
      BY <2>1, NonesTyped DEF LeakInv, New
    <3> QED BY <3>1 DEF LeakInv, Greeted, Bounded, Bound
  <2>4. NoCursor /\ NoCursor'
    BY <2>1 DEF Phases, NoCursor, Cursor
  <2> QED BY <2>1, <2>2, <2>3, <2>4 DEF Phases, Starting, Cursor
<1>8. CASE Open
  <2>1. /\ svc = "none" /\ svc' = "hello" /\ wire' = wire /\ pager' = pager
        /\ request'.before = 0
    <3>1. request' = [NoCursors EXCEPT !.after = resolveConnectAfterSeq(LocalMessageCount, joinSeq, afterSeq),
                                       !.join = joinSeq]
      BY <1>8 DEF Open
    <3>2. request'.before = 0
      BY <3>1 DEF NoCursors
    <3> QED BY <1>8, <3>2 DEF Open, Connected, memory
  <2> QED BY <2>1 DEF Phases, Starting, NoCursor, Cursor
<1>9. CASE Drop \/ Reload
  <2>1. svc' = "none" /\ wire' = <<>> /\ ~pager'.more /\ (pager'.loading => pager'.more)
    <3>1. CASE Drop
      BY <3>1 DEF Drop, Disconnect, memory, Phases
    <3>2. CASE Reload
      BY <3>2, NonesTyped DEF Reload, Disconnect
    <3> QED BY <1>9, <3>1, <3>2
  <2>2. Len(wire') = 0
    BY <2>1, EmptySeq
  <2> QED BY <2>1, <2>2 DEF Phases, NoCursor
<1> QED BY <1>1, <1>2, <1>3, <1>4, <1>5, <1>6, <1>7, <1>8, <1>9 DEF Next, HandlerStep

(* A message since the join is with the browser, on its way there, or older *)
(* than the page that is being prepared, that has been sent, or that the    *)
(* browser had last.                                                        *)
Joined(n) == IsMessage(n) /\ n > Bound
OnWire(n) == \E i \in 1..Len(wire) : wire[i].type = "event" /\ wire[i].seq = n
OlderSent(n)  == \E i \in 1..Len(wire) : Cursor(i) /\ wire[i].more /\ n < wire[i].seq
OlderKnown(n) == svc # "page" /\ NoCursor /\ pager.more /\ n < pager.oldest
Reached(n) ==
    \/ n \in mem \/ n \in flights \/ n \in page.todo \/ OnWire(n)
    \/ page.more /\ n < page.oldest
    \/ OlderSent(n) \/ OlderKnown(n)

Covered == ~Starting => \A n \in 1..Len(log) : Joined(n) => Reached(n)

(* What the connect asks for is all the browser lacks.                      *)
Lacking == \A n \in 1..Len(log) : Joined(n) => n \in mem \/ n > Floor(request)

LEMMA ReachedQuiet ==
    ASSUME NEW n, Reached(n), UNCHANGED <<wire, pager, mem>>,
           flights \subseteq flights', page' = page \/ page = NoPage,
           svc' # "page" \/ svc = "page"
    PROVE  Reached(n)'
<1>1. OnWire(n) => OnWire(n)'
  BY DEF OnWire
<1>2. OlderSent(n) => OlderSent(n)'
  BY DEF OlderSent, Cursor
<1>3. OlderKnown(n) => OlderKnown(n)'
  BY DEF OlderKnown, NoCursor, Cursor
<1>4. page = NoPage => n \notin page.todo /\ ~page.more
  BY NonesTyped
<1> QED BY <1>1, <1>2, <1>3, <1>4 DEF Reached

LEMMA ReachedSend ==
    ASSUME TypeOK, NEW n \in Nat, Reached(n), NEW type \in {"event", "history_page"}, NEW seq \in Nat,
           NEW more \in BOOLEAN, wire' = Append(wire, Packet(type, seq, more)), UNCHANGED <<pager, mem>>,
           \A m \in flights \cup page.todo : m \in flights' \/ m \in page'.todo \/ (type = "event" /\ seq = m),
           IF type = "event" THEN svc' = svc /\ page'.more = page.more /\ page'.oldest = page.oldest
           ELSE svc = "page" /\ seq = page.oldest /\ more = page.more
    PROVE  Reached(n)'
<1>0. Len(wire) \in Nat /\ Carries(type, seq, more)
  BY Sent DEF Carries
<1>1. /\ \A i \in 1..Len(wire) : i \in 1..Len(wire') /\ wire'[i] = wire[i]
      /\ Len(wire) + 1 \in 1..Len(wire')
      /\ \A i \in 1..Len(wire') : i \in 1..Len(wire) \/ i = Len(wire) + 1
  BY <1>0 DEF Carries
<1>2. OnWire(n) => OnWire(n)'
  BY <1>1 DEF OnWire
<1>3. OlderSent(n) => OlderSent(n)'
  BY <1>1 DEF OlderSent, Cursor
<1>4. type = "event" /\ seq = n => OnWire(n)'
  BY <1>0, <1>1 DEF OnWire, Carries
<1>5. type = "event" /\ OlderKnown(n) => OlderKnown(n)'
  BY <1>0, <1>1 DEF OlderKnown, NoCursor, Cursor, Carries
<1>6. type = "history_page" /\ page.more /\ n < page.oldest => OlderSent(n)'
  BY <1>0, <1>1 DEF OlderSent, Cursor, Carries
<1>7. type = "history_page" => ~OlderKnown(n)
  BY DEF OlderKnown
<1> QED BY <1>2, <1>3, <1>4, <1>5, <1>6, <1>7 DEF Reached

LEMMA ReachedDeliver ==
    ASSUME TypeOK, Phases, Deliver, NEW n \in Nat, IsMessage(n), Reached(n)
    PROVE  Reached(n)'
<1>0. /\ wire[1] \in Packets /\ 1 \in 1..Len(wire) /\ Len(wire) \in Nat
      /\ svc' = svc /\ page' = page /\ flights' = flights /\ mem \subseteq mem'
  <2>1. mem \subseteq mem'
    BY Handled DEF Packets
  <2> QED BY <2>1, Handled DEF Deliver, handler, server
<1>1. \A i \in 1..Len(wire) : i = 1 \/ (i - 1 \in 1..Len(wire') /\ wire'[i - 1] = wire[i])
  BY Shifted
<1>2. \A i \in 1..Len(wire') : i + 1 \in 1..Len(wire) /\ i + 1 # 1 /\ wire'[i] = wire[i + 1]
  BY <1>0, Handled
<1>3. ASSUME OnWire(n) PROVE OnWire(n)' \/ n \in mem'
  <2>1. PICK i \in 1..Len(wire) : wire[i].type = "event" /\ wire[i].seq = n
    BY <1>3 DEF OnWire
  <2>2. CASE i = 1
    BY <2>1, <2>2, Handled
  <2>3. CASE i # 1
    BY <1>1, <2>1, <2>3 DEF OnWire
  <2> QED BY <2>2, <2>3
<1>4. wire[1].type = "history_page" => svc # "page" /\ NoCursor'
  <2>1. ASSUME wire[1].type = "history_page", NEW i \in 1..Len(wire') PROVE ~Cursor(i)'
    <3>1. PICK k \in 1..Len(wire) : k = i + 1 /\ k # 1 /\ wire'[i] = wire[k]
      BY <1>2
    <3>2. ~Cursor(k)
      BY <1>0, <2>1, <3>1 DEF Phases, Cursor
    <3> QED BY <3>1, <3>2 DEF Cursor
  <2> QED BY <1>0, <2>1 DEF NoCursor, Phases, Cursor
<1>5. ASSUME OlderSent(n) PROVE OlderSent(n)' \/ OlderKnown(n)'
  <2>1. PICK i \in 1..Len(wire) : Cursor(i) /\ wire[i].more /\ n < wire[i].seq
    BY <1>5 DEF OlderSent
  <2>2. CASE i = 1
    <3>1. pager'.more /\ pager'.oldest = wire[1].seq
      BY <2>1, <2>2, Handled DEF Cursor
    <3> QED BY <1>0, <1>4, <2>1, <2>2, <3>1 DEF OlderKnown, Cursor
  <2>3. CASE i # 1
    BY <1>1, <2>1, <2>3 DEF OlderSent, Cursor
  <2> QED BY <2>2, <2>3
<1>6. ASSUME OlderKnown(n) PROVE OlderKnown(n)'
  <2>1. wire[1].type # "history_page" /\ wire[1].type # "hello"
    BY <1>0, <1>6 DEF OlderKnown, NoCursor, Cursor, Phases
  <2>2. pager' = pager
    BY <1>0, <2>1, Handled DEF Packets
  <2>3. NoCursor'
    BY <1>2, <1>6 DEF OlderKnown, NoCursor, Cursor
  <2> QED BY <1>0, <1>6, <2>2, <2>3 DEF OlderKnown
<1> QED BY <1>0, <1>3, <1>5, <1>6 DEF Reached

LEMMA FirstStays ==
    ASSUME TypeOK, NEW type \in {"hello", "event", "history_page"}, NEW seq \in Nat, NEW more \in BOOLEAN,
           wire' = Append(wire, Packet(type, seq, more)), wire # <<>>
    PROVE  wire'[1] = wire[1]
<1>1. Carries(type, seq, more)
  BY Sent DEF Carries
<1>2. Len(wire) \in Nat /\ Len(wire) # 0
  BY EmptySeq, LenProperties DEF TypeOK, WireOK
<1> QED BY <1>1, <1>2 DEF Carries

LEMMA CoveredStep ==
    ASSUME TypeOK, LeakInv, given.Log # <<>>, Phases, Covered, [Next]_vars,
           svc = "select" /\ request.before = 0 => Lacking
    PROVE  Covered'
<1> SUFFICES ASSUME ~Starting', NEW n \in 1..Len(log'), Joined(n)'
             PROVE  Reached(n)'
  BY DEF Covered
<1>0. /\ Grown /\ Len(log) \in Nat /\ Len(log') \in Nat /\ n \in Nat
      /\ svc' \notin {"none", "hello", "insert"}
      /\ request.before \in Nat
  BY LogStep DEF Grown, Starting, TypeOK, HandlerOK, Cursors
<1>1. ASSUME n \in 1..Len(log), ~Starting, Bound' = Bound PROVE Joined(n) /\ Reached(n) /\ IsMessage(n)
  <2>1. Joined(n)
    BY <1>0, <1>1 DEF Grown, Joined, IsMessage
  <2> QED BY <1>1, <2>1 DEF Covered, Joined
<1>2. CASE \/ \E kind \in {"message", "other"} : Post(kind)
           \/ \E k \in leaving : Left(k)
           \/ Announce("other", "presence", "notice") \/ Announce("message", "notice", "ready")
  <2>1. PICK kind \in {"message", "other"} : Store(kind)
    BY <1>2 DEF Post, Left, Announce
  <2>2. /\ flights' = flights \cup {Len(log) + 1} /\ Len(log') = Len(log) + 1
    BY <2>1, Stored
  <2>3. UNCHANGED <<wire, pager, mem, request, page, met, boundary>>
    BY <1>2 DEF Post, Left, Announce, handler, memory, bounds
  <2>4. svc' = svc \/ {svc, svc'} \subseteq {"presence", "notice", "ready"}
    BY <1>2 DEF Post, Left, Announce, handler
  <2>5. ~Starting /\ Bound' = Bound
    BY <2>3, <2>4 DEF Starting, Bound
  <2>6. CASE n = Len(log) + 1
    BY <2>2, <2>6 DEF Reached
  <2>7. CASE n # Len(log) + 1
    <3>1. Reached(n)
      BY <1>0, <1>1, <2>2, <2>5, <2>7
    <3> QED BY <2>2, <2>3, <2>4, <3>1, ReachedQuiet
  <2> QED BY <2>6, <2>7
<1>3. CASE Notify \/ Idle \/ UNCHANGED vars
  <2>1. UNCHANGED <<log, flights, wire, pager, mem, request, page, met, boundary, svc>>
    BY <1>3 DEF Notify, Idle, vars, server, handler, memory, bounds
  <2>2. Reached(n)
    BY <1>1, <2>1 DEF Starting, Bound
  <2> QED BY <2>1, <2>2, ReachedQuiet
<1>4. CASE LoadOlder
  <2>1. /\ UNCHANGED <<log, flights, wire, mem, page, met, boundary>> /\ svc = "ready" /\ svc' = "select"
        /\ pager' = [pager EXCEPT !.loading = TRUE]
    BY <1>4 DEF LoadOlder, server, bounds
  <2>2. Reached(n)
    BY <1>1, <2>1 DEF Starting, Bound
  <2>3. pager'.more = pager.more /\ pager'.oldest = pager.oldest
    BY <2>1 DEF TypeOK, BrowserOK, Pagers
  <2>4. (OnWire(n) => OnWire(n)') /\ (OlderSent(n) => OlderSent(n)')
    BY <2>1 DEF OnWire, OlderSent, Cursor
  <2>5. OlderKnown(n) => OlderKnown(n)'
    BY <2>1, <2>3 DEF OlderKnown, NoCursor, Cursor
  <2> QED BY <2>1, <2>2, <2>4, <2>5 DEF Reached
<1>5. CASE \E m \in flights : Fan(m)
  <2>1. PICK m \in flights : Fan(m)
    BY <1>5
  <2>2. UNCHANGED <<log, pager, mem, request, page, met, boundary, svc>> /\ flights' = flights \ {m} /\ m \in Nat
    BY <2>1 DEF Fan, handler, memory, bounds, TypeOK, LogOK
  <2>3. ~Starting /\ InRoom
    BY <1>0, <2>2 DEF Starting, InRoom, TypeOK, HandlerOK, Services
  <2>4. wire' = Append(wire, Packet("event", m, FALSE))
    BY <2>1, <2>3 DEF Fan
  <2>5. Bound' = Bound
    <3>1. Greeted /\ (~met => wire # <<>>)
      BY <2>3 DEF Greeted, Starting, LeakInv, New
    <3>2. wire # <<>> => wire'[1] = wire[1]
      BY <2>2, <2>4, FirstStays
    <3> QED BY <2>2, <3>1, <3>2 DEF Bound
  <2>6. Reached(n)
    BY <1>1, <2>2, <2>3, <2>5
  <2> QED BY <1>0, <2>2, <2>4, <2>6, ReachedSend
<1>6. CASE SendPage
  <2>1. PICK m \in page.todo : wire' = Append(wire, Packet("event", m, FALSE)) /\ page'.todo = page.todo \ {m}
    BY <1>6, LoweredPage DEF SendPage
  <2>2. /\ UNCHANGED <<log, flights, pager, mem, request, met, boundary, svc>> /\ m \in Nat /\ svc = "page"
        /\ page'.more = page.more /\ page'.oldest = page.oldest
    BY <1>6, LoweredPage DEF SendPage, server, memory, bounds, TypeOK, HandlerOK
  <2>3. Bound' = Bound
    <3>1. ~met => wire # <<>>
      BY <2>2 DEF Greeted, LeakInv, New
    <3>2. wire # <<>> => wire'[1] = wire[1]
      BY <2>1, <2>2, FirstStays
    <3> QED BY <2>2, <3>1, <3>2 DEF Bound
  <2>4. Reached(n)
    BY <1>1, <2>2, <2>3 DEF Starting
  <2> QED BY <1>0, <2>1, <2>2, <2>4, ReachedSend
<1>7. CASE EndPage
  <2>1. /\ UNCHANGED <<log, flights, pager, mem, request, met, boundary>>
        /\ svc = "page" /\ page.todo = {}
        /\ wire' = Append(wire, Packet("history_page", page.oldest, page.more))
        /\ page.oldest \in Nat /\ page.more \in BOOLEAN
    BY <1>7 DEF EndPage, server, memory, bounds, TypeOK, HandlerOK, Pages
  <2>2. Bound' = Bound
    <3>1. ~met => wire # <<>>
      BY <2>1 DEF Greeted, LeakInv, New
    <3>2. wire # <<>> => wire'[1] = wire[1]
      BY <2>1, FirstStays
    <3> QED BY <2>1, <3>1, <3>2 DEF Bound
  <2>3. Reached(n)
    BY <1>1, <2>1, <2>2 DEF Starting
  <2> QED BY <1>0, <2>1, <2>3, ReachedSend
<1>8. CASE Deliver
  <2>1. UNCHANGED <<log, svc, request>>
    BY <1>8 DEF Deliver, server, handler
  <2>2. ~Starting /\ Greeted /\ Bound' = Bound
    <3>1. ~Starting /\ Greeted
      BY <2>1 DEF Starting, Greeted
    <3>2. met => Bound' = Bound
      BY <1>8 DEF Deliver, Bound, TypeOK, CountsOK
    <3>3. ~met => Head(wire) = wire[1] /\ wire[1].type = "hello"
      BY <3>1, Tailed DEF LeakInv, New, TypeOK, WireOK
    <3>4. ~met => met' /\ boundary' = wire[1].seq
      BY <1>8, <3>3 DEF Deliver
    <3> QED BY <3>1, <3>2, <3>4 DEF Bound
  <2>3. Reached(n) /\ IsMessage(n)
    BY <1>1, <2>1, <2>2
  <2> QED BY <1>0, <1>8, <2>3, ReachedDeliver
<1>9. CASE Select
  <2>0. /\ \A k \in All \ page'.todo : page'.more /\ k < page'.oldest
        /\ UNCHANGED <<log, flights, wire, mem, pager, request, met, boundary>>
        /\ svc = "select" /\ svc' = "page" /\ page = NoPage
    BY <1>9, Selected DEF Select, server, memory, bounds, TypeOK, HandlerOK
  <2>1. Bound' = Bound /\ n \in 1..Len(log) /\ Joined(n) /\ IsMessage(n)
    BY <2>0 DEF Bound, Joined, IsMessage
  <2>2. n \in All => Reached(n)'
    BY <2>0 DEF Reached
  <2>3. CASE request.before = 0
    <3>1. n \in mem \/ n > Floor(request)
      BY <2>0, <2>1, <2>3 DEF Lacking
    <3>2. n > Floor(request) => n \in All
      BY <2>1, <2>3 DEF All
    <3>3. n \in mem => Reached(n)'
      BY <2>0 DEF Reached
    <3> QED BY <2>2, <3>1, <3>2, <3>3
  <2>4. CASE request.before # 0
    <3>1. /\ request.before > 0 /\ ~Starting
          /\ NoCursor /\ request.before = pager.oldest /\ request.join = boundary /\ boundary > 0
      BY <1>0, <2>0, <2>4 DEF Phases, Starting
    <3>2. Reached(n)
      BY <1>1, <2>1, <3>1
    <3>3. Bound = boundary
      BY <3>1 DEF LeakInv, New, Bound
    <3>4. Floor(request) = boundary
      BY <3>1 DEF Floor
    <3>5. OlderKnown(n) => n \in All
      BY <2>1, <3>1, <3>3, <3>4 DEF OlderKnown, All, Joined
    <3>6. n \notin page.todo /\ ~page.more /\ ~OlderSent(n)
      BY <2>0, <3>1, NonesTyped DEF OlderSent, NoCursor
    <3>7. OnWire(n) => OnWire(n)'
      BY <2>0 DEF OnWire
    <3> QED BY <2>0, <2>2, <3>2, <3>5, <3>6, <3>7 DEF Reached
  <2> QED BY <2>3, <2>4
<1>10. CASE Open \/ Hello \/ Insert \/ Drop \/ Reload
  <2>1. Insert /\ svc = "insert" /\ svc' = "select" /\ request' = request
    BY <1>0, <1>10 DEF Open, Hello, Insert, Drop, Reload, Disconnect
  <2> QED BY <2>1 DEF Phases, Starting
<1> QED BY <1>2, <1>3, <1>4, <1>5, <1>6, <1>7, <1>8, <1>9, <1>10 DEF Next, HandlerStep

-----------------------------------------------------------------------------
(* A reload brings everything back *)

(* Until the connection is lost again, the page holds nothing before its    *)
(* connect, and the connect asks from the join boundary.                    *)
FromJoin ==
    /\ met /\ boundary > 0 /\ ~notice
    /\ svc = "none" => mem = {}
    /\ Starting /\ svc # "none" => request = [after |-> boundary, join |-> boundary, before |-> 0]

Again    == reloads > 0 /\ drops = 0
Restored == Again => Phases /\ Covered /\ FromJoin

LEMMA NoCut == ASSUME TypeOK, [Next]_vars, Again', ~Reload PROVE Again /\ ~Drop
<1>1. ~Drop
  BY DEF Drop, Again, TypeOK, CountsOK
<1>2. UNCHANGED <<drops, reloads>>
  BY <1>1 DEF Next, HandlerStep, Post, Fan, Left, Hello, Insert, Select, SendPage, EndPage, Announce,
              Open, Deliver, LoadOlder, Notify, Idle, vars, bounds
<1> QED BY <1>1, <1>2 DEF Again

LEMMA AskedFromJoin ==
    ASSUME TypeOK, FromJoin, LeakInv, Starting, svc # "none"
    PROVE  Lacking
<1>1. boundary \in Nat /\ boundary > 0 /\ Bound = boundary
  BY DEF TypeOK, CountsOK, FromJoin, Bound
<1>2. request.after = boundary /\ request.join = boundary /\ request.before = 0
  BY DEF FromJoin
<1>3. Floor(request) = boundary
  BY <1>1, <1>2, MaxOfTwo DEF Floor
<1> QED BY <1>1, <1>3 DEF Lacking, Joined

LEMMA FromJoinStep ==
    ASSUME TypeOK, TypeOK', LeakInv, Phases, FromJoin, [Next]_vars, ~Drop, ~Reload,
           notice' = notice
    PROVE  FromJoin'
<1>0. met /\ met' /\ boundary' = boundary /\ boundary > 0
  BY DEF FromJoin, Next, HandlerStep, Post, Fan, Left, Hello, Insert, Select, SendPage, EndPage, Announce,
         Open, Deliver, LoadOlder, Notify, Idle, vars, bounds
<1>1. ~notice /\ ~notice'
  BY DEF FromJoin
<1>2. svc' = "none" => svc = "none"
  BY DEF Next, HandlerStep, Post, Fan, Left, Hello, Insert, Select, SendPage, EndPage, Announce,
         Open, Deliver, LoadOlder, Notify, Idle, vars, handler
<1>3. svc' = "none" => mem' = {}
  <2>1. svc' = "none" => mem' = mem
    BY <1>2 DEF Next, HandlerStep, Post, Fan, Left, Hello, Insert, Select, SendPage, EndPage, Announce,
         Open, Deliver, LoadOlder, Notify, Idle, vars, memory, Phases
  <2> QED BY <1>2, <2>1 DEF FromJoin
<1>4. ASSUME Starting', svc' # "none"
      PROVE  request' = [after |-> boundary, join |-> boundary, before |-> 0]
  <2>1. CASE Open
    <3>1. mem = {} /\ ~notice
      BY <1>1, <2>1 DEF FromJoin, Open, Connected
    <3>2. LocalMessageCount = 0
      BY <3>1, FS_EmptySet DEF LocalMessageCount
    <3>3. joinSeq = boundary
      BY <1>0 DEF LeakInv
    <3> QED BY <1>0, <2>1, <3>2, <3>3 DEF Open, resolveConnectAfterSeq, NoCursors
  <2>2. CASE LoadOlder
    <3>1. request'.before = pager.oldest /\ pager.oldest > 0 /\ pager.oldest \in Nat /\ svc' = "select"
      BY <2>2 DEF LoadOlder, TypeOK, BrowserOK, Pagers
    <3> QED BY <1>4, <3>1 DEF Starting
  <2>3. CASE ~Open /\ ~LoadOlder
    <3>1. request' = request
      BY <2>3 DEF Next, HandlerStep, Post, Fan, Left, Hello, Insert, Select, SendPage, EndPage, Announce,
         Deliver, Notify, Idle, vars, handler
    <3>2. Starting /\ svc # "none"
      BY <1>4, <2>3, <3>1 DEF Starting, Next, HandlerStep, Post, Fan, Left, Hello, Insert, Select,
         SendPage, EndPage, Announce, Deliver, Notify, Idle, vars, handler
    <3> QED BY <3>1, <3>2 DEF FromJoin
  <2> QED BY <2>1, <2>2, <2>3
<1> QED BY <1>0, <1>1, <1>3, <1>4 DEF FromJoin

LEMMA RestoredStep ==
    ASSUME TypeOK, TypeOK', LeakInv, LeakInv', Restored, [Next]_vars,
           given.Log # <<>>, [Notify => reloads = 0]_vars
    PROVE  Restored'
<1> SUFFICES ASSUME Again' PROVE Phases' /\ Covered' /\ FromJoin'
  BY DEF Restored
<1>1. CASE Reload
  <2>1. /\ svc' = "none" /\ wire' = <<>> /\ pager' = NoPager /\ mem' = {} /\ notice' = FALSE
        /\ met' /\ boundary' = boundary
    BY <1>1 DEF Reload, Disconnect
  <2>2. Len(wire') = 0 /\ ~pager'.more /\ ~pager'.loading
    BY <2>1, EmptySeq, NonesTyped
  <2>3. NoCursor' /\ Starting'
    BY <2>1, <2>2 DEF NoCursor, Starting
  <2>4. Phases'
    BY <2>1, <2>2, <2>3 DEF Phases
  <2>5. given' = given
    BY LogStep
  <2>6. boundary' > 0
    BY <2>1, <2>5 DEF LeakInv, Greeted, Bounded, Bound
  <2> QED BY <2>1, <2>3, <2>4, <2>6 DEF Covered, FromJoin
<1>2. CASE ~Reload
  <2>1. Again /\ ~Drop
    BY <1>2, NoCut
  <2>2. Phases /\ Covered /\ FromJoin
    BY <2>1 DEF Restored
  <2>3. Phases'
    BY <2>1, <2>2, PhasesStep
  <2>4. svc = "select" /\ request.before = 0 => Lacking
    BY <2>2, AskedFromJoin DEF Starting
  <2>5. Covered'
    BY <2>2, <2>4, CoveredStep
  <2>6. notice' = notice
    <3>1. reloads > 0
      BY <2>1 DEF Again
    <3>2. CASE UNCHANGED vars
      BY <3>2 DEF vars, memory
    <3>3. CASE Notify => reloads = 0
      <4>1. ~Notify
        BY <3>1, <3>3
      <4> QED BY <1>2, <2>1, <4>1
              DEF Next, HandlerStep, Post, Fan, Left, Hello, Insert, Select, SendPage, EndPage, Announce,
                  Open, Deliver, HandleEvent, LoadOlder, Idle, vars, memory
    <3> QED BY <3>2, <3>3
  <2>7. FromJoin'
    BY <1>2, <2>1, <2>2, <2>6, FromJoinStep
  <2> QED BY <2>3, <2>5, <2>7
<1> QED BY <1>1, <1>2

LEMMA CoveredReaches ==
    ASSUME TypeOK, LeakInv, Covered PROVE AllReached
<1> SUFFICES ASSUME Settled, NEW n \in SinceJoin PROVE Reachable(n)
  BY DEF AllReached
<1>1. /\ svc = "ready" /\ wire = <<>> /\ flights = {} /\ page = NoPage
      /\ n \in 1..Len(log) /\ IsMessage(n) /\ n > boundary
  BY DEF Settled, SinceJoin, TypeOK, HandlerOK
<1>2. Len(wire) = 0 /\ page.todo = {} /\ ~page.more
  BY <1>1, EmptySeq, NonesTyped
<1>3. met /\ Bound = boundary /\ ~Starting
  BY <1>1 DEF LeakInv, New, Greeted, Bound, Starting
<1>4. Reached(n)
  BY <1>1, <1>3 DEF Covered, Joined
<1>5. ~OnWire(n) /\ ~OlderSent(n)
  BY <1>2 DEF OnWire, OlderSent
<1> QED BY <1>1, <1>2, <1>4, <1>5 DEF Reached, OlderKnown, Reachable

(* A reload of the page brings back every message since the first hello or  *)
(* leaves it to be scrolled to, whatever was lost before, however events    *)
(* overtook each other and however small the pages are, as long as the      *)
(* connection holds (ReloadRestores).  The room is not empty at the join,   *)
(* and the page writes no notice of its own once it was reloaded: one       *)
(* written before the connect would make the connect a warm one.            *)
THEOREM ReloadBringsBack ==
    ASSUME \A c \in Cases : c.Log # <<>>
    PROVE  Spec /\ [][Notify => reloads = 0]_vars => []ReloadRestores
<1>1. Init => Restored
  BY DEF Init, Restored, Again
<1>2. ASSUME TypeOK, TypeOK', LeakInv, LeakInv', Restored, [Next]_vars, [Notify => reloads = 0]_vars
      PROVE  Restored'
  BY <1>2, RestoredStep DEF TypeOK, LogOK
<1>3. TypeOK /\ LeakInv /\ Restored => ReloadRestores
  BY CoveredReaches DEF Restored, Again, ReloadRestores
<1> QED BY <1>1, <1>2, <1>3, JoinInvariant, PTL DEF Spec

-----------------------------------------------------------------------------
(* Completeness across reconnects *)

LEMMA BoundStays ==
    ASSUME TypeOK, LeakInv, [Next]_vars, Greeted
    PROVE  Bound' = Bound
<1>1. CASE met
  <2>1. met' /\ boundary' = boundary
    BY <1>1 DEF Next, HandlerStep, Post, Fan, Left, Hello, Insert, Select, SendPage, EndPage, Announce,
                Open, Deliver, LoadOlder, Notify, Drop, Reload, Idle, vars, bounds
  <2> QED BY <1>1, <2>1 DEF Bound
<1>2. CASE ~met
  <2>0. wire # <<>> /\ wire[1].type = "hello" /\ svc \notin {"none", "hello"}
    BY <1>2 DEF LeakInv, New, Greeted
  <2>1. CASE Deliver
    <3>1. Head(wire) = wire[1] /\ met'
      BY <2>0, <2>1, Tailed DEF TypeOK, WireOK, Deliver
    <3>2. boundary' = wire[1].seq
      BY <1>2, <2>1, <3>1 DEF Deliver
    <3> QED BY <1>2, <3>1, <3>2 DEF Bound
  <2>2. CASE (\E n \in flights : Fan(n)) \/ SendPage \/ EndPage
    <3>1. met' = met /\ boundary' = boundary
      BY <2>2 DEF Fan, SendPage, EndPage, bounds
    <3>2. wire' = wire \/ \E type \in {"hello", "event", "history_page"}, seq \in Nat, more \in BOOLEAN :
             wire' = Append(wire, Packet(type, seq, more))
      <4>1. CASE \E n \in flights : Fan(n)
        <5>1. PICK n \in flights : Fan(n)
          BY <4>1
        <5>2. n \in Nat /\ (wire' = wire \/ wire' = Append(wire, Packet("event", n, FALSE)))
          <6>1. n \in Nat
            BY DEF TypeOK, LogOK
          <6>2. wire' = IF InRoom THEN Append(wire, Packet("event", n, FALSE)) ELSE wire
            BY <5>1 DEF Fan
          <6> QED BY <6>1, <6>2
        <5> QED BY <5>2
      <4>2. CASE SendPage
        <5>1. PICK n \in page.todo : wire' = Append(wire, Packet("event", n, FALSE))
          BY <4>2, LoweredPage DEF SendPage
        <5>2. n \in Nat
          BY DEF TypeOK, HandlerOK, Pages
        <5> QED BY <5>1, <5>2
      <4>3. CASE EndPage
        BY <4>3 DEF EndPage, TypeOK, HandlerOK, Pages
      <4> QED BY <2>2, <4>1, <4>2, <4>3
    <3>3. wire'[1] = wire[1]
      BY <2>0, <3>2, FirstStays
    <3> QED BY <3>1, <3>3 DEF Bound
  <2>3. CASE ~Deliver /\ ~(\E n \in flights : Fan(n)) /\ ~SendPage /\ ~EndPage
    <3>1. UNCHANGED <<wire, met, boundary>>
      BY <1>2, <2>0, <2>3 DEF Next, HandlerStep, Post, Left, Hello, Insert, Select, Announce,
                  Open, LoadOlder, Notify, Drop, Reload, Disconnect, Idle, vars, bounds
    <3> QED BY <3>1 DEF Bound
  <2> QED BY <2>1, <2>2, <2>3
<1> QED BY <1>1, <1>2

(* Without overlap nothing is being fanned out while a browser registers or *)
(* gets its replay, and but the last event afterwards.                      *)
Replaying ==
    \/ svc \in {"hello", "insert", "presence"}
    \/ svc \in {"select", "page"} /\ request.before = 0
OneFlight == Connected =>
    /\ leaving = {} /\ flights \subseteq {Len(log)}
    /\ Replaying => flights = {}
    /\ svc = "notice" => flights \subseteq {told}

LEMMA OneFlightStep ==
    ASSUME TypeOK, OneFlight, ~given.Overlap, [Next]_vars PROVE OneFlight'
<1>0. /\ Len(log) \in Nat /\ Len(log') \in Nat /\ request.before \in Nat
  BY LogStep DEF Grown, TypeOK, HandlerOK, Cursors
<1>1. CASE \E kind \in {"message", "other"} : Post(kind)
  <2>1. PICK kind \in {"message", "other"} : Post(kind)
    BY <1>1
  <2>2. /\ flights = {} /\ leaving = {} /\ svc \in {"none", "ready"} /\ svc' = svc /\ leaving' = leaving
        /\ flights' = flights \cup {Len(log')}
    BY <2>1, Stored DEF Post, handler
  <2> QED BY <2>2 DEF OneFlight, Replaying, Connected
<1>2. CASE \E n \in flights : Fan(n)
  <2>1. flights' \subseteq flights /\ UNCHANGED <<leaving, log, svc, request, told>>
    BY <1>2 DEF Fan, handler
  <2> QED BY <2>1 DEF OneFlight, Replaying, Connected
<1>3. CASE \E n \in leaving : Left(n)
  BY <1>3 DEF Left, OneFlight, Connected, handler
<1>4. CASE Announce("other", "presence", "notice") \/ Announce("message", "notice", "ready")
  <2>1. flights' = flights \cup {Len(log')} /\ leaving' = leaving /\ told' = Len(log')
    BY <1>4, Stored DEF Announce
  <2>2. svc \in {"presence", "notice"} /\ svc' \in {"notice", "ready"} /\ told \notin flights
    BY <1>4 DEF Announce
  <2>3. flights = {} /\ leaving = {}
    BY <2>2 DEF OneFlight, Replaying, Connected
  <2> QED BY <2>1, <2>2, <2>3 DEF OneFlight, Replaying
<1>5. CASE Hello \/ Insert \/ Select \/ SendPage
  <2>1. /\ UNCHANGED <<log, flights, leaving, request, told>>
        /\ Replaying' => Replaying
        /\ svc # "none" /\ svc' # "notice"
    BY <1>5 DEF Hello, Insert, Select, SendPage, server, Replaying
  <2> QED BY <2>1 DEF OneFlight, Connected
<1>6. CASE EndPage
  <2>1. /\ UNCHANGED <<log, flights, leaving, request, told>>
        /\ svc = "page" /\ svc' = IF request.before = 0 THEN "presence" ELSE "ready"
    BY <1>6 DEF EndPage, server
  <2> QED BY <2>1 DEF OneFlight, Replaying, Connected
<1>7. CASE Open
  BY <1>7 DEF Open, server, OneFlight, Replaying
<1>8. CASE LoadOlder
  <2>1. /\ UNCHANGED <<log, flights, leaving, told>> /\ svc = "ready" /\ svc' = "select"
        /\ request'.before > 0
    BY <1>8 DEF LoadOlder, server
  <2>2. ~Replaying'
    BY <2>1 DEF Replaying, TypeOK, BrowserOK, Pagers
  <2> QED BY <2>1, <2>2 DEF OneFlight, Connected
<1>9. CASE Deliver \/ Notify \/ Idle \/ UNCHANGED vars
  BY <1>9 DEF Deliver, Notify, Idle, vars, server, handler, OneFlight, Replaying, Connected
<1>10. CASE Drop \/ Reload
  BY <1>10 DEF Drop, Reload, Disconnect, OneFlight, Connected
<1> QED BY <1>1, <1>2, <1>3, <1>4, <1>5, <1>6, <1>7, <1>8, <1>9, <1>10 DEF Next, HandlerStep

(* What is on the wire is not older than what the browser has seen, and     *)
(* comes in the order of the log, but for the pages the browser asked for,  *)
(* which lie before its oldest.                                             *)
Exempt(n)  == pager.more /\ n < pager.oldest
IsEvent(i) == wire[i].type = "event"
Held   == afterSeq > 0 /\ IsMessage(afterSeq) => afterSeq \in mem
Ahead  == \A i \in 1..Len(wire) : IsEvent(i) => wire[i].seq >= afterSeq \/ Exempt(wire[i].seq)
Rising == \A i, j \in 1..Len(wire) : i < j /\ IsEvent(i) /\ IsEvent(j) =>
              wire[i].seq <= wire[j].seq \/ Exempt(wire[j].seq)
Behind == \A i, j \in 1..Len(wire) : i < j /\ Cursor(i) /\ IsEvent(j) =>
              wire[i].seq <= wire[j].seq /\ ~Exempt(wire[j].seq)
Below  == \A n \in page.todo :
              IF request.before > 0 THEN n < pager.oldest
              ELSE n >= afterSeq /\ \A i \in 1..Len(wire) : IsEvent(i) => wire[i].seq <= n
InOrder == Held /\ Ahead /\ Rising /\ Behind /\ Below

LEMMA OrderQuiet ==
    ASSUME TypeOK, InOrder, Grown, UNCHANGED <<wire, afterSeq, mem>>,
           pager'.more = pager.more, pager'.oldest = pager.oldest, Below'
    PROVE  InOrder'
<1>1. Held'
  BY DEF InOrder, Held, IsMessage, Grown, TypeOK, BrowserOK
<1>2. Ahead'
  BY DEF InOrder, Ahead, IsEvent, Exempt
<1>3. Rising'
  BY DEF InOrder, Rising, IsEvent, Exempt
<1>4. Behind'
  BY DEF InOrder, Behind, IsEvent, Exempt, Cursor
<1> QED BY <1>1, <1>2, <1>3, <1>4 DEF InOrder

LEMMA OrderSend ==
    ASSUME TypeOK, InOrder, NEW type \in {"hello", "event", "history_page"}, NEW seq \in Nat,
           NEW more \in BOOLEAN, wire' = Append(wire, Packet(type, seq, more)),
           UNCHANGED <<log, pager, afterSeq, mem, request>>, page'.todo \subseteq page.todo,
           type = "event" =>
              /\ seq >= afterSeq \/ Exempt(seq)
              /\ \A i \in 1..Len(wire) : IsEvent(i) => wire[i].seq <= seq \/ Exempt(seq)
              /\ \A i \in 1..Len(wire) : Cursor(i) => wire[i].seq <= seq /\ ~Exempt(seq)
              /\ \A n \in page'.todo : request.before > 0 \/ seq <= n
    PROVE  InOrder'
<1>0. Len(wire) \in Nat /\ Carries(type, seq, more)
  BY Sent DEF Carries
<1>1. /\ \A i \in 1..Len(wire') : i \in 1..Len(wire) \/ i = Len(wire) + 1
      /\ \A i \in 1..Len(wire) : wire'[i] = wire[i]
      /\ wire'[Len(wire) + 1].type = type /\ wire'[Len(wire) + 1].seq = seq
      /\ \A i, j \in 1..Len(wire') : i < j => i \in 1..Len(wire)
  BY <1>0 DEF Carries
<1>2. Held'
  BY DEF InOrder, Held, IsMessage
<1>3. Ahead'
  BY <1>1 DEF InOrder, Ahead, IsEvent, Exempt
<1>4. Rising'
  BY <1>1 DEF InOrder, Rising, IsEvent, Exempt
<1>5. Behind'
  BY <1>1 DEF InOrder, Behind, IsEvent, Exempt, Cursor
<1>6. Below'
  <2> SUFFICES ASSUME NEW n \in page'.todo
               PROVE  IF request.before > 0 THEN n < pager.oldest
                      ELSE n >= afterSeq /\ \A i \in 1..Len(wire') : IsEvent(i)' => wire'[i].seq <= n
    BY DEF Below
  <2>1. CASE request.before > 0
    BY <2>1 DEF InOrder, Below
  <2>2. CASE ~(request.before > 0)
    <3>1. n >= afterSeq /\ \A i \in 1..Len(wire) : IsEvent(i) => wire[i].seq <= n
      BY <2>2 DEF InOrder, Below
    <3>2. \A i \in 1..Len(wire') : IsEvent(i)' => wire'[i].seq <= n
      BY <1>1, <2>2, <3>1 DEF IsEvent
    <3> QED BY <2>2, <3>1, <3>2
  <2> QED BY <2>1, <2>2
<1> QED BY <1>2, <1>3, <1>4, <1>5, <1>6 DEF InOrder

LEMMA OrderDeliver == ASSUME TypeOK, Phases, InOrder, Deliver PROVE InOrder'
<1>0. /\ wire[1] \in Packets /\ 1 \in 1..Len(wire) /\ Len(wire) \in Nat /\ wire[1].seq \in Nat
      /\ UNCHANGED <<log, svc, request, page>> /\ mem \subseteq mem'
      /\ afterSeq \in Nat
  <2>1. mem \subseteq mem'
    BY Handled DEF Packets
  <2> QED BY <2>1, Handled DEF Deliver, handler, server, Packets, TypeOK, BrowserOK
<1>1. \A i \in 1..Len(wire') : /\ i + 1 \in 1..Len(wire) /\ 1 < i + 1 /\ wire'[i] = wire[i + 1]
                               /\ wire[i + 1].seq \in Nat
  <2>1. \A i \in 1..Len(wire') : i + 1 \in 1..Len(wire) /\ 1 < i + 1 /\ wire'[i] = wire[i + 1]
    BY <1>0, Handled
  <2>2. \A k \in 1..Len(wire) : wire[k] \in Packets
    BY ElementOfSeq DEF TypeOK, WireOK
  <2> QED BY <2>1, <2>2 DEF Packets
<1>2. CASE wire[1].type = "event"
  <2>0. pager' = pager /\ afterSeq' = IF afterSeq >= wire[1].seq THEN afterSeq ELSE wire[1].seq
    BY <1>2, Handled
  <2>1. Held'
    BY <1>0, <1>2, <2>0, Handled DEF InOrder, Held, IsMessage
  <2>2. Ahead'
    <3> SUFFICES ASSUME NEW i \in 1..Len(wire'), IsEvent(i)'
                 PROVE  (wire[i].seq >= afterSeq \/ Exempt(wire[i].seq))'
      BY DEF Ahead
    <3>1. PICK k \in 1..Len(wire) : k = i + 1 /\ 1 < k /\ wire'[i] = wire[k] /\ wire[k].seq \in Nat
      BY <1>1
    <3>2. IsEvent(k)
      BY <3>1 DEF IsEvent
    <3>3. wire[k].seq >= afterSeq \/ Exempt(wire[k].seq)
      BY <3>2 DEF InOrder, Ahead
    <3>4. wire[1].seq <= wire[k].seq \/ Exempt(wire[k].seq)
      BY <1>0, <1>2, <3>1, <3>2 DEF InOrder, Rising, IsEvent
    <3> QED BY <1>0, <2>0, <3>1, <3>3, <3>4 DEF Exempt
  <2>3. Rising'
    <3> SUFFICES ASSUME NEW i \in 1..Len(wire'), NEW j \in 1..Len(wire'), i < j, IsEvent(i)', IsEvent(j)'
                 PROVE  (wire[i].seq <= wire[j].seq \/ Exempt(wire[j].seq))'
      BY DEF Rising
    <3>1. PICK k \in 1..Len(wire) : k = i + 1 /\ wire'[i] = wire[k]
      BY <1>1
    <3>2. PICK l \in 1..Len(wire) : l = j + 1 /\ wire'[j] = wire[l]
      BY <1>1
    <3>3. k < l /\ IsEvent(k) /\ IsEvent(l)
      BY <3>1, <3>2 DEF IsEvent
    <3> QED BY <2>0, <3>1, <3>2, <3>3 DEF InOrder, Rising, Exempt
  <2>4. Behind'
    <3> SUFFICES ASSUME NEW i \in 1..Len(wire'), NEW j \in 1..Len(wire'), i < j, Cursor(i)', IsEvent(j)'
                 PROVE  (wire[i].seq <= wire[j].seq /\ ~Exempt(wire[j].seq))'
      BY DEF Behind
    <3>1. PICK k \in 1..Len(wire) : k = i + 1 /\ wire'[i] = wire[k]
      BY <1>1
    <3>2. PICK l \in 1..Len(wire) : l = j + 1 /\ wire'[j] = wire[l]
      BY <1>1
    <3>3. k < l /\ Cursor(k) /\ IsEvent(l)
      BY <3>1, <3>2 DEF IsEvent, Cursor
    <3> QED BY <2>0, <3>1, <3>2, <3>3 DEF InOrder, Behind, Exempt
  <2>5. Below'
    <3> SUFFICES ASSUME NEW n \in page.todo
                 PROVE  IF request.before > 0 THEN n < pager.oldest
                        ELSE n >= afterSeq' /\ \A i \in 1..Len(wire') : IsEvent(i)' => wire'[i].seq <= n
      BY <1>0, <2>0 DEF Below
    <3>1. CASE request.before > 0
      BY <3>1 DEF InOrder, Below
    <3>2. CASE ~(request.before > 0)
      <4>1. n >= afterSeq /\ \A i \in 1..Len(wire) : IsEvent(i) => wire[i].seq <= n
        BY <3>2 DEF InOrder, Below
      <4>2. \A i \in 1..Len(wire') : IsEvent(i)' => wire'[i].seq <= n
        BY <1>1, <4>1 DEF IsEvent
      <4> QED BY <1>0, <1>2, <2>0, <3>2, <4>1, <4>2 DEF IsEvent
    <3> QED BY <3>1, <3>2
  <2> QED BY <2>1, <2>2, <2>3, <2>4, <2>5 DEF InOrder
<1>3. ASSUME wire[1].type # "event",
             \A k \in 1..Len(wire) : 1 < k /\ IsEvent(k) => ~Exempt(wire[k].seq),
             Behind', Below'
      PROVE  InOrder'
  <2>0. afterSeq' = afterSeq /\ mem' = mem
    BY <1>0, <1>3, Handled DEF Packets
  <2>1. Held'
    BY <1>0, <2>0 DEF InOrder, Held, IsMessage
  <2>2. Ahead'
    <3> SUFFICES ASSUME NEW i \in 1..Len(wire'), IsEvent(i)'
                 PROVE  wire'[i].seq >= afterSeq
      BY <2>0 DEF Ahead
    <3>1. PICK k \in 1..Len(wire) : k = i + 1 /\ 1 < k /\ wire'[i] = wire[k]
      BY <1>1
    <3>2. IsEvent(k)
      BY <3>1 DEF IsEvent
    <3> QED BY <1>3, <3>1, <3>2 DEF InOrder, Ahead
  <2>3. Rising'
    <3> SUFFICES ASSUME NEW i \in 1..Len(wire'), NEW j \in 1..Len(wire'), i < j, IsEvent(i)', IsEvent(j)'
                 PROVE  wire'[i].seq <= wire'[j].seq
      BY DEF Rising
    <3>1. PICK k \in 1..Len(wire) : k = i + 1 /\ wire'[i] = wire[k]
      BY <1>1
    <3>2. PICK l \in 1..Len(wire) : l = j + 1 /\ wire'[j] = wire[l] /\ 1 < l
      BY <1>1
    <3>3. k < l /\ IsEvent(k) /\ IsEvent(l)
      BY <3>1, <3>2 DEF IsEvent
    <3> QED BY <1>3, <3>1, <3>2, <3>3 DEF InOrder, Rising
  <2> QED BY <1>3, <2>1, <2>2, <2>3 DEF InOrder
<1>4. CASE wire[1].type = "hello"
  <2>0. ~pager.more /\ ~pager'.more
    BY <1>0, <1>4, Handled, NonesTyped DEF Phases
  <2>1. Behind'
    <3> SUFFICES ASSUME NEW i \in 1..Len(wire'), NEW j \in 1..Len(wire'), i < j, Cursor(i)', IsEvent(j)'
                 PROVE  wire'[i].seq <= wire'[j].seq
      BY <2>0 DEF Behind, Exempt
    <3>1. PICK k \in 1..Len(wire) : k = i + 1 /\ wire'[i] = wire[k]
      BY <1>1
    <3>2. PICK l \in 1..Len(wire) : l = j + 1 /\ wire'[j] = wire[l]
      BY <1>1
    <3>3. k < l /\ Cursor(k) /\ IsEvent(l)
      BY <3>1, <3>2 DEF IsEvent, Cursor
    <3> QED BY <3>1, <3>2, <3>3 DEF InOrder, Behind
  <2>2. Below'
    <3>1. afterSeq' = afterSeq
      BY <1>4, Handled
    <3>2. page.todo # {} => ~(request.before > 0)
      <4>1. page.todo # {} => svc = "page"
        BY NonesTyped DEF TypeOK, HandlerOK
      <4> QED BY <2>0, <4>1 DEF Phases
    <3> SUFFICES ASSUME NEW n \in page.todo
                 PROVE  n >= afterSeq /\ \A i \in 1..Len(wire') : IsEvent(i)' => wire'[i].seq <= n
      BY <1>0, <3>1, <3>2 DEF Below
    <3>3. n >= afterSeq /\ \A i \in 1..Len(wire) : IsEvent(i) => wire[i].seq <= n
      BY <3>2 DEF InOrder, Below
    <3>4. \A i \in 1..Len(wire') : IsEvent(i)' => wire'[i].seq <= n
      BY <1>1, <3>3 DEF IsEvent
    <3> QED BY <3>3, <3>4
  <2> QED BY <1>3, <1>4, <2>0, <2>1, <2>2 DEF Exempt
<1>5. CASE wire[1].type = "history_page"
  <2>0. /\ pager'.oldest \in {0, wire[1].seq} /\ page.todo = {}
    <3>1. svc # "page"
      BY <1>0, <1>5 DEF Phases, NoCursor, Cursor
    <3> QED BY <1>5, <3>1, Handled, NonesTyped DEF TypeOK, HandlerOK
  <2>1. \A k \in 1..Len(wire) : 1 < k /\ IsEvent(k) => ~Exempt(wire[k].seq)
    BY <1>0, <1>5 DEF InOrder, Behind, Cursor
  <2>2. Behind'
    <3> SUFFICES ASSUME NEW i \in 1..Len(wire'), Cursor(i)' PROVE FALSE
      BY DEF Behind
    <3>1. PICK k \in 1..Len(wire) : k = i + 1 /\ 1 < k /\ wire'[i] = wire[k]
      BY <1>1
    <3>2. Cursor(k) /\ Cursor(1)
      BY <1>5, <3>1 DEF Cursor
    <3> QED BY <1>0, <3>1, <3>2 DEF Phases
  <2>3. Below'
    BY <1>0, <2>0 DEF Below
  <2> QED BY <1>3, <1>5, <2>1, <2>2, <2>3
<1> QED BY <1>0, <1>2, <1>4, <1>5 DEF Packets

(* A browser that is connecting holds all it has been told of, and asks for *)
(* the rest: a new one for what comes after its hello, one that has been    *)
(* here for what comes after the last it saw or, if it holds nothing, after *)
(* its join.                                                                *)
Caught  == \A n \in 1..Len(log) : Joined(n) /\ n <= afterSeq => n \in mem
NoEvent == \A i \in 1..Len(wire) : ~IsEvent(i)
Fresh   == /\ request = NoCursors
           /\ svc = "hello" => ~met
           /\ svc # "hello" => Bound = Len(log)
Warm    == /\ met /\ request.join = boundary /\ request.before = 0
           /\ mem = {} \/ Floor(request) >= afterSeq
           /\ Lacking
Asking  == Starting => Caught /\ NoEvent /\ (Connected => Fresh \/ Warm)

LEMMA AskedForRest ==
    ASSUME TypeOK, LeakInv, Asking, svc = "select", request.before = 0
    PROVE  /\ Lacking /\ NoEvent
           /\ \A n \in All : n >= afterSeq
<1>0. /\ Caught /\ NoEvent /\ (Fresh \/ Warm) /\ Greeted /\ Starting
      /\ Len(log) \in Nat /\ afterSeq \in Nat /\ Bound \in Nat /\ Bound <= Len(log)
      /\ request \in Cursors /\ log \in Seq({"message", "other"})
      /\ request = NoCursors \/ request.join = Bound \/ Bound = 0
  BY LenProperties DEF Asking, Starting, Connected, Greeted, LeakInv, Bounded, TypeOK, LogOK, BrowserOK, HandlerOK
<1>1. PICK b \in Nat : b = Bound
  BY <1>0
<1>2. PICK l \in Nat : l = Floor(request) /\ l >= b
  BY <1>0, <1>1, FloorAbove
<1>3. CASE Fresh
  <2>1. Floor(request) = Len(log)
    BY <1>3, NonesTyped DEF Fresh, Floor
  <2>2. All = {}
    BY <1>0, <2>1 DEF All
  <2>3. Lacking
    BY <1>0, <1>3 DEF Fresh, Lacking, Joined
  <2> QED BY <1>0, <2>2, <2>3
<1>4. CASE Warm
  <2>1. ASSUME NEW n \in All PROVE n >= afterSeq
    <3>1. n \in 1..Len(log) /\ IsMessage(n) /\ n > l
      BY <1>2 DEF All
    <3>2. Joined(n)
      BY <1>1, <1>2, <3>1 DEF Joined
    <3>3. CASE mem = {}
      BY <1>0, <3>1, <3>2, <3>3 DEF Caught
    <3>4. CASE Floor(request) >= afterSeq
      BY <1>0, <1>2, <3>1, <3>4
    <3> QED BY <1>4, <3>3, <3>4 DEF Warm
  <2> QED BY <1>0, <1>4, <2>1 DEF Warm
<1> QED BY <1>0, <1>3, <1>4

LEMMA InOrderStep ==
    ASSUME TypeOK, LeakInv, Phases, OneFlight, InOrder, Asking, ~Reload, [Next]_vars
    PROVE  InOrder'
<1>0. /\ Grown /\ Len(log) \in Nat /\ afterSeq \in Nat /\ afterSeq <= Len(log)
      /\ request.before \in Nat /\ pager \in Pagers /\ pager.oldest \in Nat /\ pager.oldest <= Len(log)
      /\ \A i \in 1..Len(wire) : wire[i].seq \in Nat /\ wire[i].seq <= Len(log)
      /\ svc # "page" => page.todo = {}
  <2>1. \A i \in 1..Len(wire) : wire[i] \in Packets /\ wire[i].seq <= Len(log)
    BY ElementOfSeq DEF TypeOK, WireOK
  <2> QED BY <2>1, LogStep, NonesTyped
          DEF Grown, TypeOK, HandlerOK, BrowserOK, Cursors, Pagers, Packets
<1>1. CASE \/ \E kind \in {"message", "other"} : Post(kind)
           \/ \E n \in leaving : Left(n)
           \/ Insert \/ Notify \/ Idle \/ UNCHANGED vars
           \/ Announce("other", "presence", "notice") \/ Announce("message", "notice", "ready")
  <2>1. UNCHANGED <<wire, afterSeq, mem, pager, page, request>>
    BY <1>1 DEF Post, Left, Insert, Notify, Idle, Announce, vars, handler, storage, memory
  <2>2. Below'
    BY <2>1 DEF InOrder, Below, IsEvent
  <2> QED BY <1>0, <2>1, <2>2, OrderQuiet
<1>2. CASE \E n \in flights : Fan(n)
  <2>1. PICK n \in flights : Fan(n)
    BY <1>2
  <2>2. UNCHANGED <<log, afterSeq, mem, pager, page, request, svc>>
    BY <2>1 DEF Fan, handler, storage, memory
  <2>3. CASE InRoom
    <3>1. n = Len(log) /\ ~Replaying
      BY <2>3 DEF OneFlight, Connected, InRoom
    <3>2. PICK l \in Nat : l = n
      BY <1>0, <3>1
    <3>3. wire' = Append(wire, Packet("event", l, FALSE))
      BY <2>1, <2>3, <3>2 DEF Fan
    <3>4. l >= afterSeq /\ ~Exempt(l) /\ \A i \in 1..Len(wire) : wire[i].seq <= l
      BY <1>0, <3>1, <3>2 DEF Exempt
    <3>5. \A m \in page'.todo : request.before > 0
      BY <1>0, <2>2, <3>1 DEF Replaying
    <3>6. page'.todo \subseteq page.todo
      BY <2>2
    <3> QED BY <2>2, <3>3, <3>4, <3>5, <3>6, OrderSend
  <2>4. CASE ~InRoom
    <3>1. wire' = wire
      BY <2>1, <2>4 DEF Fan
    <3>2. Below'
      BY <2>2, <3>1 DEF InOrder, Below, IsEvent
    <3> QED BY <1>0, <2>2, <3>1, <3>2, OrderQuiet
  <2> QED BY <2>3, <2>4
<1>3. CASE Hello
  <2>1. PICK l \in Nat : l = Len(log)
    BY <1>0
  <2>2. /\ wire' = Append(wire, Packet("hello", l, FALSE))
        /\ UNCHANGED <<log, afterSeq, mem, pager, page, request>>
    BY <1>3, <2>1 DEF Hello, server, storage, memory
  <2> QED BY <2>2, OrderSend
<1>4. CASE Select
  <2>1. /\ UNCHANGED <<log, wire, afterSeq, mem, pager, request>> /\ svc = "select"
        /\ page'.todo \subseteq All
    BY <1>4, Selected DEF Select, server, storage, memory
  <2>2. Below'
    <3>1. CASE request.before > 0
      <4>1. \A n \in page'.todo : n < pager.oldest
        BY <2>1, <3>1 DEF All, Phases
      <4> QED BY <2>1, <3>1, <4>1 DEF Below
    <3>2. CASE ~(request.before > 0)
      <4>1. NoEvent /\ \A n \in All : n >= afterSeq
        BY <1>0, <2>1, <3>2, AskedForRest
      <4> QED BY <2>1, <3>2, <4>1 DEF Below, NoEvent, IsEvent
    <3> QED BY <3>1, <3>2
  <2> QED BY <1>0, <2>1, <2>2, OrderQuiet
<1>5. CASE SendPage
  <2>1. PICK n \in page.todo : /\ wire' = Append(wire, Packet("event", n, FALSE))
                               /\ \A m \in page.todo : n <= m
                               /\ page'.todo = page.todo \ {n}
    BY <1>5, LoweredPage DEF SendPage
  <2>2. /\ UNCHANGED <<log, afterSeq, mem, pager, request, svc>> /\ n \in Nat /\ svc = "page"
    BY <1>5 DEF SendPage, server, storage, memory, TypeOK, HandlerOK
  <2>3. n >= afterSeq \/ Exempt(n)
    BY <1>0, <2>2 DEF InOrder, Below, Phases, Exempt
  <2>4. \A i \in 1..Len(wire) : IsEvent(i) => wire[i].seq <= n \/ Exempt(n)
    BY <1>0, <2>2 DEF InOrder, Below, Phases, Exempt
  <2>5. \A i \in 1..Len(wire) : ~Cursor(i)
    BY <2>2 DEF Phases, NoCursor
  <2> QED BY <2>1, <2>2, <2>3, <2>4, <2>5, OrderSend
<1>6. CASE EndPage
  <2>1. /\ UNCHANGED <<log, afterSeq, mem, pager, request>> /\ page' = NoPage
        /\ wire' = Append(wire, Packet("history_page", page.oldest, page.more))
        /\ page.oldest \in Nat /\ page.more \in BOOLEAN
    BY <1>6 DEF EndPage, server, storage, memory, TypeOK, HandlerOK, Pages
  <2>2. page'.todo = {}
    BY <2>1, NonesTyped
  <2> QED BY <2>1, <2>2, OrderSend
<1>7. CASE Open
  <2>1. /\ UNCHANGED <<wire, afterSeq, mem, pager, page>> /\ svc = "none"
    BY <1>7 DEF Open, Connected, storage, memory
  <2>2. Below'
    BY <1>0, <2>1 DEF Below
  <2> QED BY <1>0, <2>1, <2>2, OrderQuiet
<1>8. CASE LoadOlder
  <2>1. /\ UNCHANGED <<wire, afterSeq, mem, page>> /\ svc = "ready"
        /\ pager' = [pager EXCEPT !.loading = TRUE]
    BY <1>8 DEF LoadOlder, storage
  <2>2. Below'
    BY <1>0, <2>1 DEF Below
  <2>3. pager'.more = pager.more /\ pager'.oldest = pager.oldest
    BY <1>0, <2>1 DEF Pagers
  <2> QED BY <1>0, <2>1, <2>2, <2>3, OrderQuiet
<1>9. CASE Deliver
  BY <1>9, OrderDeliver
<1>10. CASE Drop
  <2>1. /\ wire' = <<>> /\ page' = NoPage /\ UNCHANGED <<afterSeq, mem>>
    BY <1>10 DEF Drop, Disconnect, storage, memory
  <2>2. Len(wire') = 0 /\ page'.todo = {}
    BY <2>1, EmptySeq, NonesTyped
  <2>3. Held'
    BY <1>0, <2>1 DEF InOrder, Held, IsMessage, Grown
  <2> QED BY <2>2, <2>3 DEF InOrder, Ahead, Rising, Behind, Below
<1> QED BY <1>1, <1>2, <1>3, <1>4, <1>5, <1>6, <1>7, <1>8, <1>9, <1>10 DEF Next, HandlerStep

(* The browser has older messages yet to be scrolled to, or would have once *)
(* what is on its way has arrived.                                          *)
CutShort == page.more \/ pager.more \/ \E i \in 1..Len(wire) : Cursor(i) /\ wire[i].more

LEMMA CaughtByDrop ==
    ASSUME TypeOK, LeakInv, Phases, Covered, OneFlight, InOrder, Asking, Connected, ~CutShort
    PROVE  Caught
<1> SUFFICES ASSUME ~Starting, NEW n \in 1..Len(log), Joined(n), n <= afterSeq PROVE n \in mem
  BY DEF Asking, Caught
<1>0. /\ n \in Nat /\ n > 0 /\ Len(log) \in Nat /\ afterSeq \in Nat /\ afterSeq <= Len(log)
      /\ request.before \in Nat
  BY LenProperties DEF TypeOK, LogOK, BrowserOK, HandlerOK, Cursors
<1>1. n = afterSeq => n \in mem
  BY <1>0 DEF InOrder, Held, Joined
<1>2. Reached(n) /\ ~pager.more /\ ~page.more /\ ~OlderSent(n) /\ ~OlderKnown(n)
  BY DEF Covered, CutShort, OlderSent, OlderKnown
<1>3. n \in flights => n = afterSeq
  BY <1>0 DEF OneFlight
<1>4. n \in page.todo => n = afterSeq
  <2>1. n \in page.todo => svc = "page"
    BY NonesTyped DEF TypeOK, HandlerOK
  <2>2. n \in page.todo => request.before = 0
    BY <1>0, <1>2, <2>1 DEF Phases
  <2> QED BY <1>0, <2>2 DEF InOrder, Below
<1>5. OnWire(n) => n = afterSeq
  BY <1>0, <1>2 DEF OnWire, InOrder, Ahead, IsEvent, Exempt
<1> QED BY <1>1, <1>2, <1>3, <1>4, <1>5 DEF Reached

LEMMA CaughtGrows ==
    ASSUME TypeOK, Caught, Grown, UNCHANGED <<afterSeq, mem>>, Bound' = Bound PROVE Caught'
BY DEF Caught, Joined, IsMessage, Grown, TypeOK, BrowserOK

LEMMA AskingOpen ==
    ASSUME TypeOK, LeakInv, given.Log # <<>>, Phases, Asking, Open PROVE Asking'
<1>0. /\ svc = "none" /\ svc' = "hello" /\ Starting
      /\ UNCHANGED <<log, wire, joinSeq, afterSeq, mem, notice, met, boundary>>
      /\ Len(log) \in Nat /\ boundary \in Nat /\ joinSeq \in Nat /\ afterSeq \in Nat
      /\ mem \subseteq 1..Len(log)
  BY LenProperties DEF Open, Connected, Starting, server, storage, memory, bounds, TypeOK, LogOK, BrowserOK, CountsOK
<1>1. Caught /\ NoEvent
  BY <1>0 DEF Asking
<1>2. Caught' /\ NoEvent'
  BY <1>0, <1>1 DEF Caught, NoEvent, Joined, IsMessage, IsEvent, Bound
<1> DEFINE from == resolveConnectAfterSeq(LocalMessageCount, joinSeq, afterSeq)
<1>3. request' = [after |-> from, join |-> joinSeq, before |-> 0]
  BY DEF Open, NoCursors
<1>4. CASE ~met
  <2>1. joinSeq = 0 /\ afterSeq = 0
    BY <1>4 DEF LeakInv, New
  <2>2. from = 0
    BY <2>1 DEF resolveConnectAfterSeq
  <2>3. request' = NoCursors
    BY <1>3, <2>1, <2>2 DEF NoCursors
  <2> QED BY <1>0, <1>2, <1>4, <2>3 DEF Asking, Fresh
<1>5. CASE met
  <2>1. boundary > 0 /\ joinSeq = boundary /\ Bound = boundary
    BY <1>5 DEF LeakInv, Greeted, Bounded, Bound
  <2>2. from = afterSeq \/ (from = boundary /\ mem = {})
    <3>1. CASE LocalMessageCount = 0
      <4>1. IsFiniteSet(mem)
        <5>1. IsFiniteSet(1..Len(log))
          BY <1>0, FS_Interval
        <5> QED BY <1>0, <5>1, FS_Subset
      <4>2. Cardinality(mem) \in Nat
        BY <4>1, FS_CardinalityType
      <4>3. Cardinality(mem) = 0
        BY <3>1, <4>2 DEF LocalMessageCount
      <4>4. mem = {}
        BY <4>1, <4>3, FS_EmptySet
      <4> QED BY <2>1, <3>1, <4>4 DEF resolveConnectAfterSeq
    <3>2. CASE LocalMessageCount # 0
      BY <3>2 DEF resolveConnectAfterSeq
    <3> QED BY <3>1, <3>2
  <2> HIDE DEF from
  <2>3. PICK f \in Nat : f = from
    BY <1>0, <2>2
  <2>4. request' = [after |-> f, join |-> boundary, before |-> 0]
    BY <1>3, <2>1, <2>3
  <2>5. PICK l \in Nat : l = Floor(request') /\ l >= f
                         /\ (l = f \/ l = boundary)
    <3>1. Floor(request') = IF f > 0 THEN Max({f, boundary}) ELSE boundary
      BY <1>0, <2>1, <2>4 DEF Floor
    <3>2. Max({f, boundary}) = IF f >= boundary THEN f ELSE boundary
      BY <1>0, MaxOfTwo
    <3> QED BY <1>0, <3>1, <3>2
  <2>6. mem' = {} \/ l >= afterSeq'
    BY <1>0, <2>2, <2>3, <2>5
  <2>7. \A n \in 1..Len(log) : Joined(n) => n \in mem \/ n > l
    <3> SUFFICES ASSUME NEW n \in 1..Len(log), Joined(n), ~(n > l) PROVE n \in mem
      OBVIOUS
    <3>1. n > boundary
      BY <2>1 DEF Joined
    <3>2. l = f /\ f = afterSeq
      BY <1>0, <2>2, <2>3, <2>5, <3>1
    <3> QED BY <1>0, <1>1, <3>2 DEF Caught
  <2>8. (Floor(request))' = l
    BY <1>0, <2>5 DEF Floor
  <2>9. Lacking'
    <3>1. \A n \in 1..Len(log') : Joined(n)' => Joined(n) /\ n \in 1..Len(log)
      BY <1>0 DEF Joined, IsMessage, Bound
    <3> QED BY <1>0, <2>7, <2>8, <3>1 DEF Lacking
  <2>10. Warm'
    BY <1>0, <1>5, <2>4, <2>6, <2>8, <2>9 DEF Warm
  <2> QED BY <1>2, <2>10 DEF Asking
<1> QED BY <1>0, <1>4, <1>5 DEF TypeOK, CountsOK

LEMMA AskingStep ==
    ASSUME TypeOK, LeakInv, given.Log # <<>>, Phases, Covered, OneFlight, InOrder, Asking,
           ~given.Overlap, ~Reload, Drop => ~CutShort, [Next]_vars
    PROVE  Asking'
<1> SUFFICES ASSUME Starting' PROVE Caught' /\ NoEvent' /\ (Connected' => (Fresh \/ Warm)')
  BY DEF Asking
<1>0. /\ Grown /\ Len(log) \in Nat /\ afterSeq \in Nat /\ afterSeq <= Len(log) /\ Len(wire) \in Nat
      /\ request.before \in Nat /\ pager.oldest \in Nat /\ svc \in Services
  BY LogStep, LenProperties DEF Grown, TypeOK, HandlerOK, WireOK, BrowserOK, Cursors, Pagers
<1>1. CASE Drop
  <2>1. /\ Connected /\ met /\ svc' = "none" /\ wire' = <<>> /\ UNCHANGED <<afterSeq, mem>>
    BY <1>1 DEF Drop, Disconnect, storage, memory
  <2>2. Caught
    BY <1>1, <2>1, CaughtByDrop
  <2>3. Bound' = Bound
    BY <2>1, BoundStays DEF Greeted
  <2>4. Caught'
    BY <1>0, <2>1, <2>2, <2>3, CaughtGrows
  <2>5. NoEvent'
    BY <2>1, EmptySeq DEF NoEvent
  <2> QED BY <2>1, <2>4, <2>5 DEF Connected
<1>2. CASE Open
  BY <1>2, AskingOpen DEF Asking
<1>3. CASE Hello
  <2>1. /\ svc = "hello" /\ svc' = "insert" /\ Starting /\ Connected
        /\ UNCHANGED <<log, afterSeq, mem, met, boundary, request>>
    BY <1>3 DEF Hello, Starting, Connected, server, storage, memory
  <2>2. Caught /\ NoEvent /\ (Fresh \/ Warm)
    BY <2>1 DEF Asking
  <2>3. PICK l \in Nat : l = Len(log)
    BY <1>0
  <2>4. Carries("hello", l, FALSE)
    BY <1>3, <2>3, Sent DEF Hello, Carries
  <2>5. NoEvent'
    <3>1. \A i \in 1..Len(wire') : i \in 1..Len(wire) \/ i = Len(wire) + 1
      BY <1>0, <2>4 DEF Carries
    <3> QED BY <2>2, <2>4, <3>1 DEF NoEvent, IsEvent, Carries
  <2>6. CASE met
    <3>1. Bound' = Bound /\ ~Fresh
      BY <2>1, <2>6 DEF Bound, Fresh
    <3>2. Caught'
      BY <1>0, <2>1, <2>2, <3>1, CaughtGrows
    <3>3. Warm'
      BY <2>1, <2>2, <3>1 DEF Warm, Lacking, Joined, IsMessage, Floor
    <3> QED BY <2>5, <3>2, <3>3
  <2>7. CASE ~met
    <3>1. wire = <<>> /\ afterSeq = 0 /\ request = NoCursors
      BY <2>1, <2>7 DEF LeakInv, New, Greeted
    <3>2. Len(wire) = 0
      BY <3>1, EmptySeq
    <3>3. Bound' = Len(log)
      BY <2>1, <2>3, <2>4, <2>7, <3>2 DEF Bound, Carries
    <3>4. Caught'
      BY <2>1, <3>1 DEF Caught
    <3>5. Fresh'
      BY <2>1, <3>1, <3>3 DEF Fresh
    <3> QED BY <2>5, <3>4, <3>5
  <2> QED BY <2>6, <2>7
<1>4. CASE Insert
  <2>1. /\ svc = "insert" /\ svc' = "select" /\ Starting /\ Connected
        /\ UNCHANGED <<log, wire, afterSeq, mem, met, boundary, request>>
    BY <1>4 DEF Insert, Starting, Connected, server, storage, memory, bounds
  <2>2. Bound' = Bound
    BY <2>1 DEF Bound
  <2>3. Caught' /\ NoEvent'
    BY <1>0, <2>1, <2>2, CaughtGrows DEF Asking, NoEvent, IsEvent
  <2>4. Fresh => Fresh'
    BY <2>1, <2>2 DEF Fresh
  <2>5. Warm => Warm'
    BY <2>1, <2>2 DEF Warm, Lacking, Joined, IsMessage, Floor
  <2> QED BY <2>1, <2>3, <2>4, <2>5 DEF Asking
<1>5. CASE Deliver
  <2>0. /\ wire[1] \in Packets /\ 1 \in 1..Len(wire) /\ wire # <<>>
        /\ UNCHANGED <<log, svc, request>>
        /\ \A i \in 1..Len(wire') : i + 1 \in 1..Len(wire) /\ wire'[i] = wire[i + 1]
    BY <1>0, <1>5, Handled DEF Deliver, server, handler
  <2>1. Starting /\ Connected /\ Greeted
    BY <2>0 DEF Starting, Phases, Connected, Greeted
  <2>2. Caught /\ NoEvent /\ (Fresh \/ Warm) /\ NoCursor
    BY <2>1 DEF Asking, Phases
  <2>3. wire[1].type = "hello"
    BY <2>0, <2>2 DEF NoEvent, IsEvent, NoCursor, Cursor, Packets
  <2>4. afterSeq' = afterSeq /\ mem' = mem
    BY <1>5, <2>3, Handled
  <2>5. Bound' = Bound
    BY <2>1, BoundStays
  <2>6. Caught'
    BY <1>0, <2>2, <2>4, <2>5, CaughtGrows
  <2>7. NoEvent'
    BY <2>0, <2>2 DEF NoEvent, IsEvent
  <2>8. met => met' /\ boundary' = boundary
    BY <1>5 DEF Deliver
  <2>9. Warm => Warm'
    BY <2>0, <2>4, <2>5, <2>8 DEF Warm, Lacking, Joined, IsMessage, Floor
  <2>10. Fresh => Fresh'
    BY <2>0, <2>1, <2>5 DEF Fresh, Phases
  <2> QED BY <2>2, <2>6, <2>7, <2>9, <2>10
<1>6. CASE \/ \E kind \in {"message", "other"} : Post(kind)
           \/ \E n \in leaving : Left(n)
           \/ \E n \in flights : Fan(n)
           \/ Notify
  <2>1. UNCHANGED <<svc, request, afterSeq, mem, met, boundary>>
    BY <1>6 DEF Post, Left, Fan, Notify, handler, storage, memory, bounds
  <2>2. svc = "none" /\ Starting
    <3>1. Starting
      BY <2>1 DEF Starting
    <3>2. svc # "none" => Replaying /\ svc # "ready"
      BY <1>0, <3>1 DEF Starting, Replaying
    <3>3. svc # "none" => flights = {} /\ leaving = {} /\ svc # "ready"
      BY <3>2 DEF OneFlight, Connected
    <3> QED BY <1>6, <3>1, <3>3 DEF Post, Left, Fan, Notify, Connected
  <2>3. wire' = wire
    BY <1>6, <2>2 DEF Post, Left, Fan, Notify, InRoom
  <2>4. Bound' = Bound
    BY <2>1, <2>3 DEF Bound
  <2>5. Caught' /\ NoEvent'
    BY <1>0, <2>1, <2>2, <2>3, <2>4, CaughtGrows DEF Asking, NoEvent, IsEvent
  <2> QED BY <2>1, <2>2, <2>5 DEF Connected
<1>7. CASE Idle \/ UNCHANGED vars
  <2>1. UNCHANGED <<log, wire, svc, request, afterSeq, mem, met, boundary>>
    BY <1>7 DEF Idle, vars, server, handler, storage, memory, bounds
  <2> QED BY <2>1 DEF Asking, Starting, Connected, Caught, NoEvent, IsEvent, Fresh, Warm, Lacking, Joined,
                      IsMessage, Floor, Bound
<1>8. CASE Select \/ SendPage \/ EndPage
  BY <1>8 DEF Select, SendPage, EndPage, Starting
<1>9. CASE Announce("other", "presence", "notice") \/ Announce("message", "notice", "ready")
  BY <1>9 DEF Announce, Starting
<1>10. CASE LoadOlder
  <2>1. svc' = "select" /\ request'.before = pager.oldest /\ pager.oldest > 0
    BY <1>10 DEF LoadOlder
  <2> QED BY <1>0, <2>1 DEF Starting
<1> QED BY <1>1, <1>2, <1>3, <1>4, <1>5, <1>6, <1>7, <1>8, <1>9, <1>10 DEF Next, HandlerStep

Following == ~given.Overlap => Phases /\ Covered /\ OneFlight /\ InOrder /\ Asking

LEMMA FollowingInitially == Init => Following
<1> SUFFICES ASSUME Init PROVE Phases /\ Covered /\ OneFlight /\ InOrder /\ Asking
  BY DEF Following
<1>1. /\ svc = "none" /\ wire = <<>> /\ ~pager.more /\ ~pager.loading /\ page.todo = {} /\ afterSeq = 0
  BY NonesTyped DEF Init
<1>2. Len(wire) = 0
  BY <1>1, EmptySeq
<1>3. Starting /\ ~Connected /\ NoCursor
  BY <1>1, <1>2 DEF Starting, Connected, NoCursor
<1>4. Phases
  BY <1>1, <1>2, <1>3 DEF Phases
<1>5. InOrder
  BY <1>1, <1>2 DEF InOrder, Held, Ahead, Rising, Behind, Below
<1>6. Asking
  BY <1>1, <1>2, <1>3 DEF Asking, Caught, NoEvent
<1> QED BY <1>3, <1>4, <1>5, <1>6 DEF Covered, OneFlight

LEMMA FollowingStep ==
    ASSUME TypeOK, LeakInv, given.Log # <<>>, Following, [Next]_vars, ~Reload, Drop => ~CutShort
    PROVE  Following'
<1>1. given' = given
  BY LogStep
<1> SUFFICES ASSUME ~given.Overlap PROVE Phases' /\ Covered' /\ OneFlight' /\ InOrder' /\ Asking'
  BY <1>1 DEF Following
<1>2. Phases /\ Covered /\ OneFlight /\ InOrder /\ Asking
  BY DEF Following
<1>4. svc = "select" /\ request.before = 0 => Lacking
  BY <1>2, AskedForRest
<1>5. Phases'
  BY <1>2, PhasesStep DEF CutShort
<1>6. Covered'
  BY <1>2, <1>4, CoveredStep
<1>7. OneFlight'
  BY <1>2, OneFlightStep
<1>8. InOrder'
  BY <1>2, InOrderStep
<1>9. Asking'
  BY <1>2, AskingStep
<1> QED BY <1>5, <1>6, <1>7, <1>8, <1>9

(* Once a room without overlapping broadcasts is quiet, a connected browser *)
(* shows every message since its first hello, or can scroll to it, however  *)
(* often the connection was lost and whatever was lost with it (Complete),  *)
(* as long as it is not lost while older messages are left to be scrolled   *)
(* to: a reconnect asks for what came after the last message seen, and its  *)
(* hello resets the pager.  The room is not empty at the join; what a       *)
(* reload of the page does is ReloadBringsBack.                             *)
THEOREM ReconnectsComplete ==
    ASSUME \A c \in Cases : c.Log # <<>>
    PROVE  Spec /\ [][~Reload /\ (Drop => ~CutShort)]_vars => []Complete
<1>1. Init => Following
  BY FollowingInitially
<1>2. ASSUME TypeOK, LeakInv, Following, [Next]_vars, [~Reload /\ (Drop => ~CutShort)]_vars
      PROVE  Following'
  <2>1. ~Reload /\ (Drop => ~CutShort)
    <3>1. Drop \/ Reload => vars' # vars
      <4>1. Drop => drops' # drops
        BY DEF Drop, TypeOK, CountsOK
      <4>2. Reload => reloads' # reloads
        BY DEF Reload, TypeOK, CountsOK
      <4> QED BY <4>1, <4>2 DEF vars, bounds
    <3> QED BY <1>2, <3>1
  <2> QED BY <1>2, <2>1, FollowingStep DEF TypeOK, LogOK
<1>3. TypeOK /\ LeakInv /\ Following => Complete
  BY CoveredReaches DEF Following, Complete
<1> QED BY <1>1, <1>2, <1>3, JoinInvariant, PTL DEF Spec

=============================================================================
