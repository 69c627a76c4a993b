---------------------------- MODULE LicenceProofs ----------------------------
(***************************************************************************)
(* Theorems about Licence and ChatLimiter, for every plan.                  *)
(***************************************************************************)
EXTENDS ChatLimiter, FiniteSetTheorems, SequenceTheorems, TLAPS

-----------------------------------------------------------------------------
(* Nobody is overcharged *)

Counts  == [seconds: Nat, transfers: Nat]
Records == [day: Days, count: [seconds: Nat, share: Nat, receive: Nat], tampered: BOOLEAN,
            seen: Nat, there: BOOLEAN, key: Nat]
Syncs   == [at: {"ask", "merge"}, seconds: {0, 1}, transfers: {0, 1}, day: Days, got: Counts,
            id: Ids, sent: Nat]

(* A record of a day counts no more than was spent on it, or the day's      *)
(* allowance is spent.                                                     *)
Owed(u, s) == u.count.seconds <= s[u.day].seconds \/ Exceeded(s[u.day])
Within(row, s) == row.seconds <= s.seconds /\ row.transfers <= s.transfers

(* Deltas of a day that the cloud has not been told of.                     *)
Seconds(S, d)   == {s \in S : s.at = "ask" /\ s.day = d /\ s.seconds = 1}
Transfers(S, d) == {s \in S : s.at = "ask" /\ s.day = d /\ s.transfers = 1}

Balanced(d, S, row, all) ==
  /\ row.seconds + Cardinality(Seconds(S, d)) <= all.seconds
  /\ row.transfers + Cardinality(Transfers(S, d)) <= all.transfers

(* What may be charged to a day, and the rows of the id the device has.     *)
Due  == [d \in Days |-> Added(spent[d], late[d])]
Rows == [d \in Days |-> IF id \in Ids THEN cloud[id][d] ELSE Empty]

Timed ==
  /\ clock \in [real: 0 .. MaxTime, skew: {0}]
  /\ net \in [cached: BOOLEAN, checking: BOOLEAN, offset: {0}]
  /\ tampered \in BOOLEAN /\ raising \subseteq {FALSE}
Recorded ==
  /\ usage \in Records /\ Owed(usage, Due)
  /\ saved \in Records /\ Owed(saved, Due) /\ saved.seen <= clock.real
Counted ==
  /\ Due \in [Days -> Counts] /\ Rows \in [Days -> Counts]
  /\ syncs \subseteq Syncs /\ IsFiniteSet(syncs)
  /\ \A s \in syncs : s.at = "merge" => Within(s.got, Due[s.day])
  /\ \A d \in Days : Balanced(d, syncs, Rows[d], Due[d])
Fair == Timed /\ Recorded /\ Counted

(* One id: the deltas go to its rows, the record is signed with it or from  *)
(* before the device had one, and no other id has a row.                    *)
Known ==
  /\ id \in Ids \cup {Unassigned} /\ saved.key \in {Unassigned, id}
  /\ \A s \in syncs : s.id = id
  /\ spent \in [Days -> Counts] /\ late \in [Days -> Counts]
  /\ cloud \in [Ids -> [Days -> Counts]]
  /\ \A i \in Ids \ {id} : \A d \in Days : cloud[i][d] = Empty

Steady == ~Turned /\ ~Renamed
Budgeted ==
  /\ plan \in Plans
  /\ budget \in [DOMAIN plan.uses -> Nat]
  /\ budget["adjust"] <= plan.uses["adjust"]
  /\ budget["id"] <= plan.uses["id"]
  /\ id # Unassigned => budget["id"] < plan.uses["id"]

Honest == Fair /\ Known
HonestInv == Budgeted /\ (Steady => Honest)

LEMMA TimeIs ==
  ASSUME Timed
  PROVE  /\ NetTime = clock.real /\ NetTime \in 0 .. MaxTime /\ Today \in Days
         /\ LocalTime = clock.real
<1>1. LocalTime = clock.real /\ NetTime = clock.real /\ NetTime \in 0 .. MaxTime
  BY DEF Timed, LocalTime, NetTime, MaxTime
<1>2. Today \in Days
  BY <1>1 DEF Today, Days, DateOf, MaxTime
<1> QED BY <1>1, <1>2

LEMMA ClockIs == ASSUME Timed PROVE clock.real \in Nat
BY DEF Timed, MaxTime

LEMMA DaysAre == Days \subseteq Nat
BY DEF Days, DateOf, MaxTime

(* What a load answers is honest, and of the day it is.                     *)
LEMMA JudgedIs ==
  ASSUME Honest, NEW flag \in BOOLEAN
  PROVE  /\ Judged(flag) \in Records /\ Owed(Judged(flag), Due)
         /\ Judged(flag).day = Today /\ Judged(flag).seen = clock.real
<1>0. /\ NetTime = clock.real /\ NetTime \in Nat /\ Today \in Days /\ saved \in Records
      /\ Owed(saved, Due) /\ saved.seen <= clock.real /\ clock.real \in Nat /\ Full \in Nat
      /\ \A d \in Days : Due[d].seconds \in Nat
  BY TimeIs, ClockIs, LimiterAssumption DEF Honest, Fair, Recorded, MaxTime, Counted, Counts
<1>1. ~RolledBack /\ ~Unverified
  BY <1>0 DEF RolledBack, Unverified, Records, Honest, Known
<1>2. Nil \in [seconds: Nat, share: Nat, receive: Nat] /\ Nil.seconds = 0
  BY DEF Nil
<1>3. /\ FromFile \in Records /\ FromFile.day = Today
      /\ FromFile.count = Nil \/ (FromFile.count = saved.count /\ saved.day = Today)
  BY <1>0, <1>2 DEF FromFile, Records
<1>4. PICK f \in Records : f = FromFile
  BY <1>3
<1> DEFINE u == [f EXCEPT !.tampered = flag, !.seen = NetTime]
<1>5. /\ u \in Records /\ u.day = Today /\ u.seen = clock.real /\ u.count = f.count
  BY <1>0, <1>3, <1>4 DEF Records
<1>6. Judged(flag) = IF Calibrated
                     THEN [u EXCEPT !.tampered = FALSE, !.count = IF @.seconds >= Full THEN Nil ELSE @]
                     ELSE u
  BY <1>1, <1>4 DEF Judged
<1> HIDE DEF u
<1>7. /\ Judged(flag) \in Records /\ Judged(flag).day = Today /\ Judged(flag).seen = clock.real
      /\ Judged(flag).count = u.count \/ Judged(flag).count = Nil
  BY <1>2, <1>5, <1>6 DEF Records
<1>8. Owed(Judged(flag), Due)
  BY <1>0, <1>2, <1>3, <1>4, <1>5, <1>7 DEF Owed
<1> QED BY <1>7, <1>8

LEMMA LoadIs ==
  ASSUME Honest, NEW flag \in BOOLEAN
  PROVE  /\ Load(flag) \in Records /\ Owed(Load(flag), Due) /\ Load(flag).day = Today
         /\ Raises(flag) \subseteq {FALSE}
<1>1. Raises(flag) \subseteq {FALSE}
  <2>1. ~RolledBack /\ ~Unverified
    BY TimeIs, ClockIs DEF Honest, Fair, Known, Recorded, Records, RolledBack, Unverified
  <2> QED BY <2>1 DEF Raises
<1>2. CASE Hit
  <2>1. /\ usage \in Records /\ Owed(usage, Due) /\ usage.day = Today
    BY <1>2 DEF Honest, Fair, Recorded, Hit
  <2>2. Load(flag) = [usage EXCEPT !.tampered = flag]
    BY <1>2 DEF Load
  <2>3. Load(flag) \in Records /\ Load(flag).day = usage.day /\ Load(flag).count = usage.count
    BY <2>1, <2>2 DEF Records
  <2> QED BY <1>1, <2>1, <2>3 DEF Owed
<1>3. CASE ~Hit
  BY <1>1, <1>3, JudgedIs DEF Load
<1> QED BY <1>2, <1>3

(* More may be spent meanwhile.                                             *)
Grows == \A d \in Days : Within(Due[d], Due'[d])

LEMMA OwedGrows ==
  ASSUME Counted, Counted', Grows, NEW u \in Records, Owed(u, Due)
  PROVE  Owed(u, Due')
<1>1. /\ u.day \in Days /\ u.count.seconds \in Nat /\ Due[u.day] \in Counts /\ Due'[u.day] \in Counts
      /\ Within(Due[u.day], Due'[u.day])
  BY DEF Records, Counted, Grows
<1> QED BY <1>1, LimiterAssumption DEF Owed, Within, Exceeded, Counts

(* A record that is saved, and a load that saves what it read.              *)
LEMMA SavedIs ==
  ASSUME Honest, UNCHANGED <<clock, net>>, Counted', NEW u \in Records, Owed(u, Due'),
         NEW flag \in BOOLEAN, Save(u, flag), tampered' \in BOOLEAN
  PROVE  Fair'
<1>1. NetTime \in Nat /\ NetTime = clock.real /\ id \in Nat
  BY TimeIs DEF Honest, Fair, Known, Ids, Unassigned, MaxTime
<1>2. saved' \in Records /\ saved'.count = u.count /\ saved'.day = u.day /\ saved'.seen = clock.real
  BY <1>1 DEF Save, Records
<1>3. Recorded'
  BY <1>1, <1>2 DEF Save, Recorded, Owed, Honest, Fair, Timed
<1>4. Timed'
  BY LoadIs DEF Save, Honest, Fair, Timed
<1> QED BY <1>3, <1>4 DEF Honest, Fair

LEMMA JustLoadIs ==
  ASSUME Honest, UNCHANGED <<clock, net, tampered>>, Counted', Grows, JustLoad
  PROVE  Fair'
<1>1. tampered \in BOOLEAN /\ clock.real \in Nat
  BY DEF Honest, Fair, Timed, MaxTime
<1>2. /\ usage' \in Records /\ Owed(usage', Due)
      /\ saved' \in Records /\ Owed(saved', Due) /\ saved'.seen <= clock.real
  <2>1. CASE Hit
    BY <2>1 DEF JustLoad, Honest, Fair, Recorded
  <2>2. CASE ~Hit
    <3>1. PICK u : u = Judged(tampered)
      OBVIOUS
    <3>2. u \in Records /\ Owed(u, Due) /\ u.seen = clock.real
      BY <1>1, <3>1, JudgedIs
    <3>3. usage' = u /\ (saved' = [u EXCEPT !.key = id] \/ saved' = u)
      BY <2>2, <3>1 DEF JustLoad
    <3>4. id \in Nat
      BY DEF Honest, Known, Ids, Unassigned
    <3>5. /\ saved' \in Records /\ saved'.count = u.count /\ saved'.day = u.day
          /\ saved'.seen = u.seen
      BY <3>2, <3>3, <3>4 DEF Records
    <3> QED BY <1>1, <3>2, <3>3, <3>5 DEF Owed
  <2> QED BY <2>1, <2>2
<1>3. Recorded'
  BY <1>2, OwedGrows DEF Recorded, Honest, Fair
<1>4. Timed'
  BY <1>1, LoadIs DEF JustLoad, Honest, Fair, Timed
<1> QED BY <1>3, <1>4 DEF Honest, Fair

(* The deltas on their way may be fewer.                                    *)
LEMMA DeltasFinite ==
  ASSUME NEW S, IsFiniteSet(S), NEW T \in SUBSET S, NEW d
  PROVE  /\ IsFiniteSet(T)
         /\ Cardinality(Seconds(S, d)) \in Nat /\ Cardinality(Transfers(S, d)) \in Nat
         /\ Cardinality(Seconds(T, d)) <= Cardinality(Seconds(S, d))
         /\ Cardinality(Transfers(T, d)) <= Cardinality(Transfers(S, d))
<1>1. IsFiniteSet(T)
  BY FS_Subset
<1>2. /\ Seconds(S, d) \subseteq S /\ Transfers(S, d) \subseteq S
      /\ Seconds(T, d) \subseteq Seconds(S, d) /\ Transfers(T, d) \subseteq Transfers(S, d)
  BY DEF Seconds, Transfers
<1>3. IsFiniteSet(Seconds(S, d)) /\ IsFiniteSet(Transfers(S, d))
  BY <1>2, FS_Subset
<1>4. Cardinality(Seconds(S, d)) \in Nat /\ Cardinality(Transfers(S, d)) \in Nat
  BY <1>3, FS_CardinalityType
<1>5. /\ Cardinality(Seconds(T, d)) <= Cardinality(Seconds(S, d))
      /\ Cardinality(Transfers(T, d)) <= Cardinality(Transfers(S, d))
  BY <1>2, <1>3, FS_Subset
<1> QED BY <1>1, <1>4, <1>5

LEMMA FewerDeltas ==
  ASSUME Counted, syncs' \subseteq syncs, UNCHANGED <<Due, Rows>>
  PROVE  Counted' /\ Grows
<1>1. /\ IsFiniteSet(syncs) /\ Due \in [Days -> Counts] /\ Rows \in [Days -> Counts]
      /\ \A d \in Days : Balanced(d, syncs, Rows[d], Due[d])
  BY DEF Counted
<1>2. PICK T \in SUBSET syncs : T = syncs'
  OBVIOUS
<1>3. IsFiniteSet(T)
  BY <1>1, <1>2, DeltasFinite
<1>4. ASSUME NEW d \in Days PROVE Balanced(d, T, Rows[d], Due[d])
  <2>1. /\ Cardinality(Seconds(syncs, d)) \in Nat /\ Cardinality(Transfers(syncs, d)) \in Nat
        /\ Cardinality(Seconds(T, d)) <= Cardinality(Seconds(syncs, d))
        /\ Cardinality(Transfers(T, d)) <= Cardinality(Transfers(syncs, d))
    BY <1>1, <1>2, DeltasFinite
  <2>2. /\ Cardinality(Seconds(T, d)) \in Nat /\ Cardinality(Transfers(T, d)) \in Nat
    BY <1>3, DeltasFinite
  <2>3. Rows[d] \in Counts /\ Due[d] \in Counts /\ Balanced(d, syncs, Rows[d], Due[d])
    BY <1>1
  <2> QED BY <2>1, <2>2, <2>3 DEF Balanced, Counts
<1>5. Counted'
  BY <1>1, <1>2, <1>3, <1>4 DEF Counted
<1>6. Grows
  BY <1>1 DEF Grows, Within, Counts
<1> QED BY <1>5, <1>6

(* A delta more on its way is a delta more spent.                           *)
LEMMA MoreDeltas ==
  ASSUME Counted, NEW s \in Syncs, s.at = "ask", UNCHANGED Rows,
         syncs' = syncs \/ syncs' = syncs \cup {s},
         Due' = [Due EXCEPT ![s.day] = Added(@, s)]
  PROVE  Counted' /\ Grows /\ Due'[s.day].seconds = Due[s.day].seconds + s.seconds
<1>1. /\ IsFiniteSet(syncs) /\ syncs \subseteq Syncs
      /\ Due \in [Days -> Counts] /\ Rows \in [Days -> Counts]
      /\ \A d \in Days : Balanced(d, syncs, Rows[d], Due[d])
      /\ \A x \in syncs : x.at = "merge" => Within(x.got, Due[x.day])
  BY DEF Counted
<1>2. s.day \in Days /\ s.seconds \in {0, 1} /\ s.transfers \in {0, 1}
  BY DEF Syncs
<1>3. PICK more : more = Due'
  OBVIOUS
<1>4. /\ more \in [Days -> Counts]
      /\ more[s.day].seconds = Due[s.day].seconds + s.seconds
      /\ more[s.day].transfers = Due[s.day].transfers + s.transfers
      /\ \A d \in Days : d # s.day => more[d] = Due[d]
  BY <1>1, <1>2, <1>3 DEF Counts, Added
<1>5. \A d \in Days : Within(Due[d], more[d])
  <2> TAKE d \in Days
  <2>1. Due[d] \in Counts /\ Due[s.day] \in Counts
    BY <1>1, <1>2
  <2>2. CASE d = s.day
    BY <1>2, <1>4, <2>1, <2>2 DEF Within, Counts
  <2>3. CASE d # s.day
    BY <1>4, <2>1, <2>3 DEF Within, Counts
  <2> QED BY <2>2, <2>3
<1>6. PICK S : S = syncs'
  OBVIOUS
<1>7. IsFiniteSet(S) /\ S \subseteq Syncs /\ (S = syncs \/ S = syncs \cup {s})
  BY <1>1, <1>6, FS_AddElement
<1>8. ASSUME NEW d \in Days PROVE Balanced(d, S, Rows[d], more[d])
  <2>1. /\ Cardinality(Seconds(syncs, d)) \in Nat /\ Cardinality(Transfers(syncs, d)) \in Nat
        /\ Cardinality(Seconds(S, d)) \in Nat /\ Cardinality(Transfers(S, d)) \in Nat
        /\ IsFiniteSet(Seconds(syncs, d)) /\ IsFiniteSet(Transfers(syncs, d))
    <3>1. Seconds(syncs, d) \subseteq syncs /\ Transfers(syncs, d) \subseteq syncs
      BY DEF Seconds, Transfers
    <3>2. IsFiniteSet(Seconds(syncs, d)) /\ IsFiniteSet(Transfers(syncs, d))
      BY <1>1, <3>1, FS_Subset
    <3> QED BY <1>1, <1>7, <3>2, DeltasFinite
  <2>2. Rows[d] \in Counts /\ Due[d] \in Counts /\ Balanced(d, syncs, Rows[d], Due[d])
    BY <1>1
  <2>3. CASE s.day # d
    <3>1. Seconds(S, d) = Seconds(syncs, d) /\ Transfers(S, d) = Transfers(syncs, d)
      BY <1>7, <2>3 DEF Seconds, Transfers
    <3> QED BY <1>4, <2>2, <2>3, <3>1 DEF Balanced
  <2>5. CASE S = syncs
    <3>1. Within(Due[d], more[d]) /\ more[d] \in Counts
      BY <1>4, <1>5
    <3> QED BY <2>1, <2>2, <2>5, <3>1 DEF Balanced, Within, Counts
  <2>4. CASE s.day = d /\ S = syncs \cup {s}
    <3>1. Cardinality(Seconds(S, d)) <= Cardinality(Seconds(syncs, d)) + s.seconds
      <4>1. CASE s.seconds = 1
        <5>1. Seconds(S, d) = Seconds(syncs, d) \cup {s}
          BY <2>4, <4>1 DEF Seconds
        <5>2. \/ Cardinality(Seconds(S, d)) = Cardinality(Seconds(syncs, d))
              \/ Cardinality(Seconds(S, d)) = Cardinality(Seconds(syncs, d)) + 1
          BY <2>1, <5>1, FS_AddElement
        <5> QED BY <2>1, <4>1, <5>2
      <4>2. CASE s.seconds = 0
        <5>1. Seconds(S, d) = Seconds(syncs, d)
          BY <2>4, <4>2 DEF Seconds
        <5> QED BY <2>1, <4>2, <5>1
      <4> QED BY <1>2, <4>1, <4>2
    <3>2. Cardinality(Transfers(S, d)) <= Cardinality(Transfers(syncs, d)) + s.transfers
      <4>1. CASE s.transfers = 1
        <5>1. Transfers(S, d) = Transfers(syncs, d) \cup {s}
          BY <2>4, <4>1 DEF Transfers
        <5>2. \/ Cardinality(Transfers(S, d)) = Cardinality(Transfers(syncs, d))
              \/ Cardinality(Transfers(S, d)) = Cardinality(Transfers(syncs, d)) + 1
          BY <2>1, <5>1, FS_AddElement
        <5> QED BY <2>1, <4>1, <5>2
      <4>2. CASE s.transfers = 0
        <5>1. Transfers(S, d) = Transfers(syncs, d)
          BY <2>4, <4>2 DEF Transfers
        <5> QED BY <2>1, <4>2, <5>1
      <4> QED BY <1>2, <4>1, <4>2
    <3> QED BY <1>2, <1>4, <2>1, <2>2, <2>4, <3>1, <3>2 DEF Balanced, Counts
  <2> QED BY <1>7, <2>3, <2>4, <2>5
<1>9. \A x \in S : x.at = "merge" => Within(x.got, more[x.day])
  <2> SUFFICES ASSUME NEW x \in S, x.at = "merge" PROVE Within(x.got, more[x.day])
    OBVIOUS
  <2>1. x \in syncs /\ x.day \in Days /\ x.got \in Counts
    BY <1>7 DEF Syncs
  <2>2. Within(x.got, Due[x.day]) /\ Within(Due[x.day], more[x.day])
    BY <1>1, <1>5, <2>1
  <2> QED BY <1>1, <1>4, <2>1, <2>2 DEF Within, Counts
<1>10. Counted'
  BY <1>1, <1>3, <1>4, <1>6, <1>7, <1>8, <1>9 DEF Counted
<1>11. Grows
  BY <1>3, <1>5 DEF Grows
<1> QED BY <1>3, <1>4, <1>10, <1>11

(* What is used more, or dated otherwise, is due more.                      *)
LEMMA DueIs ==
  ASSUME Known, NEW day \in Days, NEW s, s.seconds \in Nat, s.transfers \in Nat,
         \/ spent'[day] = Added(spent[day], s) /\ late'[day] = late[day]
         \/ late'[day] = Added(late[day], s) /\ spent'[day] = spent[day],
         \A d \in Days : d # day => spent'[d] = spent[d] /\ late'[d] = late[d]
  PROVE  Due' = [Due EXCEPT ![day] = Added(Due[day], s)]
<1>1. \A d \in Days : spent[d] \in Counts /\ late[d] \in Counts
  BY DEF Known
<1>2. \A d \in Days : Due'[d] = Added(spent'[d], late'[d]) /\ Due[d] = Added(spent[d], late[d])
  BY DEF Due
<1>3. Added(spent'[day], late'[day]) = Added(Added(spent[day], late[day]), s)
  <2>1. spent[day] \in Counts /\ late[day] \in Counts
    BY <1>1
  <2>2. CASE spent'[day] = Added(spent[day], s) /\ late'[day] = late[day]
    BY <2>1, <2>2 DEF Added, Counts
  <2>3. CASE late'[day] = Added(late[day], s) /\ spent'[day] = spent[day]
    BY <2>1, <2>3 DEF Added, Counts
  <2> QED BY <2>2, <2>3
<1>4. \A d \in Days : d # day => Due'[d] = Due[d]
  BY <1>2
<1>5. Due'[day] = Added(Due[day], s)
  BY <1>2, <1>3
<1> QED BY <1>4, <1>5 DEF Due

(* What a delta moves when it reaches the cloud.                            *)
LEMMA DeltaLeaves ==
  ASSUME NEW S, IsFiniteSet(S), NEW s \in S, s.at = "ask", s.seconds \in {0, 1}, s.transfers \in {0, 1},
         NEW m, m.at = "merge", NEW d
  PROVE  LET T == (S \ {s}) \cup {m}
             here(n) == IF s.day = d THEN n ELSE 0 IN
         /\ IsFiniteSet(T)
         /\ Cardinality(Seconds(T, d)) \in Nat /\ Cardinality(Transfers(T, d)) \in Nat
         /\ Cardinality(Seconds(T, d)) + here(s.seconds) <= Cardinality(Seconds(S, d))
         /\ Cardinality(Transfers(T, d)) + here(s.transfers) <= Cardinality(Transfers(S, d))
<1>1. PICK T : T = (S \ {s}) \cup {m}
  OBVIOUS
<1>2. IsFiniteSet(S \ {s})
  BY FS_RemoveElement
<1>3. IsFiniteSet(T)
  BY <1>1, <1>2, FS_AddElement
<1>4. Cardinality(Seconds(S, d)) \in Nat /\ Cardinality(Transfers(S, d)) \in Nat
  BY DeltasFinite
<1>5. Cardinality(Seconds(T, d)) \in Nat /\ Cardinality(Transfers(T, d)) \in Nat
  BY <1>3, DeltasFinite
<1>6. IsFiniteSet(Seconds(S, d)) /\ IsFiniteSet(Transfers(S, d))
  <2>1. Seconds(S, d) \subseteq S /\ Transfers(S, d) \subseteq S
    BY DEF Seconds, Transfers
  <2> QED BY <2>1, FS_Subset
<1>7. Seconds(T, d) \subseteq Seconds(S, d) \ {s} /\ Transfers(T, d) \subseteq Transfers(S, d) \ {s}
  BY <1>1 DEF Seconds, Transfers
<1>8. Cardinality(Seconds(T, d)) + (IF s.day = d THEN s.seconds ELSE 0) <= Cardinality(Seconds(S, d))
  <2>1. CASE s.day = d /\ s.seconds = 1
    <3>1. s \in Seconds(S, d)
      BY <2>1 DEF Seconds
    <3>2. /\ IsFiniteSet(Seconds(S, d) \ {s})
          /\ Cardinality(Seconds(S, d) \ {s}) = Cardinality(Seconds(S, d)) - 1
      BY <1>6, <3>1, FS_RemoveElement
    <3>3. Cardinality(Seconds(T, d)) <= Cardinality(Seconds(S, d) \ {s})
      BY <1>7, <3>2, FS_Subset
    <3> QED BY <1>4, <1>5, <2>1, <3>2, <3>3
  <2>2. CASE ~(s.day = d /\ s.seconds = 1)
    <3>1. (IF s.day = d THEN s.seconds ELSE 0) = 0
      BY <2>2
    <3>2. Seconds(T, d) \subseteq Seconds(S, d)
      BY <1>7
    <3>3. Cardinality(Seconds(T, d)) <= Cardinality(Seconds(S, d))
      BY <1>6, <3>2, FS_Subset
    <3> QED BY <1>4, <1>5, <3>1, <3>3
  <2> QED BY <2>1, <2>2
<1>9. Cardinality(Transfers(T, d)) + (IF s.day = d THEN s.transfers ELSE 0) <= Cardinality(Transfers(S, d))
  <2>1. CASE s.day = d /\ s.transfers = 1
    <3>1. s \in Transfers(S, d)
      BY <2>1 DEF Transfers
    <3>2. /\ IsFiniteSet(Transfers(S, d) \ {s})
          /\ Cardinality(Transfers(S, d) \ {s}) = Cardinality(Transfers(S, d)) - 1
      BY <1>6, <3>1, FS_RemoveElement
    <3>3. Cardinality(Transfers(T, d)) <= Cardinality(Transfers(S, d) \ {s})
      BY <1>7, <3>2, FS_Subset
    <3> QED BY <1>4, <1>5, <2>1, <3>2, <3>3
  <2>2. CASE ~(s.day = d /\ s.transfers = 1)
    <3>1. (IF s.day = d THEN s.transfers ELSE 0) = 0
      BY <2>2
    <3>2. Transfers(T, d) \subseteq Transfers(S, d)
      BY <1>7
    <3>3. Cardinality(Transfers(T, d)) <= Cardinality(Transfers(S, d))
      BY <1>6, <3>2, FS_Subset
    <3> QED BY <1>4, <1>5, <3>1, <3>3
  <2> QED BY <2>1, <2>2
<1> QED BY <1>1, <1>3, <1>5, <1>8, <1>9

LEMMA ReachCounts ==
  ASSUME Timed, Counted, Known, NEW s \in syncs, Reach(s)
  PROVE  Counted' /\ Grows
<1>1. /\ IsFiniteSet(syncs) /\ syncs \subseteq Syncs
      /\ Due \in [Days -> Counts] /\ Rows \in [Days -> Counts]
      /\ \A d \in Days : Balanced(d, syncs, Rows[d], Due[d])
      /\ \A x \in syncs : x.at = "merge" => Within(x.got, Due[x.day])
  BY DEF Counted
<1>2. PICK day : day = DateOf(clock.real)
  OBVIOUS
<1>3. day \in Days
  BY <1>2 DEF Timed, Days, DateOf, MaxTime
<1>4. s \in Syncs /\ s.at = "ask" /\ s.day \in Days /\ s.seconds \in {0, 1} /\ s.transfers \in {0, 1}
  BY <1>1 DEF Syncs, Reach
<1>5. PICK row : row = Added(Rows[day], s)
  OBVIOUS
<1>6. Rows[day] \in Counts
  BY <1>1, <1>3
<1>7. row \in Counts
  BY <1>4, <1>5, <1>6 DEF Counts, Added
<1>8. PICK more, rows, m, T :
        /\ more = IF s.day = day THEN Due
                  ELSE [Due EXCEPT ![day] = Added(@, s)]
        /\ rows = [Rows EXCEPT ![day] = row]
        /\ m = [s EXCEPT !.at = "merge", !.day = day, !.got = row]
        /\ T = (syncs \ {s}) \cup {m}
  OBVIOUS
<1>9. Due' = more /\ Rows' = rows /\ syncs' = T
  <2>1. s.id = id /\ id \in Ids /\ UNCHANGED <<id, spent>>
    BY <1>4 DEF Known, Syncs, Reach
  <2>2. row = Added(cloud[id][day], s) /\ cloud \in [Ids -> [Days -> Counts]]
    BY <1>3, <1>5, <2>1 DEF Rows, Known
  <2>3. cloud' = [cloud EXCEPT ![id][day] = row]
    BY <1>2, <2>1, <2>2 DEF Reach
  <2>4. \A d \in Days : cloud'[id][d] = IF d = day THEN row ELSE cloud[id][d]
    BY <1>3, <2>1, <2>2, <2>3
  <2>5. Rows' = rows
    BY <1>3, <1>8, <2>1, <2>4 DEF Rows
  <2>6. Due' = more
    <3>1. CASE s.day = day
      <4>1. late' = late
        BY <1>2, <3>1 DEF Reach
      <4> QED BY <1>8, <2>1, <3>1, <4>1 DEF Due
    <3>2. CASE s.day # day
      <4>1. late' = [late EXCEPT ![day] = Added(@, s)]
        BY <1>2, <3>2 DEF Reach
      <4>2. Due' = [Due EXCEPT ![day] = Added(@, s)]
        <5>1. \A d \in Days : late'[d] = IF d = day THEN Added(late[day], s) ELSE late[d]
          BY <4>1 DEF Known
        <5>2. s.seconds \in Nat /\ s.transfers \in Nat /\ spent' = spent
          BY <1>4, <2>1
        <5> QED BY <1>3, <5>1, <5>2, DueIs
      <4> QED BY <1>8, <3>2, <4>2
    <3> QED BY <3>1, <3>2
  <2>7. syncs' = T
    BY <1>2, <1>8, <2>1, <2>2 DEF Reach
  <2> QED BY <2>5, <2>6, <2>7
<1>10. m \in Syncs /\ m.at = "merge" /\ m.day = day /\ m.got = row
  BY <1>3, <1>4, <1>7, <1>8 DEF Syncs
<1>11. /\ more \in [Days -> Counts]
       /\ more[day].seconds = Due[day].seconds + (IF s.day = day THEN 0 ELSE s.seconds)
       /\ more[day].transfers = Due[day].transfers + (IF s.day = day THEN 0 ELSE s.transfers)
       /\ \A d \in Days : d # day => more[d] = Due[d]
  <2>1. CASE s.day = day
    BY <1>1, <1>3, <1>8, <2>1 DEF Counts
  <2>2. CASE s.day # day
    <3>1. more = [Due EXCEPT ![day] = Added(@, s)]
      BY <1>8, <2>2
    <3>2. /\ more \in [Days -> Counts]
          /\ more[day].seconds = Due[day].seconds + s.seconds
          /\ more[day].transfers = Due[day].transfers + s.transfers
          /\ \A d \in Days : d # day => more[d] = Due[d]
      BY <1>1, <1>3, <1>4, <3>1 DEF Counts, Added
    <3> QED BY <2>2, <3>2
  <2> QED BY <2>1, <2>2
<1>12. rows \in [Days -> Counts] /\ rows[day] = row /\ \A d \in Days : d # day => rows[d] = Rows[d]
  BY <1>1, <1>3, <1>7, <1>8
<1>13. \A d \in Days : Within(Due[d], more[d])
  <2> TAKE d \in Days
  <2>1. Due[d] \in Counts /\ Due[day] \in Counts
    BY <1>1, <1>3
  <2>2. CASE d = day
    BY <1>4, <1>11, <2>1, <2>2 DEF Within, Counts
  <2>3. CASE d # day
    BY <1>11, <2>1, <2>3 DEF Within, Counts
  <2> QED BY <2>2, <2>3
<1>14. ASSUME NEW d \in Days PROVE Balanced(d, T, rows[d], more[d])
  <2>1. /\ Cardinality(Seconds(T, d)) \in Nat /\ Cardinality(Transfers(T, d)) \in Nat
        /\ Cardinality(Seconds(T, d)) + (IF s.day = d THEN s.seconds ELSE 0) <= Cardinality(Seconds(syncs, d))
        /\ Cardinality(Transfers(T, d)) + (IF s.day = d THEN s.transfers ELSE 0) <= Cardinality(Transfers(syncs, d))
    BY <1>1, <1>4, <1>8, <1>10, DeltaLeaves
  <2>2. Cardinality(Seconds(syncs, d)) \in Nat /\ Cardinality(Transfers(syncs, d)) \in Nat
    BY <1>1, DeltasFinite
  <2>3. Rows[d] \in Counts /\ Due[d] \in Counts /\ Balanced(d, syncs, Rows[d], Due[d])
    BY <1>1
  <2>4. CASE d = day
    <3>1. /\ rows[d].seconds = Rows[d].seconds + s.seconds
          /\ rows[d].transfers = Rows[d].transfers + s.transfers
      BY <1>5, <1>12, <2>4 DEF Added
    <3> QED BY <1>4, <1>11, <2>1, <2>2, <2>3, <2>4, <3>1 DEF Balanced, Counts
  <2>5. CASE d # day
    <3>1. rows[d] = Rows[d] /\ more[d] = Due[d]
      BY <1>11, <1>12, <2>5
    <3> QED BY <1>4, <2>1, <2>2, <2>3, <3>1 DEF Balanced, Counts
  <2> QED BY <2>4, <2>5
<1>15. IsFiniteSet(T) /\ T \subseteq Syncs
  BY <1>1, <1>4, <1>8, <1>10, DeltaLeaves
<1>16. \A x \in T : x.at = "merge" => Within(x.got, more[x.day])
  <2> SUFFICES ASSUME NEW x \in T, x.at = "merge" PROVE Within(x.got, more[x.day])
    OBVIOUS
  <2>1. CASE x = m
    <3>1. Balanced(day, T, row, more[day]) /\ more[day] \in Counts
      BY <1>3, <1>11, <1>12, <1>14
    <3>2. Cardinality(Seconds(T, day)) \in Nat /\ Cardinality(Transfers(T, day)) \in Nat
      BY <1>15, DeltasFinite
    <3> QED BY <1>7, <1>10, <2>1, <3>1, <3>2 DEF Balanced, Within, Counts
  <2>2. CASE x # m
    <3>1. x \in syncs /\ x.day \in Days /\ x.got \in Counts
      BY <1>1, <1>8, <2>2 DEF Syncs
    <3>2. Within(x.got, Due[x.day]) /\ Within(Due[x.day], more[x.day])
      BY <1>1, <1>13, <3>1
    <3> QED BY <1>1, <1>11, <3>1, <3>2 DEF Within, Counts
  <2> QED BY <2>1, <2>2
<1>17. Counted'
  BY <1>9, <1>11, <1>12, <1>14, <1>15, <1>16 DEF Counted
<1> QED BY <1>9, <1>13, <1>17 DEF Grows

(* Steps that leave the count of a day alone.                               *)
LEMMA Unspent ==
  ASSUME Honest, UNCHANGED <<syncs, Due, Rows>>
  PROVE  Counted' /\ Grows
BY FewerDeltas DEF Honest, Fair

LEMMA UseKeeps ==
  ASSUME Honest, UNCHANGED <<clock, net, Rows, tampered, id, late>>,
         NEW field \in {"seconds", "share", "receive"},
         NEW n \in {0, 1}, NEW k \in {0, 1}, field = "seconds" => n = 1,
         budget["use"] \in Nat, Use(field, Sync(n, k))
  PROVE  Fair'
<1>1. CASE ~Free
  <2>1. UNCHANGED <<syncs, Due, Rows>> /\ JustLoad
    BY <1>1 DEF Use, Due
  <2> QED BY <2>1, Unspent, JustLoadIs
<1>2. CASE Free
  <2>1. PICK u : u = Load(tampered)
    OBVIOUS
  <2>2. tampered \in BOOLEAN /\ Today \in Days
    BY TimeIs DEF Honest, Fair, Timed
  <2>3. u \in Records /\ Owed(u, Due) /\ u.day = Today
    BY <2>1, <2>2, LoadIs
  <2>4. PICK s : s = [Sync(n, k) EXCEPT !.day = Today, !.sent = budget["use"]]
    OBVIOUS
  <2>5. PICK i \in Ids : i = IF id \in Ids THEN id ELSE 1
    BY DEF Ids
  <2>14. PICK e \in Syncs : e = [s EXCEPT !.id = i]
    <3>1. Empty \in Counts
      BY DEF Empty, Counts
    <3> QED BY <2>2, <2>4, <3>1 DEF Sync, Syncs
  <2>15. /\ e.at = "ask" /\ e.day = Today /\ e.seconds = n /\ e.transfers = k
         /\ id # Unassigned => e = s
    <3>1. id # Unassigned => i = id
      BY <2>5 DEF Honest, Known
    <3>2. s = [at |-> "ask", seconds |-> n, transfers |-> k, day |-> Today, got |-> Empty, id |-> id,
               sent |-> budget["use"]]
      BY <2>4 DEF Sync
    <3> QED BY <2>14, <3>1, <3>2
  <2>6. PICK r : r = [u EXCEPT !.count[field] = Capped(@ + 1)]
    OBVIOUS
  <2>7. /\ Save(r, tampered) /\ (syncs' = syncs \/ syncs' = syncs \cup {e})
        /\ Due' = [Due EXCEPT ![e.day] = Added(@, e)]
    <3>1. Sync(n, k).seconds = n /\ Sync(n, k).transfers = k
      BY DEF Sync
    <3>2. Added(spent[Today], Sync(n, k)) = Added(spent[Today], e)
      BY <2>15, <3>1 DEF Added
    <3>3. spent' = [spent EXCEPT ![Today] = Added(@, e)]
      BY <1>2, <3>2 DEF Use
    <3>4. Due' = [Due EXCEPT ![e.day] = Added(@, e)]
      <4>1. e.seconds \in {0, 1} /\ e.transfers \in {0, 1} /\ Known
        BY <2>15 DEF Honest
      <4>2. Due' = [Due EXCEPT ![Today] = Added(@, e)]
        <5>1. \A d \in Days : spent'[d] = IF d = Today THEN Added(spent[Today], e) ELSE spent[d]
          BY <3>3, <4>1 DEF Known
        <5>2. e.seconds \in Nat /\ e.transfers \in Nat /\ late' = late
          BY <4>1
        <5> QED BY <2>2, <4>1, <5>1, <5>2, DueIs
      <4> QED BY <2>15, <4>2
    <3>5. syncs' = syncs \/ syncs' = syncs \cup {e}
      BY <1>2, <2>4, <2>15 DEF Use
    <3>6. Save(r, tampered)
      BY <1>2, <2>1, <2>6 DEF Use
    <3> QED BY <3>4, <3>5, <3>6
  <2>8. Counted' /\ Grows /\ Due'[e.day].seconds = Due[e.day].seconds + e.seconds
    BY <2>7, <2>15, MoreDeltas DEF Honest, Fair
  <2>9. \A j \in Nat : Capped(j) \in Nat /\ Capped(j) <= j
    BY LimiterAssumption DEF Capped
  <2>10. /\ r \in Records /\ r.day = u.day
         /\ r.count.seconds <= u.count.seconds + (IF field = "seconds" THEN 1 ELSE 0)
    <3>1. u.count \in [seconds : Nat, share : Nat, receive : Nat]
      BY <2>3 DEF Records
    <3>2. PICK c : c = [u.count EXCEPT ![field] = Capped(@ + 1)]
      OBVIOUS
    <3>3. Capped(u.count[field] + 1) \in Nat /\ Capped(u.count[field] + 1) <= u.count[field] + 1
      BY <2>9, <3>1
    <3>4. /\ c \in [seconds : Nat, share : Nat, receive : Nat]
          /\ c.seconds <= u.count.seconds + (IF field = "seconds" THEN 1 ELSE 0)
      BY <3>1, <3>2, <3>3
    <3>5. r = [u EXCEPT !.count = c]
      BY <2>6, <3>2
    <3> QED BY <2>3, <3>4, <3>5 DEF Records
  <2>11. Owed(r, Due')
    <3>1. Owed(u, Due')
      BY <2>3, <2>8, OwedGrows DEF Honest, Fair
    <3>2. u.count.seconds \in Nat /\ r.count.seconds \in Nat /\ u.day \in Days
      BY <2>3, <2>10 DEF Records
    <3>3. Due[u.day] \in Counts /\ Due'[u.day] \in Counts /\ Within(Due[u.day], Due'[u.day])
      BY <2>8, <3>2 DEF Honest, Fair, Counted, Grows
    <3>4. CASE Exceeded(Due'[u.day])
      BY <2>10, <3>4 DEF Owed
    <3>5. CASE ~Exceeded(Due'[u.day])
      <4>1. ~Exceeded(Due[u.day])
        BY <3>3, <3>5, LimiterAssumption DEF Exceeded, Within, Counts
      <4>2. u.count.seconds <= Due[u.day].seconds
        BY <2>3, <4>1 DEF Owed
      <4>3. CASE field = "seconds"
        <5>1. Due'[u.day].seconds = Due[u.day].seconds + 1
          BY <2>3, <2>15, <2>8, <4>3
        <5> QED BY <2>10, <3>2, <3>3, <4>2, <4>3, <5>1 DEF Owed, Counts
      <4>4. CASE field # "seconds"
        BY <2>10, <3>2, <3>3, <4>2, <4>4 DEF Owed, Within, Counts
      <4> QED BY <4>3, <4>4
    <3> QED BY <3>4, <3>5
  <2> QED BY <2>2, <2>7, <2>8, <2>10, <2>11, SavedIs
<1> QED BY <1>1, <1>2

(* The answer of the cloud.                                                 *)
LEMMA MaxIs ==
  ASSUME NEW a \in Nat, NEW b \in Nat, NEW c \in Nat
  PROVE  Max({a, b}) \in {a, b} /\ Max({a, b, c}) \in {a, b, c}
<1>1. \E x \in {a, b} : \A y \in {a, b} : x >= y
  OBVIOUS
<1>2. \E x \in {a, b, c} : \A y \in {a, b, c} : x >= y
  <2>1. CASE a >= b /\ a >= c
    BY <2>1
  <2>2. CASE b >= a /\ b >= c
    BY <2>2
  <2>3. CASE c >= a /\ c >= b
    BY <2>3
  <2> QED BY <2>1, <2>2, <2>3
<1>3. Max({a, b}) \in {a, b}
  BY <1>1 DEF Max
<1>4. Max({a, b, c}) \in {a, b, c}
  BY <1>2 DEF Max
<1> QED BY <1>3, <1>4

LEMMA MergeKeeps ==
  ASSUME Honest, tampered' = tampered, NEW s \in syncs, Merge(s)
  PROVE  Fair'
<1>1. Counted' /\ Grows
  BY FewerDeltas DEF Honest, Fair, Merge, Due, Rows
<1>2. PICK u, c : u = Load(tampered) /\ c = Merged(u.count, s.got)
  OBVIOUS
<1>3. tampered \in BOOLEAN
  BY DEF Honest, Fair, Timed
<1>4. u \in Records /\ Owed(u, Due) /\ u.day = Today
  BY <1>2, <1>3, LoadIs
<1>5. UNCHANGED <<clock, net, Due, tampered>>
  BY DEF Merge, Due
<1>6. CASE u.day = s.day /\ c # u.count
  <2>1. PICK r : r = [u EXCEPT !.count = c]
    OBVIOUS
  <2>2. Save(r, tampered)
    BY <1>2, <1>6, <2>1 DEF Merge
  <2>3. s.got \in Counts /\ Within(s.got, Due[s.day]) /\ s.day \in Days /\ Due[s.day] \in Counts
    BY DEF Honest, Fair, Counted, Syncs, Merge
  <2>4. PICK x, y : x = u.count /\ y = s.got
    OBVIOUS
  <2>5. /\ x \in [seconds : Nat, share : Nat, receive : Nat] /\ y.seconds \in Nat /\ y.transfers \in Nat
        /\ Full \in Nat
    BY <1>4, <2>3, <2>4, LimiterAssumption DEF Records, Counts
  <2>6. /\ Max({x.seconds, y.seconds}) \in {x.seconds, y.seconds}
        /\ Max({x.seconds, y.seconds, Full}) \in {x.seconds, y.seconds, Full}
        /\ Max({x.share, y.transfers}) \in {x.share, y.transfers}
    BY <2>5, MaxIs
  <2>7. c = [x EXCEPT !.seconds = IF Exceeded(y) THEN Max({x.seconds, y.seconds, Full})
                                   ELSE Max({x.seconds, y.seconds}),
                      !.share = Max({x.share, y.transfers})]
    BY <1>2, <2>4, <2>5 DEF Merged
  <2>8. /\ c \in [seconds : Nat, share : Nat, receive : Nat]
        /\ Exceeded(y) \/ c.seconds = x.seconds \/ c.seconds = y.seconds
    BY <2>5, <2>6, <2>7
  <2>9. r \in Records /\ r.day = s.day /\ r.count = c
    BY <1>4, <1>6, <2>1, <2>8 DEF Records
  <2>10. Exceeded(y) => Exceeded(Due[s.day])
    BY <2>3, <2>4, LimiterAssumption DEF Exceeded, Within, Counts
  <2>11. Owed(r, Due)
    <3>1. CASE Exceeded(Due[s.day])
      BY <2>9, <3>1 DEF Owed
    <3>2. CASE ~Exceeded(Due[s.day])
      <4>1. x.seconds <= Due[s.day].seconds
        BY <1>4, <1>6, <2>4, <3>2 DEF Owed
      <4>2. y.seconds <= Due[s.day].seconds
        BY <2>3, <2>4 DEF Within
      <4>3. c.seconds <= Due[s.day].seconds
        BY <2>8, <2>10, <3>2, <4>1, <4>2
      <4> QED BY <2>9, <4>3 DEF Owed
    <3> QED BY <3>1, <3>2
  <2>12. Owed(r, Due')
    BY <1>1, <2>9, <2>11, OwedGrows DEF Honest, Fair
  <2> QED BY <1>1, <1>3, <1>5, <2>2, <2>9, <2>12, SavedIs
<1>7. CASE ~(u.day = s.day /\ c # u.count)
  <2>1. JustLoad
    BY <1>2, <1>7 DEF Merge
  <2> QED BY <1>1, <1>5, <2>1, JustLoadIs
<1> QED BY <1>6, <1>7

LEMMA ReachKeeps ==
  ASSUME Honest, tampered' = tampered, NEW s \in syncs, Reach(s)
  PROVE  Fair'
<1>1. Counted' /\ Grows
  BY ReachCounts DEF Honest, Fair
<1>2. Owed(usage, Due') /\ Owed(saved, Due')
  BY <1>1, OwedGrows DEF Honest, Fair, Recorded
<1>3. UNCHANGED <<usage, saved, net, clock, raising, tampered>>
  BY DEF Reach
<1>4. Recorded' /\ Timed'
  BY <1>2, <1>3 DEF Honest, Fair, Recorded, Timed, Owed
<1> QED BY <1>1, <1>4 DEF Honest, Fair

(* A record that only changes its flag.                                     *)
LEMMA FlagKeeps ==
  ASSUME Honest, UNCHANGED <<clock, net, Rows, syncs, Due>>, tampered' \in BOOLEAN,
         NEW flag \in BOOLEAN, NEW f \in BOOLEAN, Save([Load(flag) EXCEPT !.tampered = f], flag)
  PROVE  Fair'
<1>1. PICK u, r : u = Load(flag) /\ r = [u EXCEPT !.tampered = f]
  OBVIOUS
<1>2. u \in Records /\ Owed(u, Due)
  BY <1>1, LoadIs
<1>3. r \in Records /\ r.count = u.count /\ r.day = u.day
  BY <1>1, <1>2 DEF Records
<1>4. Counted'
  BY Unspent
<1>5. Owed(r, Due')
  BY <1>2, <1>3 DEF Owed
<1>6. Save(r, flag)
  BY <1>1
<1> QED BY <1>3, <1>4, <1>5, <1>6, SavedIs

LEMMA RaisedKeeps ==
  ASSUME Honest, SetClockTampered
  PROVE  Fair'
<1>1. PICK flag \in raising :
        /\ tampered' = flag
        /\ saved' = [Load(flag) EXCEPT !.tampered = flag, !.seen = NetTime, !.key = id]
        /\ usage' = saved' /\ hasCached' = TRUE
        /\ raising' = (raising \ {flag}) \cup Raises(flag)
        /\ UNCHANGED <<net, clock, Rows, syncs, Due>>
  BY DEF SetClockTampered, Rows, Due
<1>2. flag \in BOOLEAN /\ NetTime \in Nat /\ NetTime = clock.real /\ id \in Nat
  <2>3. id \in Nat
    BY DEF Honest, Known, Ids, Unassigned
  <2>1. flag = FALSE
    BY DEF Honest, Fair, Timed
  <2>2. NetTime \in Nat /\ NetTime = clock.real
    BY TimeIs, ClockIs DEF Honest, Fair
  <2> QED BY <2>1, <2>2, <2>3
<1>3. PICK u : u = Load(flag)
  OBVIOUS
<1>4. u \in Records /\ Owed(u, Due) /\ Raises(flag) \subseteq {FALSE}
  BY <1>2, <1>3, LoadIs
<1>5. saved' \in Records /\ saved'.count = u.count /\ saved'.day = u.day /\ saved'.seen = clock.real
  BY <1>1, <1>2, <1>3, <1>4 DEF Records
<1>6. Recorded'
  BY <1>1, <1>2, <1>4, <1>5 DEF Recorded, Owed
<1>7. Timed'
  BY <1>1, <1>2, <1>4 DEF Timed, Honest, Fair
<1>8. Counted'
  BY <1>1, Unspent
<1> QED BY <1>6, <1>7, <1>8 DEF Honest, Fair

LEMMA ReachingKeeps ==
  ASSUME Honest, NEW w \in Worker, Reaching(w)
  PROVE  Fair'
<1>0. tampered \in BOOLEAN /\ UNCHANGED <<net, clock, Rows, syncs, Due>>
  BY DEF Honest, Fair, Timed, Reaching, Rows, Due
<1>1. CASE PaidDetails(w)
  <2>1. PICK f : f = (Load(tampered).tampered /\ task[w].paid = None)
    OBVIOUS
  <2>2. f \in BOOLEAN
    BY <2>1
  <2>3. /\ Save([Load(tampered) EXCEPT !.tampered = f], tampered)
        /\ tampered' = tampered
    BY <1>1, <2>1 DEF PaidDetails, Details
  <2> QED BY <1>0, <2>2, <2>3, FlagKeeps
<1>2. CASE TurnedBack(w) /\ Judge(w) /\ Marked(TRUE)
  <2>1. tampered' \in BOOLEAN
    BY <1>2 DEF Judge
  <2> QED BY <1>0, <1>2, <2>1, FlagKeeps DEF Marked
<1>3. CASE (Accept(w) \/ WriteCache(w)) /\ Marked(FALSE)
  <2>1. tampered' \in BOOLEAN
    BY <1>3 DEF Accept, WriteCache
  <2> QED BY <1>0, <1>3, <2>1, FlagKeeps DEF Marked
<1> QED BY <1>1, <1>2, <1>3 DEF Reaching

LEMMA StepFlag ==
  ASSUME tampered \in BOOLEAN, NEW w \in Worker, Step(w)
  PROVE  tampered' \in BOOLEAN /\ plan' = plan
<1>1. CASE Take(w) \/ Probe(w) \/ Read(w) \/ Stamp(w) \/ StampCache(w)
  BY <1>1 DEF Take, Probe, Read, Stamp, StampCache
<1>2. CASE Judge(w)
  BY <1>2 DEF Judge
<1>3. CASE Accept(w)
  BY <1>3 DEF Accept
<1>4. CASE SetPaid(w)
  BY <1>4 DEF SetPaid
<1>5. CASE Details(w) \/ Verified(w) \/ Booted(w) \/ Refresh(w)
  BY <1>5 DEF Details, Verified, Booted, Refresh
<1>6. CASE Lock(w) \/ Ask(w) \/ Apply(w) \/ Write(w)
  BY <1>6 DEF Lock, Ask, Apply, Write
<1>7. CASE WriteCache(w)
  BY <1>7 DEF WriteCache
<1>8. CASE Activate(w) \/ Register(w) \/ Info(w) \/ Forget(w) \/ Remove(w) \/ Unbind(w)
  BY <1>8 DEF Activate, Register, Info, Forget, Remove, Unbind
<1> QED BY <1>1, <1>2, <1>3, <1>4, <1>5, <1>6, <1>7, <1>8 DEF Step

(* A step that leaves the limiter alone.                                    *)
LEMMA ApartKeeps ==
  ASSUME Honest, tampered' \in BOOLEAN, UNCHANGED limiterVars
  PROVE  Fair'
<1>1. Counted'
  BY Unspent DEF limiterVars, Rows, Due
<1>2. Timed' /\ Recorded'
  BY DEF Honest, Fair, Timed, Recorded, Owed, limiterVars, Due
<1> QED BY <1>1, <1>2 DEF Honest, Fair

(* What the environment still may do only gets less.                        *)
Things == {"status", "use", "lose", "fetch", "hour", "adjust", "restart", "id"}

LEMMA BudgetStep ==
  ASSUME Budgeted, [Next]_allVars
  PROVE  Budgeted' /\ (Steady' => Steady /\ ~Adjust /\ (Identify => id = Unassigned))
<1>1. plan' = plan
  <2>1. CASE LimiterNext
    BY <2>1 DEF LimiterNext, GetStatus, Tick, Transfer, SetClockTampered, Reach, Merge, Lose, StartFetch,
                EndFetch, Hour, Adjust, Identify, Restart, licenceVars
  <2>2. ASSUME NEW w \in Worker, Reaching(w) PROVE plan' = plan
    BY <2>2 DEF Reaching, PaidDetails, Details, Judge, Accept, WriteCache
  <2>3. ASSUME NEW w \in Worker, Apart(w) PROVE plan' = plan
    <3>1. Step(w)
      BY <2>3 DEF Apart
    <3> QED BY <3>1 DEF Step, Take, Probe, Read, Judge, Stamp, StampCache, Accept, SetPaid, Details, Verified,
                        Booted, Refresh, Lock, Ask, Apply, Write, WriteCache, Activate, Register, Info,
                        Forget, Remove, Unbind
  <2>4. CASE World
    BY <2>4 DEF World
  <2>5. CASE UNCHANGED allVars
    BY <2>5 DEF allVars, licenceVars
  <2> QED BY <2>1, <2>2, <2>3, <2>4, <2>5 DEF Next
<1>2. plan.uses \in [Things -> Nat]
  BY LimiterAssumption DEF Budgeted, Things
<1>3. /\ budget \in [Things -> Nat]
      /\ DOMAIN plan.uses = Things
  BY <1>2 DEF Budgeted
<1>4. ASSUME NEW what \in Things, Can(what), Spend(what)
      PROVE  /\ budget' \in [Things -> Nat] /\ budget'[what] = budget[what] - 1
             /\ \A other \in Things \ {what} : budget'[other] = budget[other]
  <2>1. budget' = [budget EXCEPT ![what] = budget[what] - 1] /\ budget[what] > 0 /\ budget[what] \in Nat
    BY <1>3, <1>4 DEF Can, Spend
  <2> QED BY <1>3, <2>1
<1>5. "adjust" \in Things /\ "id" \in Things
  BY DEF Things
<1>6. ASSUME NEW what \in Things \ {"adjust", "id"}, Can(what), Spend(what), id' = id, ~Adjust, ~Identify
      PROVE  Budgeted' /\ (Steady' => Steady)
  BY <1>1, <1>2, <1>3, <1>4, <1>5, <1>6 DEF Budgeted, Steady, Turned, Renamed
<1>7. ASSUME UNCHANGED <<budget, id>>
      PROVE  Budgeted' /\ (Steady' => Steady)
  BY <1>1, <1>7 DEF Budgeted, Steady, Turned, Renamed
<1>8. CASE Adjust
  <2>1. Can("adjust") /\ Spend("adjust") /\ id' = id
    BY <1>8 DEF Adjust
  <2>2. budget' \in [Things -> Nat] /\ budget'["adjust"] < plan.uses["adjust"] /\ budget'["id"] = budget["id"]
    BY <1>2, <1>3, <1>4, <1>5, <2>1 DEF Budgeted
  <2> QED BY <1>1, <1>2, <1>3, <1>5, <2>1, <2>2 DEF Budgeted, Steady, Turned
<1>9. CASE Identify /\ ~Adjust
  <2>1. Can("id") /\ Spend("id")
    BY <1>9 DEF Identify
  <2>2. /\ budget' \in [Things -> Nat] /\ budget'["id"] = budget["id"] - 1
        /\ budget'["adjust"] = budget["adjust"]
        /\ budget["id"] > 0 /\ budget["id"] \in Nat /\ plan.uses["id"] \in Nat
    BY <1>2, <1>3, <1>4, <1>5, <2>1 DEF Can
  <2>3. budget["id"] <= plan.uses["id"]
    BY DEF Budgeted
  <2>4. budget'["id"] < plan.uses["id"]
    BY <2>2, <2>3
  <2>5. Budgeted'
    BY <1>1, <1>2, <1>3, <2>2, <2>4 DEF Budgeted
  <2>6. Steady' => Steady /\ id = Unassigned
    <3>1. SUFFICES ASSUME Steady' PROVE Steady /\ id = Unassigned
      OBVIOUS
    <3>2. ~Turned /\ budget'["id"] + 1 >= plan.uses["id"]
      BY <1>1, <2>2, <3>1 DEF Steady, Turned, Renamed
    <3>3. budget["id"] >= plan.uses["id"]
      BY <2>2, <3>2
    <3> QED BY <2>2, <3>2, <3>3 DEF Steady, Renamed, Budgeted
  <2> QED BY <1>9, <2>5, <2>6
<1>10. CASE LimiterNext /\ ~Adjust /\ ~Identify
  <2>1. UNCHANGED <<budget, id>> \/ \E what \in Things \ {"adjust", "id"} : Can(what) /\ Spend(what) /\ id' = id
    BY <1>10 DEF LimiterNext, GetStatus, Tick, Transfer, SetClockTampered, Reach, Merge, Lose,
                 StartFetch, EndFetch, Hour, Restart, Things
  <2> QED BY <1>6, <1>7, <1>10, <2>1
<1>11. CASE ~LimiterNext
  <2>1. /\ \/ \E w \in Worker : Apart(w) \/ Reaching(w)
           \/ World /\ UNCHANGED limiterVars
           \/ UNCHANGED allVars
        => UNCHANGED <<budget, id>>
    BY DEF Apart, Reaching, allVars, limiterVars
  <2>2. ~Adjust /\ ~Identify
    BY <1>11 DEF LimiterNext
  <2> QED BY <1>7, <1>11, <2>1, <2>2 DEF Next
<1> QED BY <1>8, <1>9, <1>10, <1>11

(* One id, and a record and deltas of it.                                   *)
LEMMA SaysKnown ==
  ASSUME Known, id' = id, saved'.key \in {saved.key, id, Unassigned},
         \A s \in syncs' : s \in syncs \/ s.id = id,
         spent' \in [Days -> Counts], late' \in [Days -> Counts],
         cloud' \in [Ids -> [Days -> Counts]],
         \A i \in Ids \ {id} : \A d \in Days : cloud'[i][d] = cloud[i][d]
  PROVE  Known'
BY DEF Known

(* Every load and every save keeps a key that verifies.                     *)
LEMMA KeyOf ==
  ASSUME Honest, NEW flag \in BOOLEAN
  PROVE  /\ Judged(flag) \in Records /\ Judged(flag).key = saved.key
<1>1. saved \in Records /\ ~RolledBack /\ ~Unverified
  BY TimeIs, ClockIs DEF Honest, Fair, Known, Recorded, Records, RolledBack, Unverified
<1>2. Judged(flag) \in Records
  BY JudgedIs
<1>3. FromFile.key = saved.key
  BY <1>1 DEF FromFile, Records
<1>4. PICK f : f = FromFile
  OBVIOUS
<1>5. f \in Records
  BY <1>1, <1>4, TimeIs DEF FromFile, Records, Nil, Honest, Fair
<1>6. Judged(flag).key = f.key
  BY <1>1, <1>4, <1>5 DEF Judged, Records
<1> QED BY <1>2, <1>3, <1>4, <1>6

LEMMA JustLoadKey ==
  ASSUME Honest, JustLoad
  PROVE  saved'.key \in {saved.key, id}
<1>1. tampered \in BOOLEAN /\ id \in Nat
  BY DEF Honest, Fair, Timed, Known, Ids, Unassigned
<1>2. PICK u : u = Judged(tampered)
  OBVIOUS
<1>3. u \in Records /\ u.key = saved.key
  BY <1>1, <1>2, KeyOf
<1>4. saved' = saved \/ saved' = [u EXCEPT !.key = id] \/ saved' = u
  BY <1>2 DEF JustLoad
<1> QED BY <1>3, <1>4 DEF Records

LEMMA SaveKey ==
  ASSUME NEW u \in Records, NEW flag, Save(u, flag)
  PROVE  saved'.key = id
BY DEF Save, Records

(* The record's key, the deltas' id and the rows of other ids.              *)
LEMMA KnownUse ==
  ASSUME Honest, UNCHANGED <<cloud, id, late>>,
         NEW field \in {"seconds", "share", "receive"}, NEW n \in {0, 1}, NEW k \in {0, 1},
         Use(field, Sync(n, k))
  PROVE  Known'
<1>1. CASE ~Free
  BY <1>1, JustLoadKey, SaysKnown DEF Use, Honest, Known
<1>2. CASE Free
  <2>1. PICK u : u = Load(tampered)
    OBVIOUS
  <2>2. u \in Records /\ Today \in Days /\ Known
    BY <2>1, LoadIs, TimeIs DEF Honest, Fair, Timed
  <2>3. PICK x : x = Capped(u.count[field] + 1)
    OBVIOUS
  <2>4. saved'.key = id
    <3>1. Save([u EXCEPT !.count[field] = x], tampered)
      BY <1>2, <2>1, <2>3 DEF Use
    <3> QED BY <2>2, <3>1 DEF Save, Records
  <2>5. spent' \in [Days -> Counts]
    <3>1. spent' = [spent EXCEPT ![Today] = Added(@, Sync(n, k))]
      BY <1>2 DEF Use
    <3>2. Added(spent[Today], Sync(n, k)) \in Counts
      BY <2>2 DEF Known, Added, Sync, Counts
    <3> QED BY <2>2, <3>1, <3>2 DEF Known
  <2>6. \A s \in syncs' : s \in syncs \/ s.id = id
    BY <1>2 DEF Use, Sync
  <2> QED BY <2>2, <2>4, <2>5, <2>6, SaysKnown DEF Known
<1> QED BY <1>1, <1>2

LEMMA KnownMarked ==
  ASSUME Honest, UNCHANGED <<cloud, id, late, spent, syncs>>, NEW flag \in BOOLEAN, NEW f,
         Save([Load(flag) EXCEPT !.tampered = f], flag)
  PROVE  Known'
<1>1. PICK u : u = Load(flag)
  OBVIOUS
<1>2. u \in Records /\ Known
  BY <1>1, LoadIs DEF Honest
<1>3. saved'.key = id
  BY <1>1, <1>2 DEF Save, Records
<1> QED BY <1>2, <1>3, SaysKnown DEF Known

LEMMA KnownStep ==
  ASSUME Honest, [Next]_allVars, ~Identify
  PROVE  Known'
<1>0. Known /\ tampered \in BOOLEAN
  BY DEF Honest, Fair, Timed
<1>1. CASE GetStatus
  BY <1>0, <1>1, JustLoadKey, SaysKnown DEF GetStatus, Known
<1>2. CASE Tick
  BY <1>2, KnownUse DEF Tick
<1>3. CASE Transfer
  BY <1>3, KnownUse DEF Transfer, IncrementTransfers, IncrementReceiveTransfers
<1>4. CASE SetClockTampered
  <2>1. PICK flag \in raising : saved' = [Load(flag) EXCEPT !.tampered = flag, !.seen = NetTime, !.key = id]
    BY <1>4 DEF SetClockTampered
  <2>2. PICK u : u = Load(flag)
    OBVIOUS
  <2>3. u \in Records
    BY <2>2, LoadIs DEF Honest, Fair, Timed
  <2>4. saved'.key = id
    BY <2>1, <2>2, <2>3 DEF Records
  <2> QED BY <1>0, <1>4, <2>4, SaysKnown DEF SetClockTampered, Known
<1>5. ASSUME NEW s \in syncs, Reach(s) PROVE Known'
  <2>1. s.id = id /\ s \in Syncs /\ UNCHANGED <<id, saved, spent>>
    BY <1>5 DEF Known, Reach, Honest, Fair, Counted
  <2>2. PICK day, row : day = DateOf(clock.real) /\ row = Added(cloud[s.id][day], s)
    OBVIOUS
  <2>3. day \in Days
    BY <2>2 DEF Honest, Fair, Timed, Days, DateOf, MaxTime
  <2>4. row \in Counts
    BY <1>0, <2>1, <2>2, <2>3 DEF Known, Syncs, Added, Counts
  <2>5. /\ cloud' = [cloud EXCEPT ![id][day] = row]
        /\ late' = late \/ late' = [late EXCEPT ![day] = Added(@, s)]
        /\ \A x \in syncs' : x \in syncs \/ x.id = id
    BY <1>5, <2>1, <2>2 DEF Reach, Syncs
  <2>6. /\ cloud' \in [Ids -> [Days -> Counts]]
        /\ \A i \in Ids \ {id} : \A d \in Days : cloud'[i][d] = cloud[i][d]
    BY <1>0, <2>3, <2>4, <2>5 DEF Known
  <2>7. late' \in [Days -> Counts]
    <3>1. Added(late[day], s) \in Counts
      BY <1>0, <2>1, <2>3 DEF Known, Syncs, Added, Counts
    <3> QED BY <1>0, <2>3, <2>5, <3>1 DEF Known
  <2> QED BY <1>0, <2>1, <2>5, <2>6, <2>7, SaysKnown DEF Known
<1>6. ASSUME NEW s \in syncs, Merge(s) PROVE Known'
  <2>1. saved'.key \in {saved.key, id}
    <3>1. PICK u, c : u = Load(tampered) /\ c = Merged(u.count, s.got)
      OBVIOUS
    <3>2. u \in Records
      BY <1>0, <3>1, LoadIs
    <3>3. Save([u EXCEPT !.count = c], tampered) \/ JustLoad
      BY <1>6, <3>1 DEF Merge
    <3>4. Save([u EXCEPT !.count = c], tampered) => saved'.key = id
      BY <3>2 DEF Save, Records
    <3> QED BY <3>3, <3>4, JustLoadKey
  <2>2. UNCHANGED <<id, cloud, spent, late>> /\ syncs' \subseteq syncs
    BY <1>6 DEF Merge
  <2> QED BY <1>0, <2>1, <2>2, SaysKnown DEF Known
<1>7. ASSUME NEW s \in syncs, Lose(s) PROVE Known'
  BY <1>0, <1>7 DEF Lose, Known
<1>8. CASE StartFetch \/ EndFetch \/ Hour \/ Adjust \/ Restart
  BY <1>0, <1>8 DEF StartFetch, EndFetch, Hour, Adjust, Restart, Known
<1>9. ASSUME NEW w \in Worker, Reaching(w) PROVE Known'
  <2>1. UNCHANGED <<cloud, id, late, spent, syncs>>
    BY <1>9 DEF Reaching
  <2>2. CASE PaidDetails(w)
    BY <1>0, <2>1, <2>2, KnownMarked DEF PaidDetails
  <2>3. CASE Marked(TRUE) \/ Marked(FALSE)
    BY <2>1, <2>3, KnownMarked DEF Marked
  <2> QED BY <1>9, <2>2, <2>3 DEF Reaching
<1>10. CASE UNCHANGED limiterVars
  BY <1>0, <1>10 DEF limiterVars, Known
<1> QED BY <1>1, <1>2, <1>3, <1>4, <1>5, <1>6, <1>7, <1>8, <1>9, <1>10 DEF Next, LimiterNext, Apart, allVars

(* The first id a device gets: it had no rows, and none are there for it.   *)
LEMMA IdentifyKeeps ==
  ASSUME Honest, Identify, id = Unassigned
  PROVE  Honest'
<1>1. PICK new \in Ids : id' = new
  BY DEF Identify
<1>2. UNCHANGED <<tampered, usage, saved, net, clock, cloud, syncs, raising, spent, late>>
  BY DEF Identify, licenceVars
<1>3. syncs = {} /\ id \notin Ids
  BY DEF Honest, Known, Fair, Counted, Syncs, Ids, Unassigned
<1>4. Rows' = Rows /\ Due' = Due
  BY <1>1, <1>2, <1>3 DEF Rows, Due, Honest, Known
<1>5. Counted'
  BY <1>2, <1>4, Unspent
<1>6. Timed' /\ Recorded'
  BY <1>2, <1>4 DEF Honest, Fair, Timed, Recorded, Owed
<1>7. Known'
  <2>1. saved.key = Unassigned /\ \A i \in Ids : \A d \in Days : cloud[i][d] = Empty
    BY <1>3 DEF Honest, Known
  <2> QED BY <1>1, <1>2, <1>3, <2>1 DEF Honest, Known
<1> QED BY <1>5, <1>6, <1>7 DEF Honest, Fair

LEMMA FairStep ==
  ASSUME Budgeted, Honest, [Next]_allVars, ~Adjust, ~Identify
  PROVE  Fair'
<1>1. tampered \in BOOLEAN
  BY DEF Honest, Fair, Timed
<1>2. budget["use"] \in Nat
  BY LimiterAssumption DEF Budgeted
<1>3. CASE GetStatus
  <2>1. UNCHANGED <<clock, net, tampered, syncs, Due, Rows>> /\ JustLoad
    BY <1>3 DEF GetStatus, licenceVars, Rows, Due
  <2> QED BY <2>1, Unspent, JustLoadIs
<1>4. CASE Tick
  <2>1. UNCHANGED <<clock, net, Rows, tampered, id, late>> /\ Use("seconds", Sync(1, 0))
    BY <1>4 DEF Tick, licenceVars, Rows, Due
  <2> QED BY <1>2, <2>1, UseKeeps
<1>5. CASE Transfer
  <2>1. PICK field \in {"share", "receive"} :
          UNCHANGED <<clock, net, Rows, tampered, id, late>> /\ Use(field, Sync(0, 1))
    BY <1>5 DEF Transfer, IncrementTransfers, IncrementReceiveTransfers, licenceVars, Rows, Due
  <2> QED BY <1>2, <2>1, UseKeeps
<1>6. CASE SetClockTampered
  BY <1>6, RaisedKeeps
<1>7. ASSUME NEW s \in syncs, Reach(s) PROVE Fair'
  <2>1. tampered' = tampered
    BY <1>7 DEF Reach, licenceVars
  <2> QED BY <1>7, <2>1, ReachKeeps
<1>8. ASSUME NEW s \in syncs, Merge(s) PROVE Fair'
  <2>1. tampered' = tampered
    BY <1>8 DEF Merge, licenceVars
  <2> QED BY <1>8, <2>1, MergeKeeps
<1>9. ASSUME NEW s \in syncs, Lose(s) PROVE Fair'
  <2>1. UNCHANGED <<usage, saved, net, clock, Rows, raising, Due, tampered>> /\ syncs' \subseteq syncs
    BY <1>9 DEF Lose, licenceVars, Rows, Due
  <2>2. Counted'
    BY <2>1, FewerDeltas DEF Honest, Fair
  <2> QED BY <2>1, <2>2 DEF Honest, Fair, Timed, Recorded, Owed
<1>10. CASE StartFetch
  <2>1. UNCHANGED <<usage, saved, clock, Rows, syncs, raising, Due, tampered>>
    BY <1>10 DEF StartFetch, licenceVars, Rows, Due
  <2>2. net' \in [cached: BOOLEAN, checking: BOOLEAN, offset: {0}]
    BY <1>10 DEF StartFetch, Honest, Fair, Timed
  <2>3. Counted'
    BY <2>1, Unspent
  <2> QED BY <2>1, <2>2, <2>3 DEF Honest, Fair, Timed, Recorded, Owed
<1>11. CASE EndFetch
  <2>1. UNCHANGED <<usage, saved, clock, Rows, syncs, raising, Due, tampered>>
    BY <1>11 DEF EndFetch, licenceVars, Rows, Due
  <2>2. net' \in [cached: BOOLEAN, checking: BOOLEAN, offset: {0}]
    <3>1. clock.real \in Nat /\ clock.skew = 0 /\ net \in [cached: BOOLEAN, checking: BOOLEAN, offset: {0}]
      BY DEF Honest, Fair, Timed
    <3>4. fetchNetworkTime - LocalTime = 0
      BY <3>1 DEF fetchNetworkTime, LocalTime
    <3>2. CASE net' = [cached |-> TRUE, checking |-> FALSE, offset |-> fetchNetworkTime - LocalTime]
      <4>1. net' = [cached |-> TRUE, checking |-> FALSE, offset |-> 0]
        BY <3>2, <3>4
      <4> QED BY <4>1
    <3>3. CASE net' = [net EXCEPT !.cached = FALSE, !.checking = FALSE]
      BY <3>1, <3>3
    <3> QED BY <1>11, <3>2, <3>3 DEF EndFetch
  <2>3. Counted'
    BY <2>1, Unspent
  <2> QED BY <2>1, <2>2, <2>3 DEF Honest, Fair, Timed, Recorded, Owed
<1>12. CASE Hour
  <2>1. UNCHANGED <<usage, saved, net, Rows, syncs, raising, Due, tampered>>
    BY <1>12 DEF Hour, licenceVars, Rows, Due
  <2>2. clock' \in [real: 0 .. MaxTime, skew: {0}] /\ clock'.real = clock.real + 1
    BY <1>12 DEF Hour, Honest, Fair, Timed, MaxTime
  <2>3. Counted'
    BY <2>1, Unspent
  <2>4. Recorded'
    <3>1. saved.seen \in Nat /\ clock.real \in Nat
      BY DEF Honest, Fair, Recorded, Records, Timed, MaxTime
    <3> QED BY <2>1, <2>2, <3>1 DEF Honest, Fair, Recorded, Owed
  <2> QED BY <2>1, <2>2, <2>3, <2>4 DEF Honest, Fair, Timed
<1>13. CASE Restart
  <2>1. /\ UNCHANGED <<saved, clock, Rows, Due>> /\ syncs' = {} /\ raising' = {} /\ tampered' = FALSE
        /\ usage' = NoFile /\ net' = [cached |-> FALSE, checking |-> FALSE, offset |-> 0]
    BY <1>13 DEF Restart, Rows, Due
  <2>2. Counted'
    BY <2>1, FewerDeltas DEF Honest, Fair
  <2>3. NoFile \in Records /\ Owed(NoFile, Due)
    <3>1. 0 \in Days /\ Due[0] \in Counts
      BY DEF Days, DateOf, MaxTime, Honest, Fair, Counted
    <3> QED BY <3>1 DEF NoFile, Unassigned, Nil, Records, Owed, Counts
  <2> QED BY <2>1, <2>2, <2>3 DEF Honest, Fair, Timed, Recorded, Owed
<1>14. ASSUME NEW w \in Worker, Apart(w) PROVE Fair'
  BY <1>1, <1>14, StepFlag, ApartKeeps DEF Apart
<1>15. CASE World /\ UNCHANGED limiterVars
  BY <1>1, <1>15, ApartKeeps DEF World
<1>16. CASE UNCHANGED allVars
  <2>1. UNCHANGED limiterVars /\ tampered' = tampered
    BY <1>16 DEF allVars, licenceVars
  <2> QED BY <1>1, <2>1, ApartKeeps
<1> QED BY <1>3, <1>4, <1>5, <1>6, <1>7, <1>8, <1>9, <1>10, <1>11, <1>12, <1>13, <1>14, <1>15, <1>16,
           ReachingKeeps DEF Next, LimiterNext

LEMMA HonestStep ==
  ASSUME Budgeted, Honest, [Next]_allVars, ~Adjust, Identify => id = Unassigned
  PROVE  Honest'
BY IdentifyKeeps, FairStep, KnownStep DEF Honest

LEMMA HonestInit == Init => HonestInv
<1> SUFFICES ASSUME Init PROVE Budgeted /\ Honest
  BY DEF HonestInv
<1>1. plan \in Plans /\ budget = plan.uses /\ tampered = FALSE /\ id = Unassigned
  BY DEF Init, LicenceInit, LimiterInit
<1>2. Budgeted
  BY <1>1, LimiterAssumption DEF Budgeted
<1>3. 0 \in Days /\ Empty \in Counts
  BY DEF Days, DateOf, MaxTime, Empty, Counts
<1>4. Due = [d \in Days |-> Empty] /\ Rows = [d \in Days |-> Empty] /\ syncs = {} /\ Known
  <2>1. Added(Empty, Empty) = Empty
    BY DEF Added, Empty
  <2>2. /\ id = Unassigned /\ spent = [d \in Days |-> Empty] /\ late = [d \in Days |-> Empty]
        /\ cloud = [i \in Ids |-> [d \in Days |-> Empty]] /\ syncs = {} /\ saved = NoFile
    BY DEF Init, LimiterInit
  <2>3. Unassigned \notin Ids /\ NoFile.key = Unassigned
    BY DEF Ids, Unassigned, NoFile
  <2> QED BY <1>3, <2>1, <2>2, <2>3 DEF Due, Rows, Known
<1>5. Counted
  <2>1. IsFiniteSet({}) /\ Cardinality({}) = 0
    BY FS_EmptySet
  <2>2. \A d \in Days : Seconds({}, d) = {} /\ Transfers({}, d) = {}
    BY DEF Seconds, Transfers
  <2>3. \A d \in Days : Balanced(d, {}, Rows[d], Due[d])
    BY <2>1, <2>2, <1>3, <1>4 DEF Balanced, Empty
  <2> QED BY <1>3, <1>4, <2>1, <2>3 DEF Counted
<1>6. NoFile \in Records /\ Owed(NoFile, Due)
  <2>1. Due[0] \in Counts
    BY <1>3, <1>4
  <2> QED BY <1>3, <2>1 DEF NoFile, Unassigned, Nil, Records, Owed, Counts
<1>7. Timed /\ Recorded
  <2>1. /\ usage = NoFile /\ saved = NoFile /\ clock = [real |-> 1, skew |-> 0]
        /\ net = [cached |-> FALSE, checking |-> FALSE, offset |-> 0] /\ raising = {}
    BY DEF Init, LimiterInit
  <2>2. NoFile.seen = 0
    BY DEF NoFile
  <2>3. Timed
    <3>1. clock \in [real: 0 .. MaxTime, skew: {0}]
      <4>1. 1 \in 0 .. MaxTime
        BY DEF MaxTime
      <4> QED BY <2>1, <4>1
    <3>2. net \in [cached: BOOLEAN, checking: BOOLEAN, offset: {0}]
      BY <2>1
    <3> QED BY <1>1, <2>1, <3>1, <3>2 DEF Timed
  <2>4. Recorded
    <3>1. saved.seen <= clock.real
      BY <2>1, <2>2
    <3> QED BY <1>6, <2>1, <3>1 DEF Recorded
  <2> QED BY <2>3, <2>4
<1> QED BY <1>2, <1>4, <1>5, <1>7 DEF Honest, Fair

(* The free quota never runs ahead of what was used, whatever is lost,      *)
(* restarted, reordered or answered twice, for every plan: each answer of   *)
(* the cloud counts what it was sent and no more, a second that reaches it  *)
(* after midnight is charged on both days and never more often, and while   *)
(* the clock and the device's id stay, no day is locked that was not spent. *)
THEOREM ChargesAreOwed == Spec => [](Steady => NeverOvercharged)
<1>1. HonestInv /\ [Next]_allVars => HonestInv'
  BY BudgetStep, HonestStep DEF HonestInv
<1>2. HonestInv => (Steady => NeverOvercharged)
  <2> SUFFICES ASSUME HonestInv, Steady PROVE NeverOvercharged
    OBVIOUS
  <2>1. Owed(usage, Due) /\ usage.day \in Days
    BY DEF HonestInv, Honest, Fair, Recorded, Records
  <2>2. Due[usage.day] = Added(spent[usage.day], late[usage.day])
    BY <2>1 DEF Due
  <2> QED BY <2>1, <2>2 DEF Owed, NeverOvercharged
<1> QED BY HonestInit, <1>1, <1>2, PTL DEF Spec

-----------------------------------------------------------------------------
(* Type correctness of the licence *)

Cert == [code: Codes \cup {None}, epoch: Nat]
PCs == {"idle", "probe", "read", "judge", "stamp", "stampCache", "accept", "paid", "details", "verified",
        "booted", "choose", "register", "lock", "ask", "apply", "write", "writeCache", "activate", "info",
        "forget", "remove", "unbind"}
TaskType == [script: Seq(Ops), pc: PCs, code: Codes \cup {None}, cert: Cert,
             answer: {None, "lost", "ok", "gone"}, paid: Codes \cup {None}, wiping: BOOLEAN,
             next: {"idle", "booted", "verified"}, err: {"idle", "read"}]
WorldType == [bound: SUBSET Codes, gone: SUBSET Codes, unbinds: SUBSET Codes, epoch: Nat, back: BOOLEAN]

(* A certificate was issued in this lease or in an earlier one.             *)
Issued(cert) == cert.epoch <= world.epoch
Valid(t) ==
  /\ Issued(t.cert)
  /\ t.pc = "apply" => t.answer # None
  /\ t.pc = "activate" => t.code \in Codes

Typed ==
  /\ plan \in Plans
  /\ file \in Cert /\ Issued(file)
  /\ cache \in [code: Codes \cup {None, Unread}, epoch: Nat] /\ Issued(cache)
  /\ paid \in Codes \cup {None} /\ ready \in BOOLEAN
  /\ syncing \in Worker \cup {None}
  /\ task \in [Worker -> TaskType] /\ \A w \in Worker : Valid(task[w])
  /\ world \in WorldType

LEMMA LocalIs ==
  ASSUME Typed
  PROVE  Local \in Cert /\ Issued(Local)
BY CodesAssumption DEF Typed, Local, Cert

(* A step of one goroutine puts its task in a new state.                    *)
Puts(w, t) == t \in TaskType /\ Valid(t) /\ task' = [task EXCEPT ![w] = t]

LEMMA PutsIs ==
  ASSUME Typed, NEW w \in Worker, NEW t, Puts(w, t), UNCHANGED plan
  PROVE  /\ Worker' = Worker /\ task'[w] = t /\ \A v \in Worker : v # w => task'[v] = task[v]
         /\ task' \in [Worker -> TaskType]
         /\ world'.epoch = world.epoch => (\A v \in Worker : Valid(task[v]))'
<1>1. /\ Worker' = Worker /\ task'[w] = t /\ \A v \in Worker : v # w => task'[v] = task[v]
      /\ task' \in [Worker -> TaskType]
  BY DEF Typed, Puts, Worker
<1>2. ASSUME world'.epoch = world.epoch, NEW v \in Worker PROVE Valid(task[v])'
  <2>1. Valid(task'[v])
    BY <1>1 DEF Typed, Puts
  <2> QED BY <1>2, <2>1 DEF Valid, Issued
<1> QED BY <1>1, <1>2

(* The parts of it that few steps change.                                   *)
Stays(w, t) ==
  t.cert = task[w].cert /\ t.paid = task[w].paid /\ t.answer = task[w].answer /\ t.script = task[w].script

LEMMA GoesIs ==
  ASSUME Typed, NEW w \in Worker, NEW pc \in PCs \ {"apply", "activate"}, Goto(w, pc)
  PROVE  \E t : Puts(w, t) /\ Stays(w, t) /\ t.pc = pc
<1>1. PICK t : t = [task[w] EXCEPT !.pc = pc]
  OBVIOUS
<1>2. task[w] \in TaskType /\ Valid(task[w])
  BY DEF Typed
<1>3. t \in TaskType /\ t.pc = pc /\ Stays(w, t)
  BY <1>1, <1>2 DEF TaskType, Stays
<1> QED BY <1>1, <1>2, <1>3 DEF Goto, Puts, Valid, Issued, Stays

LEMMA TakeIs ==
  ASSUME Typed, NEW w \in Worker, Take(w)
  PROVE  /\ task[w].pc = "idle"
         /\ \E t : /\ Puts(w, t)
                   /\ t.pc \in {"probe", "read", "choose", "info", "activate"}
                   /\ t.cert = NoCert /\ t.script = Tail(task[w].script) /\ task[w].script # <<>>
                   /\ t.pc = "activate" => Head(task[w].script) \in Codes
         /\ UNCHANGED <<plan, file, cache, paid, tampered, ready, probed, syncing, world>>
<1>1. task[w] \in TaskType /\ task[w].script \in Seq(Ops) /\ task[w].script # <<>> /\ task[w].pc = "idle"
  BY DEF Typed, TaskType, Take, At
<1>2. PICK op \in Ops, rest \in Seq(Ops) : op = Head(task[w].script) /\ rest = Tail(task[w].script)
  BY <1>1, HeadTailProperties
<1>3. /\ First(op) \in {"probe", "read", "choose", "info", "activate"}
      /\ First(op) = "activate" => op \in Codes
  BY <1>2, CodesAssumption DEF First, Ops
<1>4. PICK t : t = [NewTask(rest) EXCEPT !.pc = First(op), !.code = IF op \in Codes THEN op ELSE None,
                !.next = IF op = "boot" THEN "booted" ELSE IF op = "verify" THEN "verified" ELSE "idle"]
  OBVIOUS
<1>5. NoCert \in Cert /\ NoCert.epoch = 0
  BY DEF NoCert, Cert
<1>6. /\ t \in TaskType /\ t.cert = NoCert /\ t.pc = First(op) /\ t.script = rest
      /\ op \in Codes => t.code = op
  BY <1>2, <1>3, <1>4, <1>5 DEF NewTask, TaskType, PCs
<1>7. Issued(t.cert)
  BY <1>5, <1>6 DEF Issued, Typed, WorldType
<1>8. task' = [task EXCEPT ![w] = t]
  BY <1>2, <1>4 DEF Take
<1>9. Puts(w, t)
  BY <1>3, <1>6, <1>7, <1>8 DEF Puts, Valid
<1>10. UNCHANGED <<plan, file, cache, paid, tampered, ready, probed, syncing, world>>
  BY DEF Take
<1> QED BY <1>1, <1>2, <1>3, <1>6, <1>9, <1>10

(* What each step of a goroutine does to its task.                           *)
LEMMA ProbeIs ==
  ASSUME Typed, NEW w \in Worker, Probe(w)
  PROVE  /\ task[w].pc = "probe"
         /\ \E t : /\ Puts(w, t)
                   /\ Stays(w, t) /\ t.pc = "read"
         /\ probed' = TRUE
         /\ UNCHANGED <<plan, file, cache, paid, tampered, ready, syncing, world>>
<1>1. Goto(w, "read") /\ "read" \in PCs \ {"apply", "activate"}
  BY DEF Probe, PCs
<1>2. \E t : Puts(w, t) /\ Stays(w, t) /\ t.pc = "read"
  BY <1>1, GoesIs
<1> QED BY <1>2 DEF Probe, At

LEMMA ReadIs ==
  ASSUME Typed, NEW w \in Worker, Read(w)
  PROVE  /\ task[w].pc = "read"
         /\ \E t : /\ Puts(w, t)
                   /\ t.cert = file /\ t.paid = task[w].paid /\ t.answer = task[w].answer /\ t.script = task[w].script
                   /\ t.pc \in {"paid", "judge"} /\ (t.pc = "paid" => file.code = None)
         /\ UNCHANGED <<plan, file, cache, paid, tampered, ready, probed, syncing, world>>
<1>1. /\ task[w] \in TaskType /\ Valid(task[w]) /\ file \in Cert /\ Issued(file)
      /\ Local \in Cert /\ Issued(Local) /\ world.epoch \in Nat
  BY LocalIs DEF Typed, WorldType
<1>3. PICK t : t = [task[w] EXCEPT !.cert = file, !.pc = IF file.code = None THEN "paid" ELSE "judge"]
  OBVIOUS
<1>4. /\ t \in TaskType /\ Valid(t)
      /\ t.cert = file /\ t.paid = task[w].paid /\ t.answer = task[w].answer /\ t.script = task[w].script
      /\ t.pc \in {"paid", "judge"} /\ (t.pc = "paid" => file.code = None)
  BY <1>1, <1>3 DEF TaskType, PCs, Stays, Valid, Issued
<1>5. task' = [task EXCEPT ![w] = t]
  BY <1>1, <1>3 DEF Read
<1> QED BY <1>1, <1>4, <1>5 DEF Read, At, Puts

LEMMA JudgeIs ==
  ASSUME Typed, NEW w \in Worker, Judge(w)
  PROVE  /\ task[w].pc = "judge"
         /\ \E t : /\ Puts(w, t)
                   /\ Stays(w, t) /\ t.pc \in {"paid", "stamp", "accept"}
                   /\ t.pc # "paid" => Signed(task[w].cert) /\ probed
                   /\ t.pc = "paid" => ~Sound(task[w].cert) \/ world.back
         /\ paid' = IF TurnedBack(w) THEN None ELSE paid
         /\ probed \/ May("slowProbe")
         /\ UNCHANGED <<plan, file, cache, ready, probed, syncing, world>>
<1>1. PICK pc \in {"paid", "stamp", "accept"} :
        /\ Goto(w, pc)
        /\ pc # "paid" => Signed(task[w].cert) /\ probed
        /\ pc = "paid" => ~Sound(task[w].cert) \/ world.back
  BY DEF Judge, Goto, Sound, TurnedBack
<1>2. pc \in PCs \ {"apply", "activate"}
  BY DEF PCs
<1>3. \E t : Puts(w, t) /\ Stays(w, t) /\ t.pc = pc
  BY <1>1, <1>2, GoesIs
<1> QED BY <1>1, <1>3 DEF Judge, At, Sound, TurnedBack

LEMMA StampIs ==
  ASSUME Typed, NEW w \in Worker, Stamp(w)
  PROVE  /\ task[w].pc = "stamp"
         /\ \E t : /\ Puts(w, t)
                   /\ t.cert = file' /\ t.pc = "stampCache" /\ t.paid = task[w].paid /\ t.answer = task[w].answer /\ t.script = task[w].script
         /\ file' = IF file.code = task[w].cert.code THEN file ELSE task[w].cert
         /\ UNCHANGED <<plan, cache, paid, tampered, ready, probed, syncing, world>>
<1>1. /\ task[w] \in TaskType /\ Valid(task[w]) /\ file \in Cert /\ Issued(file)
      /\ Local \in Cert /\ Issued(Local) /\ world.epoch \in Nat
  BY LocalIs DEF Typed, WorldType
<1>2. PICK c : c = IF file.code = task[w].cert.code THEN file ELSE task[w].cert
  OBVIOUS
<1>6. c \in Cert /\ Issued(c) /\ file' = c
  BY <1>1, <1>2 DEF Stamp, TaskType, Valid
<1>3. PICK t : t = [task[w] EXCEPT !.cert = c, !.pc = "stampCache"]
  OBVIOUS
<1>4. /\ t \in TaskType /\ Valid(t)
      /\ t.cert = file' /\ t.pc = "stampCache" /\ t.paid = task[w].paid /\ t.answer = task[w].answer /\ t.script = task[w].script
  BY <1>1, <1>3, <1>2, <1>6 DEF TaskType, PCs, Stays, Valid, Issued
<1>5. task' = [task EXCEPT ![w] = t]
  BY <1>1, <1>3, <1>2, <1>6 DEF Stamp
<1> QED BY <1>1, <1>4, <1>5, <1>2, <1>6 DEF Stamp, At, Puts

LEMMA StampCacheIs ==
  ASSUME Typed, NEW w \in Worker, StampCache(w)
  PROVE  /\ task[w].pc = "stampCache"
         /\ \E t : /\ Puts(w, t)
                   /\ Stays(w, t) /\ t.pc = "accept"
         /\ cache' = task[w].cert
         /\ UNCHANGED <<plan, file, paid, tampered, ready, probed, syncing, world>>
<1>1. Goto(w, "accept") /\ "accept" \in PCs \ {"apply", "activate"}
  BY DEF StampCache, PCs
<1>2. \E t : Puts(w, t) /\ Stays(w, t) /\ t.pc = "accept"
  BY <1>1, GoesIs
<1> QED BY <1>2 DEF StampCache, At

LEMMA AcceptIs ==
  ASSUME Typed, NEW w \in Worker, Accept(w)
  PROVE  /\ task[w].pc = "accept"
         /\ \E t : /\ Puts(w, t)
                   /\ t.pc = "paid" /\ t.paid = task[w].cert.code
                   /\ t.cert = task[w].cert /\ t.answer = task[w].answer /\ t.script = task[w].script
         /\ UNCHANGED <<plan, file, cache, paid, ready, probed, syncing, world>>
<1>1. /\ task[w] \in TaskType /\ Valid(task[w]) /\ file \in Cert /\ Issued(file)
      /\ Local \in Cert /\ Issued(Local) /\ world.epoch \in Nat
  BY LocalIs DEF Typed, WorldType
<1>3. PICK t : t = [task[w] EXCEPT !.paid = task[w].cert.code, !.pc = "paid"]
  OBVIOUS
<1>4. /\ t \in TaskType /\ Valid(t)
      /\ t.pc = "paid" /\ t.paid = task[w].cert.code
      /\ t.cert = task[w].cert /\ t.answer = task[w].answer /\ t.script = task[w].script
  BY <1>1, <1>3 DEF TaskType, PCs, Stays, Valid, Issued, Cert
<1>5. task' = [task EXCEPT ![w] = t]
  BY <1>1, <1>3 DEF Accept
<1> QED BY <1>1, <1>4, <1>5 DEF Accept, At, Puts

LEMMA SetPaidIs ==
  ASSUME Typed, NEW w \in Worker, SetPaid(w)
  PROVE  /\ task[w].pc = "paid"
         /\ \E t : /\ Puts(w, t)
                   /\ Stays(w, t) /\ t.pc = "details"
         /\ paid' = task[w].paid /\ ready' = (ready \/ task[w].paid # None)
         /\ UNCHANGED <<plan, file, cache, probed, syncing, world>>
<1>1. Goto(w, "details") /\ "details" \in PCs \ {"apply", "activate"}
  BY DEF SetPaid, PCs
<1>2. \E t : Puts(w, t) /\ Stays(w, t) /\ t.pc = "details"
  BY <1>1, GoesIs
<1> QED BY <1>2 DEF SetPaid, At

LEMMA ReturnIs ==
  ASSUME Typed, NEW w \in Worker, Return(w)
  PROVE  \E t : Puts(w, t) /\ Stays(w, t) /\ t.pc \in {"idle", "booted", "verified", "read"}
<1>1. task[w] \in TaskType /\ Valid(task[w])
  BY DEF Typed
<1>2. PICK pc : pc = IF Refused(w) THEN task[w].err ELSE task[w].next
  OBVIOUS
<1>3. pc \in {"idle", "booted", "verified", "read"}
  BY <1>1, <1>2 DEF TaskType
<1>4. PICK t : t = [task[w] EXCEPT !.pc = pc, !.wiping = FALSE]
  OBVIOUS
<1>5. t \in TaskType /\ Stays(w, t) /\ t.pc = pc
  BY <1>1, <1>3, <1>4 DEF TaskType, PCs, Stays
<1>6. Valid(t)
  BY <1>1, <1>3, <1>5 DEF Stays, Valid, Issued
<1>7. task' = [task EXCEPT ![w] = t]
  BY <1>2, <1>4 DEF Return
<1> QED BY <1>3, <1>5, <1>6, <1>7 DEF Puts

LEMMA EnterIs ==
  ASSUME Typed, NEW w \in Worker, NEW err \in {"idle", "read"}, Enter(w, err)
  PROVE  \E t : Puts(w, t) /\ Stays(w, t) /\ t.pc \in {"register", "lock"}
<1>1. task[w] \in TaskType /\ Valid(task[w])
  BY DEF Typed
<1>2. PICK t : t = [task[w] EXCEPT !.pc = IF Local.code = None THEN "register" ELSE "lock",
                                   !.next = "idle", !.err = err]
  OBVIOUS
<1> DEFINE pc == IF Local.code = None THEN "register" ELSE "lock"
<1>p. pc \in {"register", "lock"} /\ {"register", "lock", "idle", "read"} \subseteq PCs
  BY DEF PCs
<1>3. t \in TaskType /\ Stays(w, t) /\ t.pc \in {"register", "lock"}
  <2> HIDE DEF pc
  <2>1. t = [task[w] EXCEPT !.pc = pc, !.next = "idle", !.err = err]
    BY <1>2 DEF pc
  <2> QED BY <1>1, <1>p, <2>1 DEF TaskType, Stays
<1>4. Valid(t)
  BY <1>1, <1>3 DEF Stays, Valid, Issued
<1>5. task' = [task EXCEPT ![w] = t]
  BY <1>2 DEF Enter
<1> QED BY <1>3, <1>4, <1>5 DEF Puts

LEMMA DetailsIs ==
  ASSUME Typed, NEW w \in Worker, Details(w)
  PROVE  /\ task[w].pc = "details"
         /\ \E t : /\ Puts(w, t)
                   /\ Stays(w, t) /\ t.pc \in {"unbind", "idle", "booted", "verified", "read"}
                   /\ syncing' = IF t.pc # "unbind" /\ syncing = w THEN None ELSE syncing
         /\ paid' = task[w].paid
         /\ UNCHANGED <<plan, file, cache, tampered, ready, probed, world>>
<1>1. CASE task[w].wiping
  <2>1. Goto(w, "unbind") /\ UNCHANGED syncing /\ "unbind" \in PCs \ {"apply", "activate"}
    BY <1>1 DEF Details, PCs
  <2>2. \E t : Puts(w, t) /\ Stays(w, t) /\ t.pc = "unbind"
    BY <2>1, GoesIs
  <2> QED BY <2>1, <2>2 DEF Details, At
<1>2. CASE ~task[w].wiping
  <2>1. Return(w)
    BY <1>2 DEF Details
  <2>2. \E t : Puts(w, t) /\ Stays(w, t) /\ t.pc \in {"idle", "booted", "verified", "read"}
    BY <2>1, ReturnIs
  <2>3. syncing' = IF syncing = w THEN None ELSE syncing
    BY <2>1 DEF Return
  <2> QED BY <2>2, <2>3 DEF Details, At
<1> QED BY <1>1, <1>2

LEMMA VerifiedIs ==
  ASSUME Typed, NEW w \in Worker, Verified(w)
  PROVE  /\ task[w].pc = "verified"
         /\ \E t : /\ Puts(w, t)
                   /\ Stays(w, t) /\ t.pc = "idle"
         /\ ready' = (ready \/ task[w].paid # None)
         /\ UNCHANGED <<plan, file, cache, paid, tampered, probed, syncing, world>>
<1>1. Goto(w, "idle") /\ "idle" \in PCs \ {"apply", "activate"}
  BY DEF Verified, PCs
<1>2. \E t : Puts(w, t) /\ Stays(w, t) /\ t.pc = "idle"
  BY <1>1, GoesIs
<1> QED BY <1>2 DEF Verified, At

LEMMA BootedIs ==
  ASSUME Typed, NEW w \in Worker, Booted(w)
  PROVE  /\ task[w].pc = "booted"
         /\ \E t : /\ Puts(w, t)
                   /\ Stays(w, t) /\ t.pc \in {"register", "lock"}
         /\ cache' = Local
         /\ ready' = TRUE
         /\ UNCHANGED <<plan, file, paid, tampered, probed, syncing, world>>
<1>1. Enter(w, "idle")
  BY DEF Booted
<1>2. \E t : Puts(w, t) /\ Stays(w, t) /\ t.pc \in {"register", "lock"}
  BY <1>1, EnterIs
<1> QED BY <1>1, <1>2 DEF Booted, Enter, At

LEMMA RefreshIs ==
  ASSUME Typed, NEW w \in Worker, Refresh(w)
  PROVE  /\ task[w].pc = "choose"
         /\ \E t : /\ Puts(w, t)
                   /\ Stays(w, t) /\ t.pc \in {"register", "lock"}
         /\ cache' = Local
         /\ UNCHANGED <<plan, file, paid, tampered, ready, probed, syncing, world>>
<1>1. Enter(w, "read")
  BY DEF Refresh
<1>2. \E t : Puts(w, t) /\ Stays(w, t) /\ t.pc \in {"register", "lock"}
  BY <1>1, EnterIs
<1> QED BY <1>1, <1>2 DEF Refresh, Enter, At

LEMMA LockIs ==
  ASSUME Typed, NEW w \in Worker, Lock(w)
  PROVE  /\ task[w].pc = "lock"
         /\ \E t : /\ Puts(w, t)
                   /\ t.pc \in {"idle", "booted", "verified", "read", "register", "ask"}
                   /\ t.paid = task[w].paid /\ t.script = task[w].script
                   /\ IF t.pc = "ask" THEN syncing = None /\ syncing' = w /\ t.cert = Local /\ Signed(Local)
                      ELSE UNCHANGED syncing /\ t.cert = task[w].cert
                   /\ t.pc \in {"booted", "verified"} => syncing # None
         /\ cache' \in {cache, Local}
         /\ UNCHANGED <<plan, file, paid, tampered, ready, probed, world>>
<1>1. task[w] \in TaskType /\ Valid(task[w])
  BY DEF Typed
<1>2. CASE ~(syncing = None /\ Signed(Local))
  <2>1. PICK pc \in {"idle", "booted", "verified", "read", "register"} :
          Goto(w, pc) /\ (pc \in {"booted", "verified"} => syncing # None)
    BY <1>1, <1>2 DEF Lock, TaskType
  <2>2. pc \in PCs \ {"apply", "activate"}
    BY DEF PCs
  <2>3. \E t : Puts(w, t) /\ Stays(w, t) /\ t.pc = pc
    BY <2>1, <2>2, GoesIs
  <2>4. UNCHANGED syncing /\ cache' \in {cache, Local}
    BY <1>2 DEF Lock
  <2> QED BY <2>1, <2>3, <2>4 DEF Lock, At, Stays
<1>3. CASE syncing = None /\ Signed(Local)
  <2>1. PICK t : t = [task[w] EXCEPT !.cert = Local, !.pc = "ask"]
    OBVIOUS
  <2>2. /\ t \in TaskType /\ Valid(t) /\ t.pc = "ask" /\ t.cert = Local
        /\ t.paid = task[w].paid /\ t.script = task[w].script
    BY <1>1, <2>1, LocalIs DEF TaskType, PCs, Valid, Issued
  <2>3. task' = [task EXCEPT ![w] = t] /\ syncing' = w /\ cache' = Local
    BY <1>3, <2>1 DEF Lock
  <2> QED BY <1>3, <2>2, <2>3 DEF Lock, At, Puts
<1> QED BY <1>2, <1>3

LEMMA AskIs ==
  ASSUME Typed, NEW w \in Worker, Ask(w)
  PROVE  /\ task[w].pc = "ask"
         /\ \E t : /\ Puts(w, t)
                   /\ t.pc = "apply" /\ t.paid = task[w].paid /\ t.script = task[w].script
                   /\ t.cert.code = task[w].cert.code
                   /\ t.answer = "gone" => t.cert.code \notin world.bound
         /\ UNCHANGED <<plan, file, cache, paid, tampered, ready, probed, syncing, world>>
<1>1. task[w] \in TaskType /\ Valid(task[w]) /\ task[w].cert \in Cert /\ world.epoch \in Nat
  BY DEF Typed, TaskType, WorldType
<1>2. PICK answer \in {"lost", "ok", "gone"} :
        /\ answer = "gone" => task[w].cert.code \notin world.bound
        /\ task' = [task EXCEPT ![w].answer = answer, ![w].pc = "apply",
                                ![w].cert = IF answer = "ok" THEN [@ EXCEPT !.epoch = world.epoch] ELSE @]
  BY DEF Ask
<1>3. PICK c : c = IF answer = "ok" THEN [task[w].cert EXCEPT !.epoch = world.epoch] ELSE task[w].cert
  OBVIOUS
<1>4. c \in Cert /\ Issued(c) /\ c.code = task[w].cert.code
  BY <1>1, <1>3 DEF Cert, Issued, Valid
<1>5. PICK t : t = [task[w] EXCEPT !.answer = answer, !.pc = "apply", !.cert = c]
  OBVIOUS
<1>6. /\ t \in TaskType /\ t.pc = "apply" /\ t.paid = task[w].paid /\ t.script = task[w].script
      /\ t.cert = c /\ t.answer = answer
  BY <1>1, <1>4, <1>5 DEF TaskType, PCs
<1>7. Valid(t)
  BY <1>2, <1>4, <1>6 DEF Valid, None
<1>8. task' = [task EXCEPT ![w] = t]
  BY <1>2, <1>3, <1>5
<1> QED BY <1>2, <1>4, <1>6, <1>7, <1>8 DEF Ask, At, Puts

LEMMA ApplyIs ==
  ASSUME Typed, NEW w \in Worker, Apply(w)
  PROVE  /\ task[w].pc = "apply"
         /\ \E t : /\ Puts(w, t) /\ Stays(w, t)
                   /\ \/ t.pc \in {"idle", "read"} /\ syncing' = None
                      \/ t.pc = "info" /\ task[w].answer = "gone" /\ UNCHANGED syncing
                      \/ t.pc = "write" /\ UNCHANGED syncing
         /\ UNCHANGED <<plan, file, cache, paid, tampered, ready, probed, world>>
<1>1. task[w] \in TaskType /\ Valid(task[w]) /\ task[w].pc = "apply"
  BY DEF Typed, Apply, At
<1>2. PICK pc \in {"idle", "read", "info", "write"} :
        /\ Goto(w, pc)
        /\ \/ pc \in {"idle", "read"} /\ syncing' = None
           \/ pc = "info" /\ task[w].answer = "gone" /\ UNCHANGED syncing
           \/ pc = "write" /\ UNCHANGED syncing
  <2>1. task[w].answer \in {"lost", "ok", "gone"} /\ task[w].err \in {"idle", "read"}
    BY <1>1 DEF TaskType, Valid
  <2>2. CASE task[w].answer = "lost"
    BY <2>1, <2>2 DEF Apply
  <2>3. CASE task[w].answer = "gone"
    BY <2>3 DEF Apply
  <2>4. CASE task[w].answer = "ok"
    BY <2>4 DEF Apply
  <2> QED BY <2>1, <2>2, <2>3, <2>4
<1>3. pc \in PCs \ {"apply", "activate"}
  BY DEF PCs
<1>4. \E t : Puts(w, t) /\ Stays(w, t) /\ t.pc = pc
  BY <1>2, <1>3, GoesIs
<1> QED BY <1>1, <1>2, <1>4 DEF Apply

LEMMA WriteIs ==
  ASSUME Typed, NEW w \in Worker, Write(w)
  PROVE  /\ task[w].pc = "write"
         /\ \E t : /\ Puts(w, t)
                   /\ Stays(w, t) /\ t.pc = "writeCache"
         /\ file' = task[w].cert
         /\ UNCHANGED <<plan, cache, paid, tampered, ready, probed, syncing, world>>
<1>1. Goto(w, "writeCache") /\ "writeCache" \in PCs \ {"apply", "activate"}
  BY DEF Write, PCs
<1>2. \E t : Puts(w, t) /\ Stays(w, t) /\ t.pc = "writeCache"
  BY <1>1, GoesIs
<1> QED BY <1>2 DEF Write, At

LEMMA WriteCacheIs ==
  ASSUME Typed, NEW w \in Worker, WriteCache(w)
  PROVE  /\ task[w].pc = "writeCache"
         /\ \E t : /\ Puts(w, t)
                   /\ t.pc = "paid" /\ t.paid = task[w].cert.code
                   /\ t.cert = task[w].cert /\ t.answer = task[w].answer /\ t.script = task[w].script
         /\ cache' = task[w].cert
         /\ UNCHANGED <<plan, file, paid, ready, probed, syncing, world>>
<1>1. /\ task[w] \in TaskType /\ Valid(task[w]) /\ file \in Cert /\ Issued(file)
      /\ Local \in Cert /\ Issued(Local) /\ world.epoch \in Nat
  BY LocalIs DEF Typed, WorldType
<1>3. PICK t : t = [task[w] EXCEPT !.paid = task[w].cert.code, !.pc = "paid"]
  OBVIOUS
<1>4. /\ t \in TaskType /\ Valid(t)
      /\ t.pc = "paid" /\ t.paid = task[w].cert.code
      /\ t.cert = task[w].cert /\ t.answer = task[w].answer /\ t.script = task[w].script
  BY <1>1, <1>3 DEF TaskType, PCs, Stays, Valid, Issued, Cert
<1>5. task' = [task EXCEPT ![w] = t]
  BY <1>1, <1>3 DEF WriteCache
<1> QED BY <1>1, <1>4, <1>5 DEF WriteCache, At, Puts

LEMMA ActivateIs ==
  ASSUME Typed, NEW w \in Worker, Activate(w)
  PROVE  /\ task[w].pc = "activate"
         /\ \E t : /\ Puts(w, t)
                   /\ t.pc \in {"idle", "write"} /\ t.paid = task[w].paid /\ t.script = task[w].script
         /\ world' \in WorldType /\ world'.epoch = world.epoch /\ world'.back = world.back
         /\ UNCHANGED <<plan, file, cache, paid, tampered, ready, probed, syncing>>
<1>1. /\ task[w] \in TaskType /\ Valid(task[w]) /\ task[w].pc = "activate" /\ task[w].code \in Codes
      /\ world \in WorldType /\ world.epoch \in Nat
  BY DEF Typed, Activate, At, Valid, WorldType
<1>2. CASE Goto(w, "idle")
  <2>1. \E t : Puts(w, t) /\ Stays(w, t) /\ t.pc = "idle"
    BY <1>2, GoesIs DEF PCs
  <2>2. world' \in WorldType /\ world'.epoch = world.epoch /\ world'.back = world.back
    BY <1>1 DEF Activate, WorldType
  <2> QED BY <1>1, <2>1, <2>2 DEF Activate, Stays
<1>3. CASE task' = [task EXCEPT ![w].cert = [code |-> task[w].code, epoch |-> world.epoch], ![w].pc = "write"]
  <2>1. PICK t : t = [task[w] EXCEPT !.cert = [code |-> task[w].code, epoch |-> world.epoch], !.pc = "write"]
    OBVIOUS
  <2>2. /\ t \in TaskType /\ t.cert.epoch = world.epoch /\ t.pc = "write"
        /\ t.paid = task[w].paid /\ t.script = task[w].script
    BY <1>1, <2>1 DEF TaskType, PCs, Cert
  <2>3. Valid(t)
    BY <1>1, <2>2 DEF Valid, Issued
  <2>4. task' = [task EXCEPT ![w] = t]
    BY <1>3, <2>1
  <2>5. world' \in WorldType /\ world'.epoch = world.epoch /\ world'.back = world.back
    BY <1>1 DEF Activate, WorldType
  <2> QED BY <1>1, <2>2, <2>3, <2>4, <2>5 DEF Activate, Puts
<1> QED BY <1>2, <1>3 DEF Activate

LEMMA RegisterIs ==
  ASSUME Typed, NEW w \in Worker, Register(w)
  PROVE  /\ task[w].pc = "register"
         /\ \E t : /\ Puts(w, t)
                   /\ t.pc \in {"idle", "write"} /\ t.paid = task[w].paid /\ t.script = task[w].script
                   /\ t.cert = task[w].cert \/ t.cert.code \in world.bound
         /\ UNCHANGED <<plan, file, cache, paid, tampered, ready, probed, syncing, world>>
<1>1. task[w] \in TaskType /\ Valid(task[w]) /\ world.epoch \in Nat /\ world.bound \subseteq Codes
  BY DEF Typed, WorldType
<1>2. CASE Goto(w, "idle")
  <2>1. \E t : Puts(w, t) /\ Stays(w, t) /\ t.pc = "idle"
    BY <1>2, GoesIs DEF PCs
  <2> QED BY <2>1 DEF Register, Stays, At
<1>3. ASSUME NEW code \in world.bound,
             task' = [task EXCEPT ![w].cert = [code |-> code, epoch |-> world.epoch], ![w].pc = "write"]
      PROVE  \E t : /\ Puts(w, t)
                    /\ t.pc = "write" /\ t.paid = task[w].paid /\ t.script = task[w].script
                    /\ t.cert.code \in world.bound
  <2>1. PICK t : t = [task[w] EXCEPT !.cert = [code |-> code, epoch |-> world.epoch], !.pc = "write"]
    OBVIOUS
  <2>2. /\ t \in TaskType /\ t.cert.epoch = world.epoch /\ t.cert.code = code /\ t.pc = "write"
        /\ t.paid = task[w].paid /\ t.script = task[w].script
    BY <1>1, <2>1 DEF TaskType, PCs, Cert
  <2>3. Valid(t)
    BY <1>1, <2>2 DEF Valid, Issued
  <2>4. task' = [task EXCEPT ![w] = t]
    BY <1>3, <2>1
  <2> QED BY <2>2, <2>3, <2>4 DEF Puts
<1> QED BY <1>2, <1>3 DEF Register, At

LEMMA InfoIs ==
  ASSUME Typed, NEW w \in Worker, Info(w)
  PROVE  /\ task[w].pc = "info"
         /\ \E t : /\ Puts(w, t)
                   /\ t.pc = "forget"
                   /\ t.cert = task[w].cert /\ t.answer = task[w].answer /\ t.script = task[w].script
         /\ cache' = Local
         /\ UNCHANGED <<plan, file, paid, tampered, ready, probed, syncing, world>>
<1>1. /\ task[w] \in TaskType /\ Valid(task[w]) /\ file \in Cert /\ Issued(file)
      /\ Local \in Cert /\ Issued(Local) /\ world.epoch \in Nat
  BY LocalIs DEF Typed, WorldType
<1>3. PICK t : t = [task[w] EXCEPT !.code = Local.code, !.paid = None, !.wiping = TRUE, !.pc = "forget"]
  OBVIOUS
<1>4. /\ t \in TaskType /\ Valid(t)
      /\ t.pc = "forget"
      /\ t.cert = task[w].cert /\ t.answer = task[w].answer /\ t.script = task[w].script
  BY <1>1, <1>3 DEF TaskType, PCs, Stays, Valid, Issued, Cert
<1>5. task' = [task EXCEPT ![w] = t]
  BY <1>1, <1>3 DEF Info
<1> QED BY <1>1, <1>4, <1>5 DEF Info, At, Puts

LEMMA ForgetIs ==
  ASSUME Typed, NEW w \in Worker, Forget(w)
  PROVE  /\ task[w].pc = "forget"
         /\ \E t : /\ Puts(w, t)
                   /\ Stays(w, t) /\ t.pc = "remove"
         /\ cache' = NoCert
         /\ UNCHANGED <<plan, file, paid, tampered, ready, probed, syncing, world>>
<1>1. Goto(w, "remove") /\ "remove" \in PCs \ {"apply", "activate"}
  BY DEF Forget, PCs
<1>2. \E t : Puts(w, t) /\ Stays(w, t) /\ t.pc = "remove"
  BY <1>1, GoesIs
<1> QED BY <1>2 DEF Forget, At

LEMMA RemoveIs ==
  ASSUME Typed, NEW w \in Worker, Remove(w)
  PROVE  /\ task[w].pc = "remove"
         /\ \E t : /\ Puts(w, t)
                   /\ Stays(w, t) /\ t.pc = "paid"
         /\ file' = NoCert
         /\ UNCHANGED <<plan, cache, paid, tampered, ready, probed, syncing, world>>
<1>1. Goto(w, "paid") /\ "paid" \in PCs \ {"apply", "activate"}
  BY DEF Remove, PCs
<1>2. \E t : Puts(w, t) /\ Stays(w, t) /\ t.pc = "paid"
  BY <1>1, GoesIs
<1> QED BY <1>2 DEF Remove, At

LEMMA UnbindIs ==
  ASSUME Typed, NEW w \in Worker, Unbind(w)
  PROVE  /\ task[w].pc = "unbind"
         /\ \E t : /\ Puts(w, t)
                   /\ Stays(w, t) /\ t.pc \in {"idle", "booted", "verified", "read"}
         /\ syncing' = IF syncing = w THEN None ELSE syncing
         /\ world' \in WorldType /\ world' = [world EXCEPT !.unbinds = world'.unbinds]
         /\ UNCHANGED <<plan, file, cache, paid, tampered, ready, probed>>
<1>1. Return(w) /\ task[w] \in TaskType /\ world \in WorldType
  BY DEF Unbind, Typed
<1>2. \E t : Puts(w, t) /\ Stays(w, t) /\ t.pc \in {"idle", "booted", "verified", "read"}
  BY <1>1, ReturnIs
<1>3. {task[w].code} \ {None} \subseteq Codes
  BY <1>1 DEF TaskType
<1>4. PICK u : u = world.unbinds \cup ({task[w].code} \ {None})
  OBVIOUS
<1>5. u \in SUBSET Codes /\ world' = [world EXCEPT !.unbinds = u]
  BY <1>1, <1>3, <1>4 DEF WorldType, Unbind
<1>6. world' \in WorldType /\ world'.unbinds = u
  BY <1>1, <1>5 DEF WorldType
<1> QED BY <1>1, <1>2, <1>5, <1>6 DEF Unbind, Return, At

LEMMA StepTyped == ASSUME Typed, NEW w \in Worker, Step(w) PROVE Typed'
<1> USE DEF Typed, Issued
<1>0. /\ task[w] \in TaskType /\ Valid(task[w]) /\ Local \in Cert /\ Issued(Local)
      /\ task[w].cert \in Cert /\ task[w].cert.epoch <= world.epoch
      /\ task[w].paid \in Codes \cup {None} /\ NoCert \in Cert /\ NoCert.epoch = 0
      /\ world.epoch \in Nat
  BY LocalIs DEF TaskType, Valid, Cert, NoCert, WorldType
<1>1. CASE Take(w)
  BY <1>1, TakeIs, PutsIs
<1>2. CASE Probe(w)
  BY <1>0, <1>2, ProbeIs, PutsIs DEF Cert
<1>3. CASE Read(w)
  BY <1>0, <1>3, ReadIs, PutsIs DEF Cert
<1>4. CASE Judge(w)
  <2>1. paid' \in {None, paid}
    BY <1>4, JudgeIs
  <2>2. PICK t : Puts(w, t)
    BY <1>4, JudgeIs
  <2>3. UNCHANGED <<plan, file, cache, ready, probed, syncing, world>>
    BY <1>4, JudgeIs
  <2> QED BY <1>0, <2>1, <2>2, <2>3, PutsIs
<1>5. CASE Stamp(w)
  BY <1>0, <1>5, StampIs, PutsIs DEF Cert
<1>6. CASE StampCache(w)
  BY <1>0, <1>6, StampCacheIs, PutsIs DEF Cert
<1>7. CASE Accept(w)
  BY <1>0, <1>7, AcceptIs, PutsIs DEF Cert
<1>8. CASE SetPaid(w)
  <2>1. PICK t : Puts(w, t)
    BY <1>8, SetPaidIs
  <2>2. /\ paid' = task[w].paid /\ ready' \in BOOLEAN
        /\ UNCHANGED <<plan, file, cache, probed, syncing, world>>
    BY <1>8, SetPaidIs
  <2> QED BY <1>0, <2>1, <2>2, PutsIs
<1>9. CASE Details(w)
  BY <1>0, <1>9, DetailsIs, PutsIs DEF Cert
<1>10. CASE Verified(w)
  BY <1>0, <1>10, VerifiedIs, PutsIs DEF Cert
<1>11. CASE Booted(w)
  BY <1>0, <1>11, BootedIs, PutsIs DEF Cert
<1>12. CASE Refresh(w)
  BY <1>0, <1>12, RefreshIs, PutsIs DEF Cert
<1>13. CASE Lock(w)
  BY <1>0, <1>13, LockIs, PutsIs DEF Cert
<1>14. CASE Ask(w)
  BY <1>0, <1>14, AskIs, PutsIs DEF Cert
<1>15. CASE Apply(w)
  BY <1>0, <1>15, ApplyIs, PutsIs DEF Cert
<1>16. CASE Write(w)
  BY <1>0, <1>16, WriteIs, PutsIs DEF Cert
<1>17. CASE WriteCache(w)
  BY <1>0, <1>17, WriteCacheIs, PutsIs DEF Cert
<1>18. CASE Activate(w)
  BY <1>0, <1>18, ActivateIs, PutsIs DEF Cert
<1>19. CASE Register(w)
  BY <1>0, <1>19, RegisterIs, PutsIs DEF Cert
<1>20. CASE Info(w)
  BY <1>0, <1>20, InfoIs, PutsIs DEF Cert
<1>21. CASE Forget(w)
  BY <1>0, <1>21, ForgetIs, PutsIs DEF Cert
<1>22. CASE Remove(w)
  BY <1>0, <1>22, RemoveIs, PutsIs DEF Cert
<1>23. CASE Unbind(w)
  <2>1. world' \in WorldType /\ world'.epoch = world.epoch /\ syncing' \in {None, syncing}
    BY <1>23, UnbindIs DEF WorldType
  <2> QED BY <1>0, <1>23, <2>1, UnbindIs, PutsIs DEF Cert
<1> QED BY <1>1, <1>2, <1>3, <1>4, <1>5, <1>6, <1>7, <1>8, <1>9, <1>10, <1>11, <1>12, <1>13, <1>14, <1>15, <1>16, <1>17, <1>18, <1>19, <1>20, <1>21, <1>22, <1>23 DEF Step

(* A step of none of the goroutines, as the licence sees it.                *)
Elsewhere ==
  /\ UNCHANGED <<plan, file, syncing, task>>
  /\ cache' = cache \/ (Quiet /\ cache' = [code |-> Unread, epoch |-> 0])
  /\ paid' \in {paid, None} /\ ready' \in BOOLEAN
  /\ UNCHANGED <<paid, ready>> \/ (Quiet /\ ~ready') \/ ~(raising \subseteq {FALSE})
  /\ world' \in WorldType /\ world'.bound \subseteq world.bound
  /\ (world'.epoch = world.epoch /\ world'.back = world.back) \/ world'.epoch > world.epoch \/ world'.back
  /\ world'.epoch >= world.epoch

LEMMA WorldIs == ASSUME Typed, World PROVE Elsewhere
<1>1. /\ world \in WorldType /\ world.epoch \in Nat /\ ready \in BOOLEAN
      /\ world.bound \subseteq Codes /\ world.gone \subseteq Codes /\ world.unbinds \subseteq Codes
  BY DEF Typed, WorldType
<1>2. UNCHANGED <<plan, file, syncing, task, cache, paid, ready>>
  BY DEF World
<1>3. ASSUME world' \in WorldType, world'.bound \subseteq world.bound,
             UNCHANGED <<world.epoch, world.back>>
      PROVE  Elsewhere
  BY <1>1, <1>2, <1>3 DEF Elsewhere
<1>4. CASE Deliver
  <2>1. PICK code \in world.unbinds :
          \/ world' = [world EXCEPT !.unbinds = @ \ {code}, !.bound = @ \ {code}]
          \/ world' = [world EXCEPT !.unbinds = @ \ {code}]
    BY <1>4 DEF Deliver
  <2>2. PICK unbinds \in SUBSET Codes : unbinds = world.unbinds \ {code}
    BY <1>1
  <2>3. CASE world' = [world EXCEPT !.unbinds = @ \ {code}]
    <3>1. world' = [world EXCEPT !.unbinds = unbinds]
      BY <2>2, <2>3
    <3>2. world' \in WorldType /\ world'.bound = world.bound /\ UNCHANGED <<world.epoch, world.back>>
      BY <1>1, <3>1 DEF WorldType
    <3> QED BY <1>3, <3>2
  <2>4. CASE world' = [world EXCEPT !.unbinds = @ \ {code}, !.bound = @ \ {code}]
    <3>1. PICK bound \in SUBSET Codes : bound = world.bound \ {code}
      BY <1>1
    <3>2. world' = [world EXCEPT !.unbinds = unbinds, !.bound = bound]
      BY <2>2, <2>4, <3>1
    <3>3. world' \in WorldType /\ world'.bound = bound /\ UNCHANGED <<world.epoch, world.back>>
      BY <1>1, <3>2 DEF WorldType
    <3> QED BY <1>3, <3>1, <3>3
  <2> QED BY <2>1, <2>3, <2>4
<1>5. CASE Revoke
  <2>1. PICK code \in world.bound : world' = [world EXCEPT !.bound = @ \ {code}, !.gone = @ \cup {code}]
    BY <1>5 DEF Revoke
  <2>2. PICK bound \in SUBSET Codes, gone \in SUBSET Codes :
          bound = world.bound \ {code} /\ gone = world.gone \cup {code}
    <3>1. world.bound \ {code} \in SUBSET Codes /\ world.gone \cup {code} \in SUBSET Codes
      BY <1>1
    <3> QED BY <3>1
  <2>3. world' = [world EXCEPT !.bound = bound, !.gone = gone]
    BY <2>1, <2>2
  <2>4. world' \in WorldType /\ world'.bound = bound /\ UNCHANGED <<world.epoch, world.back>>
    BY <1>1, <2>3 DEF WorldType
  <2> QED BY <1>3, <2>2, <2>4
<1>6. CASE Lapse
  BY <1>1, <1>2, <1>6 DEF Lapse, WorldType, Elsewhere
<1>7. CASE TurnBack
  <2>1. world' \in WorldType /\ world'.bound = world.bound /\ world'.epoch = world.epoch /\ world'.back
    BY <1>1, <1>7 DEF TurnBack, WorldType
  <2> QED BY <1>1, <1>2, <2>1 DEF Elsewhere
<1> QED BY <1>4, <1>5, <1>6, <1>7 DEF World

LEMMA NextIs ==
  ASSUME Typed, [Next]_allVars
  PROVE  Elsewhere \/ \E w \in Worker : Step(w)
<1>1. world \in WorldType /\ world.epoch \in Nat /\ ready \in BOOLEAN
  BY DEF Typed, WorldType
<1>2. CASE UNCHANGED licenceVars
  BY <1>1, <1>2 DEF licenceVars, Elsewhere
<1>3. CASE SetClockTampered
  <2>1. PICK flag \in raising :
          /\ paid' = IF flag THEN None ELSE paid
          /\ UNCHANGED <<plan, file, cache, ready, probed, syncing, task, world>>
    BY <1>3 DEF SetClockTampered
  <2>2. CASE flag = FALSE
    BY <1>1, <2>1, <2>2 DEF Elsewhere
  <2>3. CASE flag # FALSE
    <3>1. ~(raising \subseteq {FALSE})
      BY <2>3
    <3>2. paid' \in {paid, None}
      BY <2>1
    <3>3. UNCHANGED <<plan, file, cache, ready, syncing, task, world>>
      BY <2>1
    <3>4. world' \in WorldType /\ world'.epoch >= world.epoch /\ ready' \in BOOLEAN
      BY <1>1, <3>3
    <3> QED BY <3>1, <3>2, <3>3, <3>4 DEF Elsewhere
  <2> QED BY <2>2, <2>3
<1>4. CASE Restart
  <2>1. /\ UNCHANGED <<plan, file, syncing, task, world>> /\ Quiet
        /\ cache' = [code |-> Unread, epoch |-> 0] /\ paid' = None
    BY <1>4 DEF Restart
  <2>2. ready' \in BOOLEAN /\ ~ready'
    BY <1>4 DEF Restart
  <2>3. world' \in WorldType /\ world'.epoch >= world.epoch
    BY <1>1, <2>1
  <2> QED BY <2>1, <2>2, <2>3 DEF Elsewhere
<1>5. CASE World
  BY <1>5, WorldIs
<1>6. CASE \E w \in Worker : Reaching(w) \/ Apart(w)
  BY <1>6 DEF Reaching, PaidDetails, Apart, Step
<1>7. CASE LimiterNext
  <2>1. CASE GetStatus \/ Tick \/ Transfer \/ StartFetch \/ EndFetch \/ Hour \/ Adjust \/ Identify
    BY <1>2, <2>1 DEF GetStatus, Tick, Transfer, StartFetch, EndFetch, Hour, Adjust, Identify
  <2>2. CASE \E s \in syncs : Reach(s) \/ Merge(s) \/ Lose(s)
    BY <1>2, <2>2 DEF Reach, Merge, Lose
  <2> QED BY <1>3, <1>4, <1>7, <2>1, <2>2 DEF LimiterNext
<1>8. CASE UNCHANGED allVars
  BY <1>2, <1>8 DEF allVars
<1> QED BY <1>5, <1>6, <1>7, <1>8 DEF Next

LEMMA PlanStays == ASSUME Typed, [Next]_allVars PROVE plan' = plan
<1>1. CASE Elsewhere
  BY <1>1 DEF Elsewhere
<1>2. ASSUME NEW w \in Worker, Step(w) PROVE plan' = plan
  BY <1>2 DEF Step, Take, Probe, Read, Judge, Stamp, StampCache, Accept, SetPaid, Details, Verified,
              Booted, Refresh, Lock, Ask, Apply, Write, WriteCache, Activate, Register, Info,
              Forget, Remove, Unbind
<1> QED BY <1>1, <1>2, NextIs

LEMMA TypedStep == ASSUME Typed, [Next]_allVars PROVE Typed'
<1>1. CASE Elsewhere
  <2>1. UNCHANGED <<plan, file, syncing, task>> /\ world' \in WorldType /\ world'.epoch >= world.epoch
    BY <1>1 DEF Elsewhere
  <2>2. world.epoch \in Nat /\ world'.epoch \in Nat
    BY <2>1 DEF Typed, WorldType
  <2>3. \A cert : cert.epoch \in Nat /\ Issued(cert) => Issued(cert)'
    BY <2>1, <2>2 DEF Issued
  <2>4. \A w \in Worker : task[w] \in TaskType /\ task[w].cert.epoch \in Nat
    BY DEF Typed, TaskType, Cert
  <2>5. Worker' = Worker /\ (\A w \in Worker : Valid(task[w]))'
    BY <2>1, <2>3, <2>4 DEF Typed, Valid, Worker
  <2>6. cache' \in [code: Codes \cup {None, Unread}, epoch: Nat] /\ Issued(cache)'
    <3>1. CASE cache' = cache
      BY <2>1, <2>2, <3>1 DEF Typed, Issued
    <3>2. CASE cache' = [code |-> Unread, epoch |-> 0]
      BY <2>2, <3>2 DEF Issued
    <3> QED BY <1>1, <3>1, <3>2 DEF Elsewhere
  <2>7. paid' \in Codes \cup {None} /\ ready' \in BOOLEAN
    BY <1>1 DEF Elsewhere, Typed
  <2>8. file' \in Cert /\ Issued(file)'
    BY <2>1, <2>3 DEF Typed, Cert
  <2> QED BY <2>1, <2>5, <2>6, <2>7, <2>8 DEF Typed
<1> QED BY <1>1, NextIs, StepTyped

LEMMA TypedInit == Init => Typed
<1> SUFFICES ASSUME Init PROVE Typed
  OBVIOUS
<1>1. /\ plan \in Plans /\ file = plan.file /\ cache = [code |-> Unread, epoch |-> 0]
      /\ paid = None /\ ready = FALSE /\ syncing = None
      /\ task = [w \in Worker |-> NewTask(plan.script[w])]
      /\ world = [bound |-> plan.bound, gone |-> {}, unbinds |-> {}, epoch |-> 0, back |-> FALSE]
  BY DEF Init, LicenceInit, Worker
<1>2. /\ \A w \in Worker : plan.script[w] \in Seq(Ops)
      /\ plan.file \in [code: Codes \cup {None}, epoch: {0}] /\ plan.bound \subseteq Codes
  BY <1>1, PlansAssumption DEF Worker
<1>3. world \in WorldType /\ world.epoch = 0
  BY <1>1, <1>2 DEF WorldType
<1>4. file \in Cert /\ file.epoch = 0
  BY <1>1, <1>2 DEF Cert
<1>5. \A w \in Worker : task[w] \in TaskType /\ Valid(task[w])
  <2> SUFFICES ASSUME NEW w \in Worker PROVE task[w] \in TaskType /\ Valid(task[w])
    OBVIOUS
  <2>1. task[w] = NewTask(plan.script[w]) /\ NoCert \in Cert /\ NoCert.epoch = 0
    BY <1>1 DEF NoCert, Cert
  <2>2. task[w] \in TaskType /\ task[w].pc = "idle" /\ task[w].cert = NoCert
    BY <1>2, <2>1 DEF NewTask, TaskType, PCs
  <2> QED BY <1>3, <2>1, <2>2 DEF Valid, Issued
<1>6. cache \in [code: Codes \cup {None, Unread}, epoch: Nat]
  BY <1>1
<1>7. Issued(file) /\ Issued(cache)
  BY <1>1, <1>3, <1>4 DEF Issued
<1>8. task \in [Worker -> TaskType]
  BY <1>1, <1>5
<1> QED BY <1>1, <1>3, <1>4, <1>5, <1>6, <1>7, <1>8 DEF Typed

-----------------------------------------------------------------------------
(* Where a sync stands *)

SyncPCs == {"ask", "apply", "write", "writeCache", "paid", "details", "info", "forget", "remove", "unbind"}

(* The lock of a sync is with the one that asks, and no longer than that.   *)
Held ==
  \A w \in Worker :
    /\ syncing = w => task[w].pc \in SyncPCs
    /\ task[w].pc \in {"ask", "apply"} => syncing = w /\ Signed(task[w].cert)

LEMMA WorkersAre == ASSUME Typed PROVE None \notin Worker
BY PlansAssumption DEF Typed, Worker

LEMMA StepHeld == ASSUME Typed, Held, NEW w \in Worker, Step(w) PROVE Held'
<1>1. CASE Take(w)
  BY WorkersAre, <1>1, TakeIs, PutsIs DEF Held, SyncPCs, Signed, Stays
<1>2. CASE Probe(w)
  <2>1. PICK t : Puts(w, t) /\ Stays(w, t) /\ t.pc = "read"
    BY <1>2, ProbeIs
  <2>2. task[w].pc = "probe" /\ UNCHANGED <<plan, file, cache, paid, ready, syncing, world>>
    BY <1>2, ProbeIs
  <2> QED BY WorkersAre, <2>1, <2>2, PutsIs DEF Held, SyncPCs, Signed, Stays
<1>3. CASE Read(w)
  BY WorkersAre, <1>3, ReadIs, PutsIs DEF Held, SyncPCs, Signed, Stays
<1>4. CASE Judge(w)
  BY WorkersAre, <1>4, JudgeIs, PutsIs DEF Held, SyncPCs, Signed, Stays
<1>5. CASE Stamp(w)
  BY WorkersAre, <1>5, StampIs, PutsIs DEF Held, SyncPCs, Signed, Stays
<1>6. CASE StampCache(w)
  BY WorkersAre, <1>6, StampCacheIs, PutsIs DEF Held, SyncPCs, Signed, Stays
<1>7. CASE Accept(w)
  BY WorkersAre, <1>7, AcceptIs, PutsIs DEF Held, SyncPCs, Signed, Stays
<1>8. CASE SetPaid(w)
  BY WorkersAre, <1>8, SetPaidIs, PutsIs DEF Held, SyncPCs, Signed, Stays
<1>9. CASE Details(w)
  BY WorkersAre, <1>9, DetailsIs, PutsIs DEF Held, SyncPCs, Signed, Stays
<1>10. CASE Verified(w)
  BY WorkersAre, <1>10, VerifiedIs, PutsIs DEF Held, SyncPCs, Signed, Stays
<1>11. CASE Booted(w)
  <2>1. PICK t : Puts(w, t) /\ Stays(w, t) /\ t.pc \in {"register", "lock"}
    BY <1>11, BootedIs
  <2>2. task[w].pc = "booted" /\ cache' = Local /\ UNCHANGED <<plan, file, paid, syncing, world>>
    BY <1>11, BootedIs
  <2> QED BY WorkersAre, <2>1, <2>2, PutsIs DEF Held, SyncPCs, Signed, Stays
<1>12. CASE Refresh(w)
  BY WorkersAre, <1>12, RefreshIs, PutsIs DEF Held, SyncPCs, Signed, Stays
<1>13. CASE Lock(w)
  BY WorkersAre, <1>13, LockIs, PutsIs DEF Held, SyncPCs, Signed, Stays
<1>14. CASE Ask(w)
  BY WorkersAre, <1>14, AskIs, PutsIs DEF Held, SyncPCs, Signed, Stays
<1>15. CASE Apply(w)
  BY WorkersAre, <1>15, ApplyIs, PutsIs DEF Held, SyncPCs, Signed, Stays
<1>16. CASE Write(w)
  BY WorkersAre, <1>16, WriteIs, PutsIs DEF Held, SyncPCs, Signed, Stays
<1>17. CASE WriteCache(w)
  BY WorkersAre, <1>17, WriteCacheIs, PutsIs DEF Held, SyncPCs, Signed, Stays
<1>18. CASE Activate(w)
  BY WorkersAre, <1>18, ActivateIs, PutsIs DEF Held, SyncPCs, Signed, Stays
<1>19. CASE Register(w)
  BY WorkersAre, <1>19, RegisterIs, PutsIs DEF Held, SyncPCs, Signed, Stays
<1>20. CASE Info(w)
  BY WorkersAre, <1>20, InfoIs, PutsIs DEF Held, SyncPCs, Signed, Stays
<1>21. CASE Forget(w)
  BY WorkersAre, <1>21, ForgetIs, PutsIs DEF Held, SyncPCs, Signed, Stays
<1>22. CASE Remove(w)
  BY WorkersAre, <1>22, RemoveIs, PutsIs DEF Held, SyncPCs, Signed, Stays
<1>23. CASE Unbind(w)
  BY WorkersAre, <1>23, UnbindIs, PutsIs DEF Held, SyncPCs, Signed, Stays
<1> QED BY <1>1, <1>2, <1>3, <1>4, <1>5, <1>6, <1>7, <1>8, <1>9, <1>10, <1>11, <1>12, <1>13, <1>14, <1>15, <1>16, <1>17, <1>18, <1>19, <1>20, <1>21, <1>22, <1>23 DEF Step

(* A sync that was told no, up to the removal of the file.                  *)
Wiping(w) ==
  \/ task[w].pc = "apply" /\ task[w].answer = "gone"
  \/ syncing = w /\ task[w].pc \in {"info", "forget", "remove"}
Gone ==
  \A w \in Worker : Wiping(w) => Signed(task[w].cert) /\ task[w].cert.code \notin world.bound

(* One operation at a time: what it works on is the certificate on disk.    *)
Solo(p) == \E w \in DOMAIN p.script : DOMAIN p.script = {w}
Whole ==
  \A w \in Worker :
    /\ task[w].pc \in {"judge", "stamp", "stampCache", "accept", "writeCache"} => task[w].cert = file
    /\ task[w].pc \notin {"stampCache", "writeCache", "remove"} => cache.code \in {Unread, file.code}
    /\ task[w].pc = "remove" => cache.code = None
    /\ task[w].pc \in {"ask", "apply"} \/ Wiping(w) => task[w].cert.code = file.code

LEMMA StepWhole ==
  ASSUME Typed, Held, Whole, Solo(plan), NEW w \in Worker, Step(w)
  PROVE  Whole'
<1>0. /\ \A v \in Worker : v = w
      /\ Local.code = IF cache.code = Unread THEN file.code ELSE cache.code
      /\ NoCert.code = None
  BY DEF Solo, Worker, Local, NoCert
<1>1. CASE Take(w)
  BY WorkersAre, <1>0, <1>1, TakeIs, PutsIs DEF Whole, Wiping, Held, SyncPCs, Stays
<1>2. CASE Probe(w)
  <2>1. PICK t : Puts(w, t) /\ Stays(w, t) /\ t.pc = "read"
    BY <1>2, ProbeIs
  <2>2. task[w].pc = "probe" /\ UNCHANGED <<plan, file, cache, paid, ready, syncing, world>>
    BY <1>2, ProbeIs
  <2> QED BY WorkersAre, <1>0, <2>1, <2>2, PutsIs DEF Whole, Wiping, Held, SyncPCs, Stays
<1>3. CASE Read(w)
  BY WorkersAre, <1>0, <1>3, ReadIs, PutsIs DEF Whole, Wiping, Held, SyncPCs, Stays
<1>4. CASE Judge(w)
  BY WorkersAre, <1>0, <1>4, JudgeIs, PutsIs DEF Whole, Wiping, Held, SyncPCs, Stays
<1>5. CASE Stamp(w)
  BY WorkersAre, <1>0, <1>5, StampIs, PutsIs DEF Whole, Wiping, Held, SyncPCs, Stays
<1>6. CASE StampCache(w)
  BY WorkersAre, <1>0, <1>6, StampCacheIs, PutsIs DEF Whole, Wiping, Held, SyncPCs, Stays
<1>7. CASE Accept(w)
  BY WorkersAre, <1>0, <1>7, AcceptIs, PutsIs DEF Whole, Wiping, Held, SyncPCs, Stays
<1>8. CASE SetPaid(w)
  BY WorkersAre, <1>0, <1>8, SetPaidIs, PutsIs DEF Whole, Wiping, Held, SyncPCs, Stays
<1>9. CASE Details(w)
  BY WorkersAre, <1>0, <1>9, DetailsIs, PutsIs DEF Whole, Wiping, Held, SyncPCs, Stays
<1>10. CASE Verified(w)
  BY WorkersAre, <1>0, <1>10, VerifiedIs, PutsIs DEF Whole, Wiping, Held, SyncPCs, Stays
<1>11. CASE Booted(w)
  <2>1. PICK t : Puts(w, t) /\ Stays(w, t) /\ t.pc \in {"register", "lock"}
    BY <1>11, BootedIs
  <2>2. task[w].pc = "booted" /\ cache' = Local /\ UNCHANGED <<plan, file, paid, syncing, world>>
    BY <1>11, BootedIs
  <2> QED BY WorkersAre, <1>0, <2>1, <2>2, PutsIs DEF Whole, Wiping, Held, SyncPCs, Stays
<1>12. CASE Refresh(w)
  BY WorkersAre, <1>0, <1>12, RefreshIs, PutsIs DEF Whole, Wiping, Held, SyncPCs, Stays
<1>13. CASE Lock(w)
  BY WorkersAre, <1>0, <1>13, LockIs, PutsIs DEF Whole, Wiping, Held, SyncPCs, Stays
<1>14. CASE Ask(w)
  BY WorkersAre, <1>0, <1>14, AskIs, PutsIs DEF Whole, Wiping, Held, SyncPCs, Stays
<1>15. CASE Apply(w)
  BY WorkersAre, <1>0, <1>15, ApplyIs, PutsIs DEF Whole, Wiping, Held, SyncPCs, Stays
<1>16. CASE Write(w)
  BY WorkersAre, <1>0, <1>16, WriteIs, PutsIs DEF Whole, Wiping, Held, SyncPCs, Stays
<1>17. CASE WriteCache(w)
  BY WorkersAre, <1>0, <1>17, WriteCacheIs, PutsIs DEF Whole, Wiping, Held, SyncPCs, Stays
<1>18. CASE Activate(w)
  BY WorkersAre, <1>0, <1>18, ActivateIs, PutsIs DEF Whole, Wiping, Held, SyncPCs, Stays
<1>19. CASE Register(w)
  BY WorkersAre, <1>0, <1>19, RegisterIs, PutsIs DEF Whole, Wiping, Held, SyncPCs, Stays
<1>20. CASE Info(w)
  BY WorkersAre, <1>0, <1>20, InfoIs, PutsIs DEF Whole, Wiping, Held, SyncPCs, Stays
<1>21. CASE Forget(w)
  BY WorkersAre, <1>0, <1>21, ForgetIs, PutsIs DEF Whole, Wiping, Held, SyncPCs, Stays
<1>22. CASE Remove(w)
  BY WorkersAre, <1>0, <1>22, RemoveIs, PutsIs DEF Whole, Wiping, Held, SyncPCs, Stays
<1>23. CASE Unbind(w)
  BY WorkersAre, <1>0, <1>23, UnbindIs, PutsIs DEF Whole, Wiping, Held, SyncPCs, Stays
<1> QED BY <1>1, <1>2, <1>3, <1>4, <1>5, <1>6, <1>7, <1>8, <1>9, <1>10, <1>11, <1>12, <1>13, <1>14, <1>15, <1>16, <1>17, <1>18, <1>19, <1>20, <1>21, <1>22, <1>23 DEF Step

(* Several, but about one code, which was activated before.                 *)
OneCode(p) ==
  \E code \in Codes :
    /\ p.file.code \in {None, code} /\ p.bound \subseteq {code}
    /\ \A w \in DOMAIN p.script : p.script[w] \in Seq(Ops \ Codes)
About(code) ==
  /\ file.code \in {None, code} /\ cache.code \in {None, Unread, code} /\ world.bound \subseteq {code}
  /\ \A w \in Worker :
       /\ task[w].cert.code \in {None, code}
       /\ task[w].script \in Seq(Ops \ Codes)
       /\ task[w].pc # "activate"

LEMMA StepAbout ==
  ASSUME Typed, NEW code \in Codes, About(code), NEW w \in Worker, Step(w)
  PROVE  About(code)'
<1>0. /\ Local.code \in {None, code} /\ NoCert.code = None /\ world \in WorldType
      /\ task[w].script # <<>> =>
           Head(task[w].script) \notin Codes /\ Tail(task[w].script) \in Seq(Ops \ Codes)
  BY LocalIs, HeadTailProperties DEF About, Local, NoCert, Cert, Typed
<1>1. CASE Take(w)
  <2>1. PICK t : /\ Puts(w, t) /\ t.cert = NoCert /\ task[w].script # <<>>
                 /\ t.script = Tail(task[w].script)
                 /\ t.pc = "activate" => Head(task[w].script) \in Codes
    BY <1>1, TakeIs
  <2>2. UNCHANGED <<plan, file, cache, world>>
    BY <1>1, TakeIs
  <2>3. t.cert.code = None /\ t.script \in Seq(Ops \ Codes) /\ t.pc # "activate"
    BY <1>0, <2>1
  <2> QED BY <2>1, <2>2, <2>3, PutsIs DEF About
<1>2. CASE Probe(w)
  <2>1. PICK t : Puts(w, t) /\ Stays(w, t) /\ t.pc = "read"
    BY <1>2, ProbeIs
  <2>2. task[w].pc = "probe" /\ UNCHANGED <<plan, file, cache, paid, ready, syncing, world>>
    BY <1>2, ProbeIs
  <2> QED BY <1>0, <2>1, <2>2, PutsIs DEF About, Stays, WorldType
<1>3. CASE Read(w)
  BY <1>0, <1>3, ReadIs, PutsIs DEF About, Stays, WorldType
<1>4. CASE Judge(w)
  BY <1>0, <1>4, JudgeIs, PutsIs DEF About, Stays, WorldType
<1>5. CASE Stamp(w)
  BY <1>0, <1>5, StampIs, PutsIs DEF About, Stays, WorldType
<1>6. CASE StampCache(w)
  BY <1>0, <1>6, StampCacheIs, PutsIs DEF About, Stays, WorldType
<1>7. CASE Accept(w)
  BY <1>0, <1>7, AcceptIs, PutsIs DEF About, Stays, WorldType
<1>8. CASE SetPaid(w)
  BY <1>0, <1>8, SetPaidIs, PutsIs DEF About, Stays, WorldType
<1>9. CASE Details(w)
  BY <1>0, <1>9, DetailsIs, PutsIs DEF About, Stays, WorldType
<1>10. CASE Verified(w)
  BY <1>0, <1>10, VerifiedIs, PutsIs DEF About, Stays, WorldType
<1>11. CASE Booted(w)
  <2>1. PICK t : Puts(w, t) /\ Stays(w, t) /\ t.pc \in {"register", "lock"}
    BY <1>11, BootedIs
  <2>2. task[w].pc = "booted" /\ cache' = Local /\ UNCHANGED <<plan, file, paid, syncing, world>>
    BY <1>11, BootedIs
  <2> QED BY <1>0, <2>1, <2>2, PutsIs DEF About, Stays, WorldType
<1>12. CASE Refresh(w)
  BY <1>0, <1>12, RefreshIs, PutsIs DEF About, Stays, WorldType
<1>13. CASE Lock(w)
  BY <1>0, <1>13, LockIs, PutsIs DEF About, Stays, WorldType
<1>14. CASE Ask(w)
  BY <1>0, <1>14, AskIs, PutsIs DEF About, Stays, WorldType
<1>15. CASE Apply(w)
  BY <1>0, <1>15, ApplyIs, PutsIs DEF About, Stays, WorldType
<1>16. CASE Write(w)
  BY <1>0, <1>16, WriteIs, PutsIs DEF About, Stays, WorldType
<1>17. CASE WriteCache(w)
  BY <1>0, <1>17, WriteCacheIs, PutsIs DEF About, Stays, WorldType
<1>18. CASE Activate(w)
  BY <1>0, <1>18, ActivateIs, PutsIs DEF About, Stays, WorldType
<1>19. CASE Register(w)
  BY <1>0, <1>19, RegisterIs, PutsIs DEF About, Stays, WorldType
<1>20. CASE Info(w)
  BY <1>0, <1>20, InfoIs, PutsIs DEF About, Stays, WorldType
<1>21. CASE Forget(w)
  BY <1>0, <1>21, ForgetIs, PutsIs DEF About, Stays, WorldType
<1>22. CASE Remove(w)
  BY <1>0, <1>22, RemoveIs, PutsIs DEF About, Stays, WorldType
<1>23. CASE Unbind(w)
  BY <1>0, <1>23, UnbindIs, PutsIs DEF About, Stays, WorldType
<1> QED BY <1>1, <1>2, <1>3, <1>4, <1>5, <1>6, <1>7, <1>8, <1>9, <1>10, <1>11, <1>12, <1>13, <1>14, <1>15, <1>16, <1>17, <1>18, <1>19, <1>20, <1>21, <1>22, <1>23 DEF Step

LEMMA StepGone ==
  ASSUME Typed, Held, Gone, NEW w \in Worker, Step(w),
         Solo(plan) \/ task[w].pc # "activate"
  PROVE  Gone'
<1>0. Solo(plan) => \A v \in Worker : v = w
  BY DEF Solo, Worker
<1>1. CASE Take(w)
  BY WorkersAre, <1>0, <1>1, TakeIs, PutsIs DEF Gone, Wiping, Held, SyncPCs, Signed, Stays, WorldType, Typed
<1>2. CASE Probe(w)
  <2>1. PICK t : Puts(w, t) /\ Stays(w, t) /\ t.pc = "read"
    BY <1>2, ProbeIs
  <2>2. task[w].pc = "probe" /\ UNCHANGED <<plan, file, cache, paid, ready, syncing, world>>
    BY <1>2, ProbeIs
  <2> QED BY WorkersAre, <1>0, <2>1, <2>2, PutsIs DEF Gone, Wiping, Held, SyncPCs, Signed, Stays, WorldType, Typed
<1>3. CASE Read(w)
  BY WorkersAre, <1>0, <1>3, ReadIs, PutsIs DEF Gone, Wiping, Held, SyncPCs, Signed, Stays, WorldType, Typed
<1>4. CASE Judge(w)
  BY WorkersAre, <1>0, <1>4, JudgeIs, PutsIs DEF Gone, Wiping, Held, SyncPCs, Signed, Stays, WorldType, Typed
<1>5. CASE Stamp(w)
  BY WorkersAre, <1>0, <1>5, StampIs, PutsIs DEF Gone, Wiping, Held, SyncPCs, Signed, Stays, WorldType, Typed
<1>6. CASE StampCache(w)
  BY WorkersAre, <1>0, <1>6, StampCacheIs, PutsIs DEF Gone, Wiping, Held, SyncPCs, Signed, Stays, WorldType, Typed
<1>7. CASE Accept(w)
  BY WorkersAre, <1>0, <1>7, AcceptIs, PutsIs DEF Gone, Wiping, Held, SyncPCs, Signed, Stays, WorldType, Typed
<1>8. CASE SetPaid(w)
  BY WorkersAre, <1>0, <1>8, SetPaidIs, PutsIs DEF Gone, Wiping, Held, SyncPCs, Signed, Stays, WorldType, Typed
<1>9. CASE Details(w)
  BY WorkersAre, <1>0, <1>9, DetailsIs, PutsIs DEF Gone, Wiping, Held, SyncPCs, Signed, Stays, WorldType, Typed
<1>10. CASE Verified(w)
  BY WorkersAre, <1>0, <1>10, VerifiedIs, PutsIs DEF Gone, Wiping, Held, SyncPCs, Signed, Stays, WorldType, Typed
<1>11. CASE Booted(w)
  <2>1. PICK t : Puts(w, t) /\ Stays(w, t) /\ t.pc \in {"register", "lock"}
    BY <1>11, BootedIs
  <2>2. task[w].pc = "booted" /\ cache' = Local /\ UNCHANGED <<plan, file, paid, syncing, world>>
    BY <1>11, BootedIs
  <2> QED BY WorkersAre, <1>0, <2>1, <2>2, PutsIs DEF Gone, Wiping, Held, SyncPCs, Signed, Stays, WorldType, Typed
<1>12. CASE Refresh(w)
  BY WorkersAre, <1>0, <1>12, RefreshIs, PutsIs DEF Gone, Wiping, Held, SyncPCs, Signed, Stays, WorldType, Typed
<1>13. CASE Lock(w)
  BY WorkersAre, <1>0, <1>13, LockIs, PutsIs DEF Gone, Wiping, Held, SyncPCs, Signed, Stays, WorldType, Typed
<1>14. CASE Ask(w)
  BY WorkersAre, <1>0, <1>14, AskIs, PutsIs DEF Gone, Wiping, Held, SyncPCs, Signed, Stays, WorldType, Typed
<1>15. CASE Apply(w)
  BY WorkersAre, <1>0, <1>15, ApplyIs, PutsIs DEF Gone, Wiping, Held, SyncPCs, Signed, Stays, WorldType, Typed
<1>16. CASE Write(w)
  BY WorkersAre, <1>0, <1>16, WriteIs, PutsIs DEF Gone, Wiping, Held, SyncPCs, Signed, Stays, WorldType, Typed
<1>17. CASE WriteCache(w)
  BY WorkersAre, <1>0, <1>17, WriteCacheIs, PutsIs DEF Gone, Wiping, Held, SyncPCs, Signed, Stays, WorldType, Typed
<1>18. CASE Activate(w)
  BY WorkersAre, <1>0, <1>18, ActivateIs, PutsIs DEF Gone, Wiping, Held, SyncPCs, Signed, Stays, WorldType, Typed
<1>19. CASE Register(w)
  BY WorkersAre, <1>0, <1>19, RegisterIs, PutsIs DEF Gone, Wiping, Held, SyncPCs, Signed, Stays, WorldType, Typed
<1>20. CASE Info(w)
  BY WorkersAre, <1>0, <1>20, InfoIs, PutsIs DEF Gone, Wiping, Held, SyncPCs, Signed, Stays, WorldType, Typed
<1>21. CASE Forget(w)
  BY WorkersAre, <1>0, <1>21, ForgetIs, PutsIs DEF Gone, Wiping, Held, SyncPCs, Signed, Stays, WorldType, Typed
<1>22. CASE Remove(w)
  BY WorkersAre, <1>0, <1>22, RemoveIs, PutsIs DEF Gone, Wiping, Held, SyncPCs, Signed, Stays, WorldType, Typed
<1>23. CASE Unbind(w)
  BY WorkersAre, <1>0, <1>23, UnbindIs, PutsIs DEF Gone, Wiping, Held, SyncPCs, Signed, Stays, WorldType, Typed
<1> QED BY <1>1, <1>2, <1>3, <1>4, <1>5, <1>6, <1>7, <1>8, <1>9, <1>10, <1>11, <1>12, <1>13, <1>14, <1>15, <1>16, <1>17, <1>18, <1>19, <1>20, <1>21, <1>22, <1>23 DEF Step

(* A good certificate is what is paid for, or will be.                      *)
Good == file.code \in Codes \ Foreign /\ InLease(file) /\ ~world.back
Lasting(w) ==
  /\ task[w].pc \in {"idle", "choose", "lock", "register", "ask", "apply", "activate"}
       => (Good /\ ready => paid = file.code)
  /\ task[w].pc \in {"booted", "verified", "unbind"} => (Good => paid = file.code)
  /\ task[w].pc \in {"paid", "details"} => (Good => task[w].paid = file.code)
Lasts == \A w \in Worker : Lasting(w)

LEMMA StepLasts ==
  ASSUME Typed, Held, Whole, Lasts, Solo(plan), ~May("slowProbe"), NEW w \in Worker, Step(w)
  PROVE  Lasts'
<1>0. /\ \A v \in Worker : v = w
      /\ NoCert.code = None /\ None \notin Codes
  BY CodesAssumption DEF Solo, Worker, NoCert
<1>1. CASE Take(w)
  BY WorkersAre, <1>0, <1>1, TakeIs, PutsIs DEF Lasts, Lasting, Good, InLease, Whole, Held, SyncPCs, Stays, Typed, WorldType, Sound, Signed, May
<1>2. CASE Probe(w)
  <2>1. PICK t : Puts(w, t) /\ Stays(w, t) /\ t.pc = "read"
    BY <1>2, ProbeIs
  <2>2. task[w].pc = "probe" /\ UNCHANGED <<plan, file, cache, paid, ready, syncing, world>>
    BY <1>2, ProbeIs
  <2> QED BY WorkersAre, <1>0, <2>1, <2>2, PutsIs DEF Lasts, Lasting, Good, InLease, Whole, Held, SyncPCs, Stays, Typed, WorldType, Sound, Signed, May
<1>3. CASE Read(w)
  BY WorkersAre, <1>0, <1>3, ReadIs, PutsIs DEF Lasts, Lasting, Good, InLease, Whole, Held, SyncPCs, Stays, Typed, WorldType, Sound, Signed, May
<1>4. CASE Judge(w)
  BY WorkersAre, <1>0, <1>4, JudgeIs, PutsIs DEF Lasts, Lasting, Good, InLease, Whole, Held, SyncPCs, Stays, Typed, WorldType, Sound, Signed, May
<1>5. CASE Stamp(w)
  BY WorkersAre, <1>0, <1>5, StampIs, PutsIs DEF Lasts, Lasting, Good, InLease, Whole, Held, SyncPCs, Stays, Typed, WorldType, Sound, Signed, May
<1>6. CASE StampCache(w)
  BY WorkersAre, <1>0, <1>6, StampCacheIs, PutsIs DEF Lasts, Lasting, Good, InLease, Whole, Held, SyncPCs, Stays, Typed, WorldType, Sound, Signed, May
<1>7. CASE Accept(w)
  BY WorkersAre, <1>0, <1>7, AcceptIs, PutsIs DEF Lasts, Lasting, Good, InLease, Whole, Held, SyncPCs, Stays, Typed, WorldType, Sound, Signed, May
<1>8. CASE SetPaid(w)
  BY WorkersAre, <1>0, <1>8, SetPaidIs, PutsIs DEF Lasts, Lasting, Good, InLease, Whole, Held, SyncPCs, Stays, Typed, WorldType, Sound, Signed, May
<1>9. CASE Details(w)
  BY WorkersAre, <1>0, <1>9, DetailsIs, PutsIs DEF Lasts, Lasting, Good, InLease, Whole, Held, SyncPCs, Stays, Typed, WorldType, Sound, Signed, May
<1>10. CASE Verified(w)
  BY WorkersAre, <1>0, <1>10, VerifiedIs, PutsIs DEF Lasts, Lasting, Good, InLease, Whole, Held, SyncPCs, Stays, Typed, WorldType, Sound, Signed, May
<1>11. CASE Booted(w)
  <2>1. PICK t : Puts(w, t) /\ Stays(w, t) /\ t.pc \in {"register", "lock"}
    BY <1>11, BootedIs
  <2>2. task[w].pc = "booted" /\ cache' = Local /\ UNCHANGED <<plan, file, paid, syncing, world>>
    BY <1>11, BootedIs
  <2> QED BY WorkersAre, <1>0, <2>1, <2>2, PutsIs DEF Lasts, Lasting, Good, InLease, Whole, Held, SyncPCs, Stays, Typed, WorldType, Sound, Signed, May
<1>12. CASE Refresh(w)
  BY WorkersAre, <1>0, <1>12, RefreshIs, PutsIs DEF Lasts, Lasting, Good, InLease, Whole, Held, SyncPCs, Stays, Typed, WorldType, Sound, Signed, May
<1>13. CASE Lock(w)
  BY WorkersAre, <1>0, <1>13, LockIs, PutsIs DEF Lasts, Lasting, Good, InLease, Whole, Held, SyncPCs, Stays, Typed, WorldType, Sound, Signed, May
<1>14. CASE Ask(w)
  BY WorkersAre, <1>0, <1>14, AskIs, PutsIs DEF Lasts, Lasting, Good, InLease, Whole, Held, SyncPCs, Stays, Typed, WorldType, Sound, Signed, May
<1>15. CASE Apply(w)
  BY WorkersAre, <1>0, <1>15, ApplyIs, PutsIs DEF Lasts, Lasting, Good, InLease, Whole, Held, SyncPCs, Stays, Typed, WorldType, Sound, Signed, May
<1>16. CASE Write(w)
  BY WorkersAre, <1>0, <1>16, WriteIs, PutsIs DEF Lasts, Lasting, Good, InLease, Whole, Held, SyncPCs, Stays, Typed, WorldType, Sound, Signed, May
<1>17. CASE WriteCache(w)
  BY WorkersAre, <1>0, <1>17, WriteCacheIs, PutsIs DEF Lasts, Lasting, Good, InLease, Whole, Held, SyncPCs, Stays, Typed, WorldType, Sound, Signed, May
<1>18. CASE Activate(w)
  BY WorkersAre, <1>0, <1>18, ActivateIs, PutsIs DEF Lasts, Lasting, Good, InLease, Whole, Held, SyncPCs, Stays, Typed, WorldType, Sound, Signed, May
<1>19. CASE Register(w)
  BY WorkersAre, <1>0, <1>19, RegisterIs, PutsIs DEF Lasts, Lasting, Good, InLease, Whole, Held, SyncPCs, Stays, Typed, WorldType, Sound, Signed, May
<1>20. CASE Info(w)
  BY WorkersAre, <1>0, <1>20, InfoIs, PutsIs DEF Lasts, Lasting, Good, InLease, Whole, Held, SyncPCs, Stays, Typed, WorldType, Sound, Signed, May
<1>21. CASE Forget(w)
  BY WorkersAre, <1>0, <1>21, ForgetIs, PutsIs DEF Lasts, Lasting, Good, InLease, Whole, Held, SyncPCs, Stays, Typed, WorldType, Sound, Signed, May
<1>22. CASE Remove(w)
  BY WorkersAre, <1>0, <1>22, RemoveIs, PutsIs DEF Lasts, Lasting, Good, InLease, Whole, Held, SyncPCs, Stays, Typed, WorldType, Sound, Signed, May
<1>23. CASE Unbind(w)
  BY WorkersAre, <1>0, <1>23, UnbindIs, PutsIs DEF Lasts, Lasting, Good, InLease, Whole, Held, SyncPCs, Stays, Typed, WorldType, Sound, Signed, May
<1> QED BY <1>1, <1>2, <1>3, <1>4, <1>5, <1>6, <1>7, <1>8, <1>9, <1>10, <1>11, <1>12, <1>13, <1>14, <1>15, <1>16, <1>17, <1>18, <1>19, <1>20, <1>21, <1>22, <1>23 DEF Step

-----------------------------------------------------------------------------
(* A wipe is deserved, a lease is honoured *)

LEMMA ElsewhereKeeps ==
  ASSUME Typed, Elsewhere
  PROVE  /\ Held => Held'
         /\ Gone => Gone'
         /\ Whole => Whole'
         /\ \A code \in Codes : About(code) => About(code)'
         /\ Lasts /\ raising \subseteq {FALSE} => Lasts'
<1>1. UNCHANGED <<plan, file, syncing, task>> /\ Worker' = Worker /\ world'.bound \subseteq world.bound
  BY DEF Elsewhere, Worker
<1>2. cache' = cache \/ (Quiet /\ cache'.code = Unread)
  BY DEF Elsewhere
<1>3. Held => Held'
  BY <1>1 DEF Held, Signed
<1>4. Gone => Gone'
  BY <1>1 DEF Gone, Wiping, Signed
<1>5. Whole => Whole'
  BY <1>1, <1>2 DEF Whole, Wiping, Quiet, At
<1>6. ASSUME NEW code \in Codes, About(code) PROVE About(code)'
  BY <1>1, <1>2, <1>6 DEF About
<1>7. ASSUME Lasts, raising \subseteq {FALSE} PROVE Lasts'
  <2>1. Good' => Good
    <3>1. file.epoch \in Nat /\ file.epoch <= world.epoch /\ world.epoch \in Nat /\ world'.epoch \in Nat
      BY DEF Typed, Cert, Issued, WorldType, Elsewhere
    <3>2. CASE world'.epoch = world.epoch /\ world'.back = world.back
      BY <1>1, <3>2 DEF Good, InLease
    <3>3. CASE world'.epoch > world.epoch
      BY <1>1, <3>1, <3>3 DEF Good, InLease
    <3>4. CASE world'.back
      BY <3>4 DEF Good
    <3> QED BY <3>2, <3>3, <3>4 DEF Elsewhere
  <2>2. CASE UNCHANGED <<paid, ready>>
    BY <1>1, <1>7, <2>1, <2>2 DEF Lasts, Lasting
  <2>3. CASE Quiet /\ ~ready'
    <3>1. \A w \in Worker : task'[w].pc = "idle"
      BY <1>1, <2>3 DEF Quiet, At
    <3> QED BY <1>1, <2>3, <3>1 DEF Lasts, Lasting
  <2> QED BY <1>7, <2>2, <2>3 DEF Elsewhere
<1> QED BY <1>3, <1>4, <1>5, <1>6, <1>7

(* Where a sync stands, and what is known of the certificate it asks about. *)
SyncInv ==
  /\ Typed /\ Held
  /\ Solo(plan) => Whole
  /\ OneCode(plan) => \E code \in Codes : About(code)
  /\ Solo(plan) \/ OneCode(plan) => Gone

LEMMA SyncInit == Init => SyncInv
<1> SUFFICES ASSUME Init PROVE SyncInv
  OBVIOUS
<1>1. Typed
  BY TypedInit
<1>2. /\ plan \in Plans /\ file = plan.file /\ cache = [code |-> Unread, epoch |-> 0] /\ syncing = None
      /\ task = [w \in Worker |-> NewTask(plan.script[w])] /\ world.bound = plan.bound
  BY DEF Init, LicenceInit, Worker
<1>3. \A w \in Worker : task[w].pc = "idle" /\ task[w].cert.code = None /\ task[w].script = plan.script[w]
  BY <1>2 DEF NewTask, NoCert
<1>4. None \notin Worker
  BY <1>1, WorkersAre
<1>5. Held /\ Whole /\ Gone
  BY <1>2, <1>3, <1>4 DEF Held, SyncPCs, Whole, Gone, Wiping
<1>6. ASSUME OneCode(plan) PROVE \E code \in Codes : About(code)
  <2>1. PICK code \in Codes :
          /\ plan.file.code \in {None, code} /\ plan.bound \subseteq {code}
          /\ \A w \in DOMAIN plan.script : plan.script[w] \in Seq(Ops \ Codes)
    BY <1>6 DEF OneCode
  <2>2. About(code)
    BY <1>2, <1>3, <2>1 DEF About, Worker
  <2> QED BY <2>2
<1> QED BY <1>1, <1>5, <1>6 DEF SyncInv

LEMMA SyncStep == SyncInv /\ [Next]_allVars => SyncInv'
<1> SUFFICES ASSUME SyncInv, [Next]_allVars PROVE SyncInv'
  OBVIOUS
<1>1. Typed /\ Typed'
  BY TypedStep DEF SyncInv
<1>2. CASE Elsewhere
  <2>1. plan' = plan
    BY <1>2 DEF Elsewhere
  <2> QED BY <1>1, <1>2, <2>1, ElsewhereKeeps DEF SyncInv, Solo, OneCode
<1>3. ASSUME NEW w \in Worker, Step(w) PROVE SyncInv'
  <2>1. plan' = plan
    BY <1>1, PlanStays
  <2>2. Held'
    BY <1>1, <1>3, StepHeld DEF SyncInv
  <2>3. Solo(plan) => Whole'
    BY <1>1, <1>3, StepWhole DEF SyncInv
  <2>4. ASSUME OneCode(plan) PROVE (\E code \in Codes : About(code)') /\ task[w].pc # "activate"
    <3>1. PICK code \in Codes : About(code)
      BY <2>4 DEF SyncInv
    <3>2. About(code)'
      BY <1>1, <1>3, <3>1, StepAbout
    <3>3. task[w].pc # "activate"
      BY <3>1 DEF About
    <3> QED BY <3>2, <3>3
  <2>5. Solo(plan) \/ OneCode(plan) => Gone'
    BY <1>1, <1>3, <2>4, StepGone DEF SyncInv
  <2>6. (\E code \in Codes : About(code)') => (\E code \in Codes : About(code))'
    OBVIOUS
  <2> QED BY <1>1, <2>1, <2>2, <2>3, <2>4, <2>5, <2>6 DEF SyncInv
<1> QED BY <1>1, <1>2, <1>3, NextIs

(* While nobody turns the clock, and one operation runs at a time.          *)
Undisturbed == Solo(plan) /\ ~May("slowProbe") /\ Steady
LeaseInv == HonestInv /\ SyncInv /\ (Undisturbed => Lasts)

LEMMA LeaseInit == Init => LeaseInv
<1> SUFFICES ASSUME Init PROVE Lasts
  BY HonestInit, SyncInit DEF LeaseInv
<1>1. ready = FALSE /\ \A w \in Worker : task[w].pc = "idle"
  BY DEF Init, LicenceInit, Worker, NewTask
<1> QED BY <1>1 DEF Lasts, Lasting

LEMMA LeaseStep == LeaseInv /\ [Next]_allVars => LeaseInv'
<1> SUFFICES ASSUME LeaseInv, [Next]_allVars PROVE LeaseInv'
  OBVIOUS
<1>1. HonestInv' /\ SyncInv'
  BY BudgetStep, HonestStep, SyncStep DEF LeaseInv, HonestInv
<1>2. ASSUME Undisturbed' PROVE Lasts'
  <2>1. Typed /\ Held /\ Budgeted
    BY DEF LeaseInv, SyncInv, HonestInv
  <2>2. plan' = plan
    BY <2>1, PlanStays
  <2>3. Undisturbed
    BY <1>2, <2>1, <2>2, BudgetStep DEF Undisturbed, Solo, May
  <2>4. Lasts /\ Whole /\ raising \subseteq {FALSE}
    BY <2>3 DEF LeaseInv, SyncInv, Undisturbed, HonestInv, Honest, Fair, Timed
  <2>5. CASE Elsewhere
    BY <2>1, <2>4, <2>5, ElsewhereKeeps
  <2>6. ASSUME NEW w \in Worker, Step(w) PROVE Lasts'
    BY <2>1, <2>3, <2>4, <2>6, StepLasts DEF Undisturbed
  <2> QED BY <2>1, <2>5, <2>6, NextIs
<1> QED BY <1>1, <1>2 DEF LeaseInv

(* The removal in a sync, as WipeDeserved has it.                           *)
WipesOnly ==
  \A w \in Worker :
    syncing = w /\ At(w, "remove") /\ task'[w].pc = "paid" /\ file.code # None
      => file.code \notin Foreign /\ file.code \notin world.bound

(* A task of the licence is where the code can be, with a certificate that  *)
(* was issued, and the sync lock is with a goroutine that synchronises.     *)
THEOREM LicenceTypeCorrect == Spec => [](Typed /\ Held)
<1>1. SyncInv => Typed /\ Held
  BY DEF SyncInv
<1> QED BY SyncInit, SyncStep, <1>1, PTL DEF Spec

(* A sync wipes a certificate only after the server dropped its code.  What *)
(* it wipes is the file on disk, which is the certificate it asked about    *)
(* when one operation runs at a time, or when all of them are about one     *)
(* code that was activated before: startup's boot, verification and refresh.*)
THEOREM WipesDeserved == Spec /\ (Solo(plan) \/ OneCode(plan)) => WipeDeserved
<1> DEFINE Inv == SyncInv /\ (Solo(plan) \/ OneCode(plan))
<1>1. Init /\ (Solo(plan) \/ OneCode(plan)) => Inv
  BY SyncInit
<1>2. Inv /\ [Next]_allVars => Inv'
  <2> SUFFICES ASSUME Inv, [Next]_allVars PROVE Inv'
    OBVIOUS
  <2>1. plan' = plan
    BY PlanStays DEF SyncInv
  <2> QED BY <2>1, SyncStep DEF Solo, OneCode
<1>3. Inv /\ [Next]_allVars => [WipesOnly]_licenceVars
  <2> SUFFICES ASSUME Inv, NEW w \in Worker, syncing = w, At(w, "remove"), file.code # None
               PROVE  file.code \notin Foreign /\ file.code \notin world.bound
    BY DEF WipesOnly
  <2>1. Signed(task[w].cert) /\ task[w].cert.code \notin world.bound
    BY DEF SyncInv, Gone, Wiping, At
  <2>2. file.code = task[w].cert.code
    <3>1. CASE Solo(plan)
      BY <3>1 DEF SyncInv, Whole, Wiping, At
    <3>2. CASE OneCode(plan)
      BY <2>1, <3>2 DEF SyncInv, About, Signed
    <3> QED BY <3>1, <3>2
  <2> QED BY <2>1, <2>2 DEF Signed
<1> QED BY <1>1, <1>2, <1>3, PTL DEF Spec, WipeDeserved, WipesOnly

(* A device with a good certificate stays paid once it has started, while   *)
(* one operation runs at a time, the fingerprints come in time, nobody      *)
(* turns the clock and no other id replaces the device's: every operation   *)
(* that gives up the paid status gives up the certificate too, or leaves    *)
(* the status to the next one.                                              *)
THEOREM LeasesHonoured == Spec => [](Undisturbed => LeaseHonoured)
<1>1. LeaseInv => (Undisturbed => LeaseHonoured)
  <2> SUFFICES ASSUME LeaseInv, Undisturbed, Quiet, ready, Good PROVE paid = file.code
    BY DEF LeaseHonoured, Good
  <2>1. PICK w \in Worker : task[w].pc = "idle"
    BY DEF Undisturbed, Solo, Worker, Quiet, At
  <2> QED BY <2>1 DEF LeaseInv, Lasts, Lasting
<1> QED BY LeaseInit, LeaseStep, <1>1, PTL DEF Spec

=============================================================================
