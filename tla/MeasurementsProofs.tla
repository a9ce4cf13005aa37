--------------------------- MODULE MeasurementsProofs ---------------------------
(***************************************************************************)
(* What holds of the kept measurement for any limits in time, of which the *)
(* assumption on the warmer's rounds is the only one that matters.          *)
(***************************************************************************)
EXTENDS Measurements, SequenceTheorems, TLAPS

-----------------------------------------------------------------------------
(***************************************************************************)
(* The invariant.                                                          *)
(***************************************************************************)
\* Nothing was measured later than now.
Past ==
  /\ cache # None => cache <= clock
  /\ latest # None => latest <= clock
  /\ hydration.got # None => hydration.got <= clock
  /\ \A w \in Writers : writer[w].read <= clock
  /\ warmer.at # "timer" => warmer.due <= clock

\* While the rounds go well, the next is due as long after what is kept as the
\* rest of the last round and the pause between two take, and it is not late.
RoundsInTime ==
  warm =>
    /\ cache # None
    /\ IF warmer.at = "after"
       THEN warmer.due <= cache /\ clock <= cache + RoundTime
       ELSE warmer.due <= cache + RoundTime + WarmEvery /\ clock <= warmer.due + RoundTime

Spaced(s) == \A i \in 1..(Len(s) - 1) : s[i] + MinGap <= s[i + 1]

\* As long as one measurement at a time is put down, it is the newest, and the
\* series it was given is the one that is there.
OneAtATime ==
  ~untidy =>
    /\ Spaced(series)
    /\ \A i \in 1..Len(series) : series[i] <= clock
    /\ \A v, w \in Writers : ~Idle(v) /\ ~Idle(w) => v = w
    /\ ~Writing => IF series = <<>> THEN latest = None ELSE latest = LastOf(series)
    /\ \A w \in Writers : ~Idle(w) =>
         /\ series # <<>> => LastOf(series) <= writer[w].read
         /\ writer[w].at \in {"series", "append"} => latest = writer[w].read
         /\ writer[w].at = "append" => writer[w].held = series

IInv == TypeOK /\ Past /\ RoundsInTime /\ OneAtATime

-----------------------------------------------------------------------------
(***************************************************************************)
(* The series.                                                             *)
(***************************************************************************)
LEMMA NewestIs ==
  ASSUME NEW s \in Seq(Time)
  PROVE  /\ Newest(s) \in Seq(Time) /\ Len(Newest(s)) <= SeriesMax
         /\ \E d \in Nat : /\ Len(Newest(s)) = Len(s) - d
                           /\ \A i \in 1..Len(Newest(s)) :
                                i + d \in 1..Len(s) /\ Newest(s)[i] = s[i + d]
         /\ s # <<>> => Newest(s) # <<>>
<1> DEFINE m == IF Len(s) > SeriesMax THEN Len(s) - SeriesMax + 1 ELSE 1
<1>0. SeriesMax \in Nat \ {0} /\ Len(s) \in Nat /\ m \in Nat \ {0}
  BY TimesAssumption
<1>1. Newest(s) = SubSeq(s, m, Len(s))
  BY DEF Newest
<1>2. \A i \in m..Len(s) : i \in 1..Len(s) /\ s[i] \in Time
  BY <1>0
<1>3. /\ Newest(s) \in Seq(Time) /\ Len(Newest(s)) = IF m <= Len(s) THEN Len(s) - m + 1 ELSE 0
      /\ \A i \in 1..(Len(s) - m + 1) : Newest(s)[i] = s[m + i - 1]
  <2> HIDE DEF m
  <2>1. m \in Int /\ Len(s) \in Int
    BY <1>0
  <2>2. /\ SubSeq(s, m, Len(s)) \in Seq(Time)
        /\ Len(SubSeq(s, m, Len(s))) = IF m <= Len(s) THEN Len(s) - m + 1 ELSE 0
        /\ \A i \in 1..(Len(s) - m + 1) : SubSeq(s, m, Len(s))[i] = s[m + i - 1]
    BY <1>2, <2>1, SubSeqProperties
  <2> QED  BY <1>1, <2>2
<1>4. Len(Newest(s)) = Len(s) - (m - 1) /\ m - 1 \in Nat
  <2>1. m <= Len(s) \/ (m = 1 /\ Len(s) = 0)
    BY <1>0
  <2>2. m - 1 \in Nat
    BY <1>0
  <2> HIDE DEF m
  <2> QED  BY <1>0, <1>3, <2>1, <2>2
<1>5. \A i \in 1..Len(Newest(s)) :
        i + (m-1) \in 1..Len(s) /\ Newest(s)[i] = s[i + (m-1)]
  BY <1>0, <1>3, <1>4
<1>6. Len(Newest(s)) <= SeriesMax
  BY <1>0, <1>4
<1>7. s # <<>> => Newest(s) # <<>>
  BY <1>0, <1>4, <1>3
<1> QED  BY <1>3, <1>4, <1>5, <1>6, <1>7

LEMMA AppendToIs ==
  ASSUME NEW s \in Seq(Time), NEW t \in Time
  PROVE  /\ AppendTo(s, t) \in Seq(Time) /\ Len(AppendTo(s, t)) <= SeriesMax
         /\ AppendTo(s, t) # <<>>
         /\ LastOf(AppendTo(s, t)) = t
         /\ Spaced(s) /\ (s # <<>> => LastOf(s) <= t) => Spaced(AppendTo(s, t))
         /\ \A n \in Nat : t <= n /\ (\A i \in 1..Len(s) : s[i] <= n)
              => \A i \in 1..Len(AppendTo(s, t)) : AppendTo(s, t)[i] <= n
<1> DEFINE u == IF TooSoon(s, t) THEN SubSeq(s, 1, Len(s) - 1) ELSE s
           a == Append(u, t)
           r == AppendTo(s, t)
<1>0. Len(s) \in Nat /\ MinGap \in Nat /\ \A i \in 1..Len(s) : s[i] \in Time
  BY TimesAssumption
<1>1. /\ u \in Seq(Time) /\ Len(u) \in Nat /\ Len(u) <= Len(s)
      /\ \A i \in 1..Len(u) : u[i] = s[i]
      /\ TooSoon(s, t) => Len(u) = Len(s) - 1 /\ Len(s) > 0
      /\ ~TooSoon(s, t) => u = s
  <2>1. CASE TooSoon(s, t)
    <3>1. s # <<>> /\ Len(s) > 0 /\ u = SubSeq(s, 1, Len(s) - 1)
      BY <1>0, <2>1, EmptySeq DEF TooSoon
    <3>2. \A i \in 1..(Len(s) - 1) : s[i] \in Time
      BY <1>0
    <3>3. /\ u \in Seq(Time) /\ Len(u) = Len(s) - 1
          /\ \A i \in 1..(Len(s) - 1) : u[i] = s[i]
      <4> DEFINE n == Len(s) - 1
      <4>1. n \in Nat /\ 1 \in Int /\ n \in Int /\ \A i \in 1..n : s[i] \in Time
        BY <1>0, <3>1, <3>2
      <4> HIDE DEF n
      <4>2. /\ SubSeq(s, 1, n) \in Seq(Time)
            /\ Len(SubSeq(s, 1, n)) = IF 1 <= n THEN n - 1 + 1 ELSE 0
            /\ \A i \in 1..(n - 1 + 1) : SubSeq(s, 1, n)[i] = s[1 + i - 1]
        BY <4>1, SubSeqProperties
      <4>3. Len(SubSeq(s, 1, n)) = n /\ \A i \in 1..n : SubSeq(s, 1, n)[i] = s[i]
        BY <4>1, <4>2
      <4> QED  BY <3>1, <4>2, <4>3 DEF n
    <3> QED  BY <1>0, <2>1, <3>1, <3>3
  <2>2. CASE ~TooSoon(s, t)
    BY <1>0, <2>2
  <2> QED  BY <2>1, <2>2
<1>2. /\ a \in Seq(Time) /\ Len(a) = Len(u) + 1 /\ a[Len(u) + 1] = t
      /\ \A i \in 1..Len(u) : a[i] = u[i]
  BY <1>1
<1>3. /\ r = Newest(a) /\ r \in Seq(Time) /\ Len(r) <= SeriesMax /\ Len(r) \in Nat
      /\ a # <<>> /\ r # <<>> /\ Len(r) > 0
  <2>1. r = Newest(a)
    BY DEF AppendTo
  <2>2. a # <<>>
    BY <1>1, <1>2
  <2>3. r \in Seq(Time) /\ Len(r) <= SeriesMax /\ r # <<>>
    BY <1>2, <2>1, <2>2, NewestIs
  <2> QED  BY <2>1, <2>2, <2>3
<1>4. PICK d \in Nat : /\ Len(r) = Len(a) - d
                       /\ \A i \in 1..Len(r) : i + d \in 1..Len(a) /\ r[i] = a[i + d]
  <2> HIDE DEF a, r
  <2>1. \E d \in Nat : /\ Len(Newest(a)) = Len(a) - d
                       /\ \A i \in 1..Len(Newest(a)) : i + d \in 1..Len(a) /\ Newest(a)[i] = a[i + d]
    BY <1>2, NewestIs
  <2> QED  BY <1>3, <2>1
<1>5. LastOf(r) = t
  BY <1>1, <1>2, <1>3, <1>4 DEF LastOf
<1>6. ASSUME Spaced(s), s # <<>> => LastOf(s) <= t PROVE Spaced(r)
  <2>1. \A i \in 1..(Len(a) - 1) : a[i] + MinGap <= a[i + 1]
    <3> SUFFICES ASSUME NEW i \in 1..(Len(a) - 1) PROVE a[i] + MinGap <= a[i + 1]
      OBVIOUS
    <3>1. i \in 1..Len(u) /\ a[i] = s[i] /\ i \in 1..Len(s)
      BY <1>0, <1>1, <1>2
    <3>2. CASE i < Len(u)
      BY <1>0, <1>1, <1>2, <1>6, <3>1, <3>2 DEF Spaced
    <3>3. CASE i = Len(u)
      <4>1. a[i + 1] = t
        BY <3>3, <1>2
      <4>2. CASE TooSoon(s, t)
        <5>1. i + 1 = Len(s) /\ s[i] + MinGap <= s[i + 1] /\ s[i + 1] <= t /\ s[i+1] \in Time
          BY <1>0, <1>1, <1>6, <3>1, <3>3, <4>2 DEF Spaced, LastOf
        <5> QED  BY <1>0, <3>1, <4>1, <5>1 DEF Time
      <4>3. CASE ~TooSoon(s, t)
        <5>1. s # <<>> /\ i = Len(s) /\ s[i] \in Time
          BY <1>0, <1>1, <3>1, <3>3, <4>3
        <5> QED  BY <1>0, <3>1, <4>1, <4>3, <5>1 DEF TooSoon, Time
      <4> QED  BY <4>2, <4>3
    <3> QED  BY <1>1, <3>1, <3>2, <3>3
  <2> SUFFICES ASSUME NEW i \in 1..(Len(r) - 1) PROVE r[i] + MinGap <= r[i + 1]
    BY DEF Spaced
  <2>2. i \in 1..Len(r) /\ i + 1 \in 1..Len(r)
    BY <1>3
  <2>3. r[i] = a[i + d] /\ r[i + 1] = a[(i + 1) + d] /\ i + d \in 1..Len(a) /\ (i + 1) + d \in 1..Len(a)
    BY <1>4, <2>2
  <2>4. (i + 1) + d = (i + d) + 1 /\ i + d \in 1..(Len(a) - 1)
    BY <1>1, <1>2, <2>3
  <2> QED  BY <2>1, <2>3, <2>4
<1>7. ASSUME NEW n \in Nat, t <= n, \A i \in 1..Len(s) : s[i] <= n, NEW i \in 1..Len(r)
      PROVE  r[i] <= n
  <2>1. i + d \in 1..Len(a) /\ r[i] = a[i + d]
    BY <1>4
  <2> QED  BY <1>0, <1>1, <1>2, <1>7, <2>1
<1> QED  BY <1>3, <1>5, <1>6, <1>7


-----------------------------------------------------------------------------
(***************************************************************************)
(* The steps.                                                              *)
(***************************************************************************)
LEMMA InitOK == Init => IInv
<1> SUFFICES ASSUME Init PROVE IInv
  OBVIOUS
<1> USE DEF Init
<1>1. TypeOK
  <2>1. series \in Seq(Time) /\ Len(series) = 0
    BY EmptySeq
  <2>2. writer \in [Writers -> [at : {"idle", "latest", "series", "append"},
                               read : Time, held : Seq(Time)]]
    <3>1. 0 \in Time /\ <<>> \in Seq(Time)
      BY TimesAssumption DEF Time
    <3> QED  BY <3>1 DEF NotWriting
  <2>3. clock \in Time /\ cache \in Time \cup {None} /\ faults \in 0..MaxFaults
        /\ Len(series) <= SeriesMax
    BY <2>1, TimesAssumption DEF Time
  <2>4. /\ hydration \in [at : {"none", "asked", "back"}, got : Time \cup {None}]
        /\ warmer \in [at : {"timer", "before", "reading", "after"}, due : Nat]
    OBVIOUS
  <2> QED  BY <2>1, <2>2, <2>3, <2>4 DEF TypeOK
<1>2. Past
  BY DEF Past, NotWriting
<1>3. RoundsInTime
  BY DEF RoundsInTime
<1>4. OneAtATime
  <2>1. Len(series) = 0 /\ \A w \in Writers : Idle(w)
    BY DEF Idle, NotWriting
  <2> QED  BY <2>1 DEF OneAtATime, Spaced, Writing
<1> QED  BY <1>1, <1>2, <1>3, <1>4 DEF IInv

\* Faults are counted within their bound.
LEMMA FaultType ==
  ASSUME TypeOK, Fault
  PROVE  faults' \in 0..MaxFaults
BY TimesAssumption DEF TypeOK, Fault

\* The store's part is as it was.
LEMMA SeriesUnchanged ==
  ASSUME OneAtATime, UNCHANGED <<latest, series, writer, untidy, clock>>
  PROVE  OneAtATime'
BY DEF OneAtATime, Spaced, Writing, Idle, LastOf

LEMMA VisitKeeps ==
  ASSUME IInv, Visit
  PROVE  IInv'
<1> USE DEF Visit, stored, history
<1>1. OneAtATime'
  BY SeriesUnchanged DEF IInv
<1>2. TypeOK' /\ Past' /\ RoundsInTime'
  BY DEF IInv, TypeOK, Past, RoundsInTime
<1> QED  BY <1>1, <1>2 DEF IInv

LEMMA RoundBeginsKeeps ==
  ASSUME IInv, RoundBegins
  PROVE  IInv'
<1> USE DEF RoundBegins, stored, history
<1>1. OneAtATime'
  BY SeriesUnchanged DEF IInv
<1>2. TypeOK' /\ Past' /\ RoundsInTime'
  BY TimesAssumption DEF IInv, TypeOK, Past, RoundsInTime, Time
<1> QED  BY <1>1, <1>2 DEF IInv

LEMMA WarmChainKeeps ==
  ASSUME IInv, WarmChain
  PROVE  IInv'
<1> USE DEF WarmChain, stored, history
<1>1. OneAtATime'
  BY SeriesUnchanged DEF IInv
<1>2. TypeOK' /\ Past' /\ RoundsInTime'
  BY TimesAssumption DEF IInv, TypeOK, Past, RoundsInTime, Time
<1> QED  BY <1>1, <1>2 DEF IInv

LEMMA RoundEndsKeeps ==
  ASSUME IInv, RoundEnds
  PROVE  IInv'
<1> USE DEF RoundEnds, stored, history
<1>1. OneAtATime'
  BY SeriesUnchanged DEF IInv
<1>2. TypeOK'
  BY TimesAssumption DEF IInv, TypeOK, Time
<1>3. Past' /\ RoundsInTime'
  BY TimesAssumption DEF IInv, TypeOK, Past, RoundsInTime, Time
<1> QED  BY <1>1, <1>2, <1>3 DEF IInv


LEMMA MeasuredKeeps ==
  ASSUME IInv, Measured
  PROVE  IInv'
<1> PICK w \in Unused :
      /\ writer' = [writer EXCEPT ![w] = [at |-> "latest", read |-> clock, held |-> <<>>]]
      /\ untidy' = (untidy \/ \E v \in Writers : ~Idle(v))
  BY DEF Measured
<1>0. w \in Writers /\ Idle(w)
  BY DEF Unused
<1>1. /\ TypeOK /\ Past /\ RoundsInTime /\ OneAtATime /\ clock \in Nat /\ clock \in Time
      /\ UNCHANGED <<clock, hydration, latest, series, faults>>
      /\ cache' = clock /\ running' = FALSE /\ cache' # None
      /\ warm' = (warm \/ warmer.at = "reading")
      /\ ReadOver
  BY NoneAssumption DEF IInv, Measured, stored, TypeOK, Time
<1>2. TypeOK'
  <2>1. writer' \in [Writers -> [at : {"idle", "latest", "series", "append"},
                                read : Time, held : Seq(Time)]]
    <3>1. [at |-> "latest", read |-> clock, held |-> <<>>]
            \in [at : {"idle", "latest", "series", "append"}, read : Time, held : Seq(Time)]
      BY <1>1
    <3> QED  BY <3>1, <1>1 DEF TypeOK
  <2>2. warmer' \in [at : {"timer", "before", "reading", "after"}, due : Nat]
    BY <1>1 DEF TypeOK, ReadOver
  <2>3. warm' \in BOOLEAN /\ untidy' \in BOOLEAN
    BY <1>1 DEF TypeOK
  <2> QED  BY <1>1, <2>1, <2>2, <2>3 DEF TypeOK
<1>3. Past'
  <2>1. \A v \in Writers : writer'[v].read <= clock
    BY <1>0, <1>1 DEF TypeOK, Past
  <2>2. warmer'.at # "timer" => warmer'.due <= clock
    BY <1>1 DEF TypeOK, Past, ReadOver
  <2> QED  BY <1>1, <2>1, <2>2 DEF Past
<1>4. RoundsInTime'
  <2>0. {WarmEvery, RoundTime} \subseteq Nat /\ warmer.due \in Nat
    BY <1>1, TimesAssumption DEF TypeOK
  <2>1. CASE warmer.at = "reading"
    <3>1. warmer'.at = "after" /\ warmer'.due = warmer.due /\ warmer.due <= clock
      BY <1>1, <2>1 DEF TypeOK, Past, ReadOver
    <3> QED  BY <1>1, <2>0, <3>1 DEF RoundsInTime
  <2>2. CASE warmer.at # "reading"
    <3>1. warmer' = warmer /\ warm' = warm
      BY <1>1, <2>2 DEF TypeOK, ReadOver
    <3>2. cache # None => cache \in Nat /\ cache <= clock
      BY <1>1 DEF TypeOK, Past, Time
    <3> QED  BY <1>1, <2>0, <3>1, <3>2 DEF RoundsInTime
  <2> QED  BY <2>1, <2>2
<1>5. ASSUME ~untidy' PROVE OneAtATime'
  <2>1. ~untidy /\ \A v \in Writers : Idle(v)
    BY <1>5
  <2>2. \A v \in Writers : v # w => Idle(v)'
    BY <2>1 DEF Idle, TypeOK
  <2>3. writer'[w] = [at |-> "latest", read |-> clock, held |-> <<>>] /\ ~Idle(w)'
    BY <1>0, <1>1 DEF Idle, TypeOK
  <2>4. Writing'
    BY <1>0, <2>3 DEF Writing
  <2>5. series # <<>> => LastOf(series) <= clock
    <3>1. series # <<>> => Len(series) \in 1..Len(series)
      BY <1>1, EmptySeq DEF TypeOK
    <3> QED  BY <1>1, <2>1, <3>1 DEF OneAtATime, LastOf
  <2> QED  BY <1>0, <1>1, <2>1, <2>2, <2>3, <2>4, <2>5 DEF OneAtATime, Spaced, LastOf
<1>6. OneAtATime'
  BY <1>5 DEF OneAtATime
<1> QED  BY <1>2, <1>3, <1>4, <1>6 DEF IInv

LEMMA ReadFailsKeeps ==
  ASSUME IInv, ReadFails
  PROVE  IInv'
<1> USE DEF ReadFails, stored
<1>1. OneAtATime'
  BY SeriesUnchanged DEF IInv
<1>2. TypeOK'
  <2>1. warmer' \in [at : {"timer", "before", "reading", "after"}, due : Nat]
    BY DEF IInv, TypeOK, ReadOver
  <2> QED  BY <2>1, FaultType DEF IInv, TypeOK
<1>3. Past' /\ RoundsInTime'
  BY DEF IInv, TypeOK, Past, RoundsInTime, ReadOver
<1> QED  BY <1>1, <1>2, <1>3 DEF IInv

\* The clock moves on, and a round that is late by now ends what was promised.
LEMMA TickKeeps ==
  ASSUME IInv, Tick
  PROVE  IInv'
<1>1. /\ TypeOK /\ Past /\ RoundsInTime /\ OneAtATime /\ clock \in Nat
      /\ clock' = clock + 1 /\ clock < MaxClock /\ warm' = (warm /\ ~Late)
      /\ UNCHANGED <<cache, running, hydration, warmer, latest, series, writer, faults, untidy>>
  BY DEF IInv, Tick, stored, TypeOK, Time
<1>2. TypeOK'
  BY <1>1, TimesAssumption DEF TypeOK, Time
<1>3. Past'
  <2>1. \A w \in Writers : writer[w].read \in Nat /\ writer[w].read <= clock + 1
    BY <1>1 DEF Past, TypeOK, Time
  <2> QED  BY <1>1, <2>1 DEF Past, TypeOK, Time
<1>4. RoundsInTime'
  <2> SUFFICES ASSUME warm, ~Late, warm' PROVE RoundsInTime'
    BY <1>1 DEF RoundsInTime
  <2>1. /\ cache # None /\ cache \in Nat /\ warmer.due \in Nat /\ RoundTime \in Nat
        /\ ~(clock + 1 > warmer.due + RoundTime)
    BY <1>1, TimesAssumption DEF TypeOK, RoundsInTime, Late, Time
  <2>2. CASE warmer.at = "after"
    BY <1>1, <2>1, <2>2 DEF RoundsInTime
  <2>3. CASE warmer.at # "after"
    BY <1>1, <2>1, <2>3 DEF RoundsInTime
  <2> QED  BY <2>2, <2>3
<1>5. OneAtATime'
  <2>1. (\A i \in 1..Len(series) : series[i] <= clock) => \A i \in 1..Len(series) : series[i] <= clock + 1
    <3>1. \A i \in 1..Len(series) : series[i] \in Time
      BY <1>1 DEF TypeOK
    <3> QED  BY <1>1, <3>1 DEF Time
  <2> QED  BY <1>1, <2>1 DEF OneAtATime, Spaced, Writing, Idle, LastOf
<1> QED  BY <1>2, <1>3, <1>4, <1>5 DEF IInv

LEMMA HydrateReadKeeps ==
  ASSUME IInv, HydrateRead
  PROVE  IInv'
<1> USE DEF HydrateRead, stored, history
<1>1. OneAtATime'
  BY SeriesUnchanged DEF IInv
<1>2. faults' \in 0..MaxFaults
  BY FaultType DEF IInv, TypeOK

<1>3. TypeOK' /\ Past' /\ RoundsInTime'
  <2>1. hydration' \in [at : {"none", "asked", "back"}, got : Time \cup {None}]
    BY DEF IInv, TypeOK
  <2> QED  BY <1>2, <2>1 DEF IInv, TypeOK, Past, RoundsInTime
<1> QED  BY <1>1, <1>3 DEF IInv

LEMMA HydrateKeeps ==
  ASSUME IInv, Hydrate
  PROVE  IInv'
<1> USE DEF Hydrate, stored, history
<1>1. OneAtATime'
  BY SeriesUnchanged DEF IInv
<1>2. TypeOK' /\ Past'
  BY NoneAssumption DEF IInv, TypeOK, Past, Good
<1>3. RoundsInTime'
  BY DEF IInv, RoundsInTime
<1> QED  BY <1>1, <1>2, <1>3 DEF IInv

LEMMA RestartKeeps ==
  ASSUME IInv, Restart
  PROVE  IInv'
<1>1. /\ TypeOK /\ Past /\ OneAtATime /\ clock \in Nat
      /\ UNCHANGED <<clock, latest, series>>
      /\ running' = FALSE /\ cache' = None /\ warm' = FALSE
      /\ hydration' = [at |-> "asked", got |-> None]
      /\ warmer' = [at |-> "timer", due |-> clock]
      /\ writer' = [w \in Writers |-> NotWriting]
      /\ untidy' = (untidy \/ \E w \in Writers : ~Idle(w))
  BY DEF IInv, Restart, Start, stored, TypeOK, Time
<1>2. faults' \in 0..MaxFaults
  BY FaultType DEF IInv, Restart
<1>3. TypeOK'
  <2>1. writer' \in [Writers -> [at : {"idle", "latest", "series", "append"},
                                read : Time, held : Seq(Time)]]
    <3>1. 0 \in Time /\ <<>> \in Seq(Time)
      BY TimesAssumption DEF Time
    <3> QED  BY <1>1, <3>1 DEF NotWriting
  <2>2. untidy' \in BOOLEAN
    BY <1>1
  <2>3. /\ hydration' \in [at : {"none", "asked", "back"}, got : Time \cup {None}]
        /\ warmer' \in [at : {"timer", "before", "reading", "after"}, due : Nat]
    BY <1>1
  <2> QED  BY <1>1, <1>2, <2>1, <2>2, <2>3 DEF TypeOK
<1>4. Past' /\ RoundsInTime'
  <2>1. \A w \in Writers : writer'[w].read <= clock
    BY <1>1 DEF NotWriting
  <2> QED  BY <1>1, <2>1 DEF Past, RoundsInTime
<1>5. OneAtATime'
  <2>1. \A w \in Writers : Idle(w)'
    BY <1>1 DEF Idle, NotWriting
  <2>2. ~untidy' => ~Writing /\ ~untidy
    BY <1>1 DEF Writing
  <2> QED  BY <1>1, <2>1, <2>2 DEF OneAtATime, Spaced, Writing, LastOf
<1> QED  BY <1>3, <1>4, <1>5 DEF IInv

\* What an answer to a command leaves of the bounds and the marks.
LEMMA ReplyType ==
  ASSUME TypeOK, NEW r, Reply(r)
  PROVE  /\ faults' \in 0..MaxFaults /\ untidy' \in BOOLEAN
         /\ ~untidy' => ~untidy /\ r = "done"
<1>1. CASE r = "done"
  BY <1>1 DEF Reply, TypeOK
<1>2. CASE r # "done"
  BY <1>2, FaultType DEF Reply
<1> QED  BY <1>1, <1>2

LEMMA SetLatestKeeps ==
  ASSUME IInv, NEW w \in Writers, SetLatest(w)
  PROVE  IInv'
<1> PICK r \in Replies : Reply(r) /\ latest' = IF r = "lost" THEN latest ELSE writer[w].read
  BY DEF SetLatest
<1>1. /\ TypeOK /\ Past /\ RoundsInTime /\ OneAtATime
      /\ writer[w].at = "latest" /\ writer' = [writer EXCEPT ![w].at = "series"]
      /\ UNCHANGED <<clock, cache, running, hydration, warmer, series, warm>>
  BY DEF IInv, SetLatest, Goes
<1>2. /\ faults' \in 0..MaxFaults /\ untidy' \in BOOLEAN
      /\ ~untidy' => ~untidy /\ latest' = writer[w].read
  BY <1>1, ReplyType
<1>3. TypeOK'
  <2>1. writer' \in [Writers -> [at : {"idle", "latest", "series", "append"},
                                read : Time, held : Seq(Time)]]
    BY <1>1 DEF TypeOK
  <2>2. latest' \in Time \cup {None}
    BY DEF IInv, TypeOK
  <2> QED  BY <1>1, <1>2, <2>1, <2>2 DEF TypeOK
<1>4. \A v \in Writers : /\ writer'[v].read = writer[v].read /\ writer'[v].held = writer[v].held
                         /\ v # w => writer'[v].at = writer[v].at
                         /\ v = w => writer'[v].at = "series"
  BY <1>1 DEF TypeOK
<1>5. Past' /\ RoundsInTime'
  BY <1>1, <1>4 DEF Past, RoundsInTime
<1>6. OneAtATime'
  <2> SUFFICES ASSUME ~untidy' PROVE OneAtATime'
    BY DEF OneAtATime
  <2>1. ~untidy /\ latest' = writer[w].read /\ \A v \in Writers : ~Idle(v) => v = w
    BY <1>1, <1>2 DEF OneAtATime, Idle
  <2>2. ASSUME NEW v \in Writers, v # w PROVE Idle(v)'
    <3>1. writer[v].at = "idle"
      BY <2>1, <2>2 DEF Idle
    <3>2. writer'[v].at = writer[v].at
      BY <1>4, <2>2
    <3> QED  BY <3>1, <3>2 DEF Idle
  <2>3. ~Idle(w)' /\ ~Idle(w)
    BY <1>1, <1>4 DEF Idle
  <2> QED  BY <1>1, <1>4, <2>1, <2>2, <2>3 DEF OneAtATime, Spaced, Writing, LastOf
<1> QED  BY <1>3, <1>5, <1>6 DEF IInv

LEMMA GetSeriesKeeps ==
  ASSUME IInv, NEW w \in Writers, GetSeries(w)
  PROVE  IInv'
<1>1. /\ TypeOK /\ Past /\ RoundsInTime /\ OneAtATime
      /\ writer[w].at = "series"
      /\ UNCHANGED <<clock, cache, running, hydration, warmer, latest, series, warm>>
  BY DEF IInv, GetSeries, stored
<1>2. CASE /\ writer' = [writer EXCEPT ![w].at = "append", ![w].held = series]
           /\ UNCHANGED <<faults, untidy>>
  <2>1. TypeOK'
    <3>1. writer' \in [Writers -> [at : {"idle", "latest", "series", "append"},
                                  read : Time, held : Seq(Time)]]
      BY <1>1, <1>2 DEF TypeOK
    <3> QED  BY <1>1, <1>2, <3>1 DEF TypeOK
  <2>2. \A v \in Writers : /\ writer'[v].read = writer[v].read
                           /\ v # w => writer'[v] = writer[v]
                           /\ v = w => writer'[v].at = "append" /\ writer'[v].held = series
    BY <1>1, <1>2 DEF TypeOK
  <2>3. Past' /\ RoundsInTime'
    <3>1. \A v \in Writers : writer'[v].read <= clock
      BY <1>1, <2>2 DEF Past
    <3> QED  BY <1>1, <1>2, <3>1 DEF Past, RoundsInTime
  <2>4. OneAtATime'
    <3> SUFFICES ASSUME ~untidy PROVE OneAtATime'
      BY <1>2 DEF OneAtATime
    <3>1. \A v \in Writers : ~Idle(v) => v = w
      BY <1>1 DEF OneAtATime, Idle
    <3>2. ~Idle(w)' /\ ~Idle(w)
      BY <1>1, <2>2 DEF Idle
    <3>3. ASSUME NEW v \in Writers, v # w PROVE Idle(v)'
      <4>1. writer[v].at = "idle" /\ writer'[v] = writer[v]
        BY <2>2, <3>1, <3>3 DEF Idle
      <4> QED  BY <4>1 DEF Idle
    <3> QED  BY <1>1, <1>2, <2>2, <3>1, <3>2, <3>3 DEF OneAtATime, Spaced, Writing, LastOf
  <2> QED  BY <2>1, <2>3, <2>4 DEF IInv
<1>3. CASE Reply("lost") /\ writer' = [writer EXCEPT ![w] = NotWriting]
  <2>1. faults' \in 0..MaxFaults /\ untidy' \in BOOLEAN /\ untidy'
    BY <1>1, <1>3, ReplyType
  <2>2. writer' \in [Writers -> [at : {"idle", "latest", "series", "append"},
                                read : Time, held : Seq(Time)]]
    <3>1. NotWriting \in [at : {"idle", "latest", "series", "append"}, read : Time, held : Seq(Time)]
      BY TimesAssumption DEF NotWriting, Time
    <3> QED  BY <1>1, <1>3, <3>1 DEF TypeOK
  <2>3. TypeOK'
    BY <1>1, <2>1, <2>2 DEF TypeOK
  <2>4. Past'
    <3>1. \A v \in Writers : writer'[v].read <= clock
      BY <1>1, <1>3 DEF TypeOK, Past, NotWriting, Time
    <3> QED  BY <1>1, <3>1 DEF Past
  <2>5. RoundsInTime' /\ OneAtATime'
    BY <1>1, <2>1 DEF RoundsInTime, OneAtATime
  <2> QED  BY <2>3, <2>4, <2>5 DEF IInv
<1> QED  BY <1>2, <1>3 DEF GetSeries

\* The point is the newest, and follows on what was read: the series.
LEMMA SetSeriesKeeps ==
  ASSUME IInv, NEW w \in Writers, SetSeries(w)
  PROVE  IInv'
<1> PICK r \in Replies :
      /\ Reply(r)
      /\ series' = IF r = "lost" THEN series ELSE AppendTo(writer[w].held, writer[w].read)
  BY DEF SetSeries
<1>1. /\ TypeOK /\ Past /\ RoundsInTime /\ OneAtATime /\ clock \in Nat
      /\ writer[w].at = "append" /\ writer' = [writer EXCEPT ![w] = NotWriting]
      /\ UNCHANGED <<clock, cache, running, hydration, warmer, latest, warm>>
      /\ writer[w].held \in Seq(Time) /\ writer[w].read \in Time
  BY DEF IInv, SetSeries, TypeOK, Time
<1>2. /\ faults' \in 0..MaxFaults /\ untidy' \in BOOLEAN
      /\ ~untidy' => ~untidy /\ r = "done"
  BY <1>1, ReplyType
<1>3. TypeOK'
  <2>1. writer' \in [Writers -> [at : {"idle", "latest", "series", "append"},
                                read : Time, held : Seq(Time)]]
    <3>1. NotWriting \in [at : {"idle", "latest", "series", "append"}, read : Time, held : Seq(Time)]
      BY TimesAssumption DEF NotWriting, Time
    <3> QED  BY <1>1, <3>1 DEF TypeOK
  <2>2. series' \in Seq(Time) /\ Len(series') <= SeriesMax
    BY <1>1, AppendToIs DEF TypeOK
  <2> QED  BY <1>1, <1>2, <2>1, <2>2 DEF TypeOK
<1>4. Past'
  <2>1. \A v \in Writers : writer'[v].read <= clock
    BY <1>1 DEF TypeOK, Past, NotWriting, Time
  <2> QED  BY <1>1, <2>1 DEF Past
<1>5. RoundsInTime'
  BY <1>1 DEF RoundsInTime
<1>6. OneAtATime'
  <2> SUFFICES ASSUME ~untidy' PROVE OneAtATime'
    BY DEF OneAtATime
  <2> DEFINE t == writer[w].read
  <2>1. /\ ~untidy /\ series' = AppendTo(series, t)
        /\ latest = t /\ t \in Time /\ t <= clock /\ series \in Seq(Time)
        /\ Spaced(series) /\ (series # <<>> => LastOf(series) <= t)
        /\ \A i \in 1..Len(series) : series[i] <= clock
        /\ \A v \in Writers : ~Idle(v) => v = w
    BY <1>1, <1>2 DEF OneAtATime, Idle, Past, TypeOK
  <2>2. \A v \in Writers : Idle(v)'
    BY <1>1, <2>1 DEF Idle, TypeOK, NotWriting
  <2>3. /\ series' # <<>> /\ LastOf(series') = t /\ Spaced(series')
        /\ \A i \in 1..Len(series') : series'[i] <= clock
    <3> HIDE DEF t
    <3> QED  BY <1>1, <2>1, AppendToIs
  <2> QED  BY <1>1, <2>1, <2>2, <2>3 DEF OneAtATime, Spaced, Writing, LastOf
<1> QED  BY <1>3, <1>4, <1>5, <1>6 DEF IInv

LEMMA StepOK == IInv /\ [Next]_vars => IInv'
<1> SUFFICES ASSUME IInv, [Next]_vars PROVE IInv'
  OBVIOUS
<1>1. CASE UNCHANGED vars
  <2>1. UNCHANGED <<clock, cache, running, hydration, warmer, latest, series, writer, faults, warm, untidy>>
    BY <1>1 DEF vars, stored, history
  <2>2. OneAtATime'
    BY <2>1, SeriesUnchanged DEF IInv
  <2> QED  BY <2>1, <2>2 DEF IInv, TypeOK, Past, RoundsInTime
<1>2. CASE \E w \in Writers : SetLatest(w) \/ GetSeries(w) \/ SetSeries(w)
  BY <1>2, SetLatestKeeps, GetSeriesKeeps, SetSeriesKeeps
<1> QED
  BY <1>1, <1>2, VisitKeeps, RoundBeginsKeeps, WarmChainKeeps, MeasuredKeeps, ReadFailsKeeps,
     RoundEndsKeeps, RestartKeeps, HydrateReadKeeps, HydrateKeeps, TickKeeps DEF Next

-----------------------------------------------------------------------------
(***************************************************************************)
(* The theorems.                                                           *)
(***************************************************************************)
\* The invariant holds of every behaviour.
LEMMA Invariant == Spec => []IInv
BY InitOK, StepOK, PTL DEF Spec

\* Every variable keeps its type, and the series its length.
THEOREM TypeCorrect == Spec => []TypeOK
<1>1. IInv => TypeOK
  BY DEF IInv
<1> QED  BY <1>1, Invariant, PTL

\* No reader waits once the warmer has measured, for any limits in which two
\* rounds and the pause between them are shorter than a measurement is good
\* (getSmartLiquidity.ts:14-20).
THEOREM WarmedIsEnough == Spec => []NoReaderWaits
<1>1. IInv => NoReaderWaits
  <2> SUFFICES ASSUME IInv, warm PROVE Good(cache)
    BY DEF NoReaderWaits
  <2>1. /\ clock \in Nat /\ cache \in Nat /\ warmer.due \in Nat /\ cache # None
        /\ {Ttl, WarmEvery, RoundTime} \subseteq Nat /\ WarmEvery + 2 * RoundTime < Ttl
    BY TimesAssumption, RoundAssumption DEF IInv, TypeOK, RoundsInTime, Time
  <2>2. clock <= cache + WarmEvery + 2 * RoundTime
    BY <2>1 DEF IInv, RoundsInTime
  <2> QED  BY <2>1, <2>2 DEF Good
<1> QED  BY <1>1, Invariant, PTL

\* As long as one measurement is put down at a time, the series is in order and
\* ends with the one a restart would be given (smartStore.ts:119-140).
THEOREM SeriesKept == Spec => []SeriesInOrder
<1>1. IInv => SeriesInOrder
  BY DEF IInv, OneAtATime, SeriesInOrder, Spaced
<1> QED  BY <1>1, Invariant, PTL

\* A process never goes back to an older measurement.
THEOREM NeverOlder == Spec => NeverBack
<1> DEFINE A == cache # None => \/ cache' # None /\ cache' >= cache
                                \/ cache' = None /\ hydration'.at = "asked"
<1>1. IInv /\ [Next]_vars => [A]_vars
  <2> SUFFICES ASSUME IInv, Next, cache # None
               PROVE  \/ cache' # None /\ cache' >= cache
                      \/ cache' = None /\ hydration'.at = "asked"
    OBVIOUS
  <2>0. cache \in Nat /\ cache <= clock /\ clock \in Nat
    BY DEF IInv, TypeOK, Past, Time
  <2>1. CASE Measured
    BY <2>0, <2>1, NoneAssumption DEF Measured
  <2>2. CASE Restart
    BY <2>2 DEF Restart, Start
  <2>3. CASE UNCHANGED cache
    BY <2>0, <2>3
  <2>4. CASE \E w \in Writers : SetLatest(w) \/ GetSeries(w) \/ SetSeries(w)
    BY <2>3, <2>4 DEF SetLatest, GetSeries, SetSeries
  <2>5. CASE Hydrate
    BY <2>3, <2>5 DEF Hydrate
  <2>6. CASE Visit \/ RoundBegins \/ WarmChain \/ ReadFails \/ RoundEnds \/ HydrateRead \/ Tick
    BY <2>3, <2>6 DEF Visit, RoundBegins, WarmChain, ReadFails, RoundEnds, HydrateRead, Tick
  <2> QED  BY <2>1, <2>2, <2>4, <2>5, <2>6 DEF Next
<1> QED  BY <1>1, Invariant, PTL DEF Spec, NeverBack

=============================================================================
