------------------------------ MODULE Measurements ------------------------------
(***************************************************************************)
(* What one chain's smart-money page shows: a measurement that takes long,  *)
(* kept in the process (src/lib/advisor/getSmartLiquidity.ts), read anew    *)
(* by a warmer (warmMostTraded.ts), put down in the store with a series of  *)
(* points (smartStore.ts, appendTo of smartHistory.ts), and taken from the  *)
(* store again after a restart (startMostTradedWarmer.ts).                  *)
(*                                                                          *)
(* A measurement is the time it was finished.  The month's cases are kept   *)
(* in the same way by getMonthCases.ts, without a series; the holders       *)
(* (owners) are appended to as the series is, and are left out, and so is   *)
(* that what the store keeps lapses, which is long after it is of use.      *)
(***************************************************************************)
EXTENDS Naturals, Sequences

CONSTANTS
  Writers,      \* measurements that may be put down at one time
  Ttl,          \* SMART_LIQUIDITY_TTL_MS
  WarmEvery,    \* SMART_LIQUIDITY_WARM_EVERY_MS
  MinGap,       \* MIN_GAP_MS
  SeriesMax,    \* SERIES_MAX
  RoundTime,    \* what a round of the warmer is expected to take at most
  MaxClock,     \* bound on the clock
  MaxFaults,    \* bound on restarts, failed reads and commands not answered
  None

ASSUME TimesAssumption ==
  /\ {Ttl, WarmEvery, MinGap, SeriesMax} \subseteq Nat \ {0}
  /\ {RoundTime, MaxClock, MaxFaults} \subseteq Nat
ASSUME NoneAssumption == None \notin Nat
\* A read is in the early part of one round and the late part of the next.
ASSUME RoundAssumption == WarmEvery + 2 * RoundTime < Ttl

VARIABLES
  clock,
  cache,        \* what this process keeps
  running,      \* whether a read is under way
  hydration,    \* the read of the store after a start
  warmer,
  latest,       \* what the store keeps: the last measurement
  series,       \*   and the points
  writer,       \* measurements being put down
  faults,
  warm,         \* the last round went well, and in time                 (history)
  untidy        \* two were put down at once, or one not to its end      (history)

stored  == <<latest, series>>
history == <<warm, untidy>>
vars == <<clock, cache, running, hydration, warmer, stored, writer, faults, history>>

Time == 0..MaxClock

NotWriting == [at |-> "idle", read |-> 0, held |-> <<>>]

TypeOK ==
  /\ clock \in Time
  /\ cache \in Time \cup {None}
  /\ running \in BOOLEAN
  /\ hydration \in [at : {"none", "asked", "back"}, got : Time \cup {None}]
  /\ warmer \in [at : {"timer", "before", "reading", "after"}, due : Nat]
  /\ latest \in Time \cup {None}
  /\ series \in Seq(Time) /\ Len(series) <= SeriesMax
  /\ writer \in [Writers -> [at : {"idle", "latest", "series", "append"},
                             read : Time, held : Seq(Time)]]
  /\ faults \in 0..MaxFaults
  /\ warm \in BOOLEAN
  /\ untidy \in BOOLEAN

\* A process that has just started: it asks the store, and the warmer's first
\* round is due.
Start ==
  /\ running' = FALSE
  /\ cache' = None
  /\ hydration' = [at |-> "asked", got |-> None]
  /\ warmer' = [at |-> "timer", due |-> clock]
  /\ writer' = [w \in Writers |-> NotWriting]

Init ==
  /\ clock = 0
  /\ cache = None
  /\ running = FALSE
  /\ hydration = [at |-> "asked", got |-> None]
  /\ warmer = [at |-> "timer", due |-> 0]
  /\ latest = None
  /\ series = <<>>
  /\ writer = [w \in Writers |-> NotWriting]
  /\ faults = 0
  /\ warm = FALSE
  /\ untidy = FALSE

Fault ==
  /\ faults < MaxFaults
  /\ faults' = faults + 1

Good(t) == t # None /\ clock - t < Ttl

Idle(w) == writer[w].at = "idle"

-----------------------------------------------------------------------------
(***************************************************************************)
(* Reading.                                                                *)
(***************************************************************************)
\* A page is given what is kept while it is good, and joins the read under way
\* (nothing changes), or starts one and waits.
Visit ==
  /\ ~Good(cache)
  /\ ~running
  /\ running' = TRUE
  /\ UNCHANGED <<clock, cache, hydration, warmer, stored, writer, faults, history>>

\* The warmer's timer goes off, and it reads the chains one after another.
RoundBegins ==
  /\ warmer.at = "timer" /\ clock >= warmer.due
  /\ warmer' = [warmer EXCEPT !.at = "before"]
  /\ UNCHANGED <<clock, cache, running, hydration, stored, writer, faults, history>>

\* It comes to this chain: a read is started, or the one under way is joined.
WarmChain ==
  /\ warmer.at = "before"
  /\ running' = TRUE
  /\ warmer' = [warmer EXCEPT !.at = "reading"]
  /\ UNCHANGED <<clock, cache, hydration, stored, writer, faults, history>>

\* Whoever waited goes on; the warmer goes on to the next chain.
ReadOver == warmer' = IF warmer.at = "reading" THEN [warmer EXCEPT !.at = "after"] ELSE warmer

\* Those that put measurements down are alike: one that is idle.
Unused == LET idle == {w \in Writers : Idle(w)}
          IN  IF idle = {} THEN {} ELSE {CHOOSE w \in idle : TRUE}

\* The read has measured: it is kept here at once, and nobody waits for the store.
Measured ==
  /\ running
  /\ running' = FALSE
  /\ cache' = clock
  /\ ReadOver
  /\ \E w \in Unused :
       /\ writer' = [writer EXCEPT ![w] = [at |-> "latest", read |-> clock, held |-> <<>>]]
       /\ untidy' = (untidy \/ \E v \in Writers : ~Idle(v))
  /\ warm' = (warm \/ warmer.at = "reading")
  /\ UNCHANGED <<clock, hydration, stored, faults>>

\* Mutant: a round is ended by a read that fails.
ReadFailsUncaught ==
  /\ Fault
  /\ running
  /\ running' = FALSE
  /\ warm' = FALSE
  /\ UNCHANGED <<clock, cache, warmer, hydration, stored, writer, untidy>>

\* The read has failed, or thrown: what is kept stays.
ReadFails ==
  /\ Fault
  /\ running
  /\ running' = FALSE
  /\ ReadOver
  /\ warm' = FALSE
  /\ UNCHANGED <<clock, cache, hydration, stored, writer, untidy>>

\* Mutant: the next round is due when what is kept runs out.
RoundEndsByTtl ==
  /\ warmer.at = "after"
  /\ warmer' = [at |-> "timer", due |-> clock + Ttl]
  /\ UNCHANGED <<clock, cache, running, hydration, stored, writer, faults, history>>

\* The last of the chains is read, and the timer set again.
RoundEnds ==
  /\ warmer.at = "after"
  /\ warmer' = [at |-> "timer", due |-> clock + WarmEvery]
  /\ UNCHANGED <<clock, cache, running, hydration, stored, writer, faults, history>>

-----------------------------------------------------------------------------
(***************************************************************************)
(* Putting a measurement down (persist, recordMeasurement): one action is  *)
(* one command of the store, answered or not.                              *)
(***************************************************************************)
Replies == {"done", "lost", "unheard"}

Reply(r) == IF r = "done" THEN UNCHANGED <<faults, untidy>> ELSE Fault /\ untidy' = TRUE

Goes(w, at) == writer' = [writer EXCEPT ![w].at = at]

\* The kinds of the holders are asked of the chain before; they change nothing
\* here.
SetLatest(w) ==
  /\ writer[w].at = "latest"
  /\ \E r \in Replies :
       /\ Reply(r)
       /\ latest' = IF r = "lost" THEN latest ELSE writer[w].read
  /\ Goes(w, "series")
  /\ UNCHANGED <<clock, cache, running, hydration, warmer, series, warm>>

\* A series that is not answered is not written over.
GetSeries(w) ==
  /\ writer[w].at = "series"
  /\ \/ /\ writer' = [writer EXCEPT ![w].at = "append", ![w].held = series]
        /\ UNCHANGED <<faults, untidy>>
     \/ /\ Reply("lost")
        /\ writer' = [writer EXCEPT ![w] = NotWriting]
  /\ UNCHANGED <<clock, cache, running, hydration, warmer, stored, warm>>

\* Mutant: one too many is kept.
NewestAndOne(s) == SubSeq(s, IF Len(s) > SeriesMax + 1 THEN Len(s) - SeriesMax ELSE 1, Len(s))

Newest(s) == SubSeq(s, IF Len(s) > SeriesMax THEN Len(s) - SeriesMax + 1 ELSE 1, Len(s))

\* The last point gives way to one that comes too soon after it.
TooSoon(s, t) == s # <<>> /\ t < s[Len(s)] + MinGap

\* Mutant: the last point never gives way.
AppendToAll(s, t) == Newest(Append(s, t))

AppendTo(s, t) ==
  Newest(Append(IF TooSoon(s, t) THEN SubSeq(s, 1, Len(s) - 1) ELSE s, t))

SetSeries(w) ==
  /\ writer[w].at = "append"
  /\ \E r \in Replies :
       /\ Reply(r)
       /\ series' = IF r = "lost" THEN series ELSE AppendTo(writer[w].held, writer[w].read)
  /\ writer' = [writer EXCEPT ![w] = NotWriting]
  /\ UNCHANGED <<clock, cache, running, hydration, warmer, latest, warm>>

-----------------------------------------------------------------------------
(***************************************************************************)
(* A restart, and what it finds.                                           *)
(***************************************************************************)
Restart ==
  /\ Fault
  /\ Start
  /\ warm' = FALSE
  /\ untidy' = (untidy \/ \E w \in Writers : ~Idle(w))
  /\ UNCHANGED <<clock, stored>>

HydrateRead ==
  /\ hydration.at = "asked"
  /\ \/ hydration' = [at |-> "back", got |-> latest] /\ UNCHANGED faults
     \/ hydration' = [at |-> "back", got |-> None] /\ Fault
  /\ UNCHANGED <<clock, cache, running, warmer, stored, writer, history>>

\* Mutant: what is kept by now is not looked at again.
HydrateAnyway ==
  /\ hydration.at = "back"
  /\ cache' = IF Good(hydration.got) THEN hydration.got ELSE cache
  /\ hydration' = [at |-> "none", got |-> None]
  /\ UNCHANGED <<clock, running, warmer, stored, writer, faults, history>>

\* What the store had is kept if it is good, and if nothing is kept by now.
Hydrate ==
  /\ hydration.at = "back"
  /\ cache' = IF Good(hydration.got) /\ cache = None THEN hydration.got ELSE cache
  /\ hydration' = [at |-> "none", got |-> None]
  /\ UNCHANGED <<clock, running, warmer, stored, writer, faults, history>>

\* A round that takes longer than expected, or begins late, is not in time.
Late == clock + 1 > warmer.due + RoundTime

Tick ==
  /\ clock < MaxClock
  /\ clock' = clock + 1
  /\ warm' = (warm /\ ~Late)
  /\ UNCHANGED <<cache, running, hydration, warmer, stored, writer, faults, untidy>>

Next ==
  \/ Visit \/ RoundBegins \/ WarmChain \/ Measured \/ ReadFails \/ RoundEnds
  \/ \E w \in Writers : SetLatest(w) \/ GetSeries(w) \/ SetSeries(w)
  \/ Restart \/ HydrateRead \/ Hydrate
  \/ Tick

Spec == Init /\ [][Next]_vars

\* A read ends, by the limits in time of its requests; so does every command,
\* and the loop goes on.
Fairness ==
  /\ WF_vars(WarmChain) /\ WF_vars(Measured \/ ReadFails) /\ WF_vars(RoundEnds)
  /\ \A w \in Writers : WF_vars(SetLatest(w))
                        /\ WF_vars(GetSeries(w)) /\ WF_vars(SetSeries(w))

FairSpec == Spec /\ Fairness

-----------------------------------------------------------------------------
\* No reader waits once the warmer has measured, as long as its rounds go well
\* and take no longer than the time between the two limits allows
\* (getSmartLiquidity.ts:17, "read anew every six by the warmer, so no reader
\* waits on the read").
NoReaderWaits == warm => Good(cache)

\* A process never goes back to an older measurement: not to the store's, and
\* not to that of a read that took longer (getSmartLiquidity.ts:93-97, "and
\* nothing newer").
NeverBack ==
  [][cache # None => \/ cache' # None /\ cache' >= cache
                     \/ cache' = None /\ hydration'.at = "asked"]_vars

\* Once one measurement at a time was put down and each to its end, the series
\* ends with the one the store would give a restart, and no two of its points
\* are closer than the least gap.
LastOf(s) == s[Len(s)]
Writing == \E w \in Writers : ~Idle(w)
SeriesInOrder ==
  ~untidy =>
    /\ \A i \in 1..(Len(series) - 1) : series[i] + MinGap <= series[i + 1]
    /\ ~Writing => IF series = <<>> THEN latest = None ELSE latest = LastOf(series)

\* The warmer goes on after a read that failed, and after one somebody else began.
WarmerGoesOn == warmer.at # "timer" ~> warmer.at = "timer"

=============================================================================
