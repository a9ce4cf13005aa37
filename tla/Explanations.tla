----------------------------- MODULE Explanations -----------------------------
(***************************************************************************)
(* The prose under a pool's figures, which a model is paid to write         *)
(* (src/lib/ai/getRangeInterpretation.ts).  A page asks for it as it is     *)
(* written, section by section, and each section has a gate the page waits  *)
(* behind (ai/sectionGates.ts).  A whole answer that passed its checks is   *)
(* kept for an hour (ai/interpretationCache.ts); a page that finds one pays *)
(* nothing.  What pages may have written in an hour has a ceiling, counted  *)
(* by FixedWindow under one name (ai/explanationBudget.ts).  A warmer       *)
(* writes those of the front page ahead of their readers                    *)
(* (advisor/warmExplanations.ts, advisor/warmMostTraded.ts).                *)
(*                                                                          *)
(* A key is all the prose may depend on: a pool, its range as it reads, a   *)
(* language.  The model and the reads of the pools are external: they       *)
(* answer, or fail, within their patience.                                  *)
(***************************************************************************)
EXTENDS FixedWindow, FiniteSets

CONSTANTS
  Panels,       \* pages that may be answered at once
  Keys,
  FrontPage,    \* the keys a round of the warmer walks, in order
  Sections,     \* SECTION_KEYS
  Ttl,          \* CACHE_TTL_MS
  MaxEntries,   \* CACHE_MAX_ENTRIES
  PerHour,      \* EXPLANATIONS_PER_HOUR
  Hour,         \* HOUR_MS
  Every,        \* EXPLANATION_WARM_EVERY_MS
  Patience,     \* how long an answer may take, or the warmer for one pool
  MaxClock,     \* bound on the clock
  MaxAsked,     \* bound on the pages
  MaxFaults     \* bound on the warmer's failures

ASSUME ExplanationsAssumption ==
  /\ {Ttl, MaxEntries, PerHour, Hour, Every} \subseteq Nat \ {0}
  /\ {Patience, MaxClock, MaxAsked, MaxFaults} \subseteq Nat
  /\ FrontPage \in Seq(Keys)

VARIABLES
  clock,
  cache,        \* the entries of the Map, in the order they were put in
  budget,       \* the windows of the ceiling: one at most
  panel,        \* a page being answered, or the last that was
  round,        \* the warmer's
  asked, faults,
  calls,        \* the pages that had the model asked this hour, and when (history)
  written,      \* when each key was last put into the cache, if it was   (history)
  later         \* and the keys put there since                           (history)

vars == <<clock, cache, budget, panel, round, asked, faults, calls, written, later>>

Time     == 0..MaxClock
Everyone == "everyone"
Entries  == [key : Keys, writtenAt : Time]
Idle     == [at |-> "idle"]

Gates == [Sections -> {"open", "written", "missing"}]
Panel == [at : {"streams"}, key : Keys, gates : Gates, due : Nat]
         \cup [at : {"success", "failed", "capped"}, gates : Gates]

Calls == [page : 0..MaxAsked, at : Time]

Round == [at : {"rests", "reads", "writes"}, left : Seq(Keys), due : Nat]

TypeOK ==
  /\ clock \in Time
  /\ cache \in UNION {[1..n -> Entries] : n \in 0..MaxEntries}
  /\ budget \in Tables(Time, {Everyone}, PerHour, 1)
  /\ panel \in [Panels -> Panel \cup {Idle}]
  /\ round \in Round
  /\ asked \in 0..MaxAsked
  /\ faults \in 0..MaxFaults
  /\ calls \in SUBSET Calls
  /\ written \in [Keys -> {{}} \cup {{t} : t \in Time}]
  /\ later \in [Keys -> SUBSET Keys]

Init ==
  /\ clock = 0
  /\ cache = <<>>
  /\ budget = <<>>
  /\ panel = [r \in Panels |-> Idle]
  /\ round = [at |-> "rests", left |-> <<>>, due |-> 0]
  /\ asked = 0
  /\ faults = 0
  /\ calls = {}
  /\ written = [k \in Keys |-> {}]
  /\ later = [k \in Keys |-> {}]

-----------------------------------------------------------------------------
(***************************************************************************)
(* The cache.                                                              *)
(***************************************************************************)
\* Mutant: an entry never grows too old.
FreshWhenever(e) == e.writtenAt <= clock

Fresh(e) == clock - e.writtenAt < Ttl

Kept(k) == \E i \in DOMAIN cache : cache[i].key = k /\ Fresh(cache[i])

\* Looking a key up drops its entry if it has grown too old.
LookedUp(k) == IF Kept(k) THEN cache ELSE Without(cache, k)

\* Mutant: an entry written again keeps its place.
PutInPlace(k) ==
  IF \E i \in DOMAIN cache : cache[i].key = k
  THEN [i \in DOMAIN cache |-> IF cache[i].key = k THEN [key |-> k, writtenAt |-> clock]
                               ELSE cache[i]]
  ELSE Append(EvictUntilRoom(cache, MaxEntries), [key |-> k, writtenAt |-> clock])

\* An entry goes to the back, and the oldest give way to it.
Put(k) == PutLast(cache, [key |-> k, writtenAt |-> clock], MaxEntries)

Keeps(k) ==
  /\ cache' = Put(k)
  /\ written' = [written EXCEPT ![k] = {clock}]
  /\ later' = [l \in Keys |-> IF l = k \/ written[l] = {} THEN {} ELSE later[l] \cup {k}]

-----------------------------------------------------------------------------
(***************************************************************************)
(* The pages.                                                              *)
(***************************************************************************)
AllGates(state) == [s \in Sections |-> state]

Streams(r, k) ==
  panel' = [panel EXCEPT ![r] =
    [at |-> "streams", key |-> k, gates |-> AllGates("open"), due |-> clock + Patience]]

Ends(r, as, gates) == panel' = [panel EXCEPT ![r] = [at |-> as, gates |-> gates]]

\* The calls of the hour that has just gone by.
LastHour == {c \in calls : clock < c.at + Hour}

MayTake == Allows(budget, Everyone, clock, PerHour, Hour)

\* Mutant: the ceiling is asked before the cache.
TakesFirst(k) ==
  /\ budget' = Check(budget, Everyone, clock, PerHour, Hour, 1)
  /\ calls' = IF ~Kept(k) /\ MayTake THEN LastHour \cup {[page |-> asked, at |-> clock]} ELSE calls

\* Only a call is counted, not an answer that is kept.
Takes(k) ==
  IF Kept(k) THEN UNCHANGED <<budget, calls>>
  ELSE /\ budget' = Check(budget, Everyone, clock, PerHour, Hour, 1)
       /\ calls' = IF MayTake THEN LastHour \cup {[page |-> asked, at |-> clock]} ELSE calls

\* A page some of whose sections have not settled.
Waits(r) == panel[r] # Idle /\ \E s \in Sections : panel[r].gates[s] = "open"

\* A page asks: it is shown what is kept, or refused, or the model begins.
Ask(r, k) ==
  /\ panel[r].at # "streams" /\ ~Waits(r)
  /\ asked < MaxAsked
  /\ asked' = asked + 1
  /\ cache' = LookedUp(k)
  /\ Takes(k)
  /\ CASE Kept(k)              -> Ends(r, "success", AllGates("written"))
       [] ~Kept(k) /\ MayTake  -> Streams(r, k)
       [] ~Kept(k) /\ ~MayTake -> Ends(r, "capped", AllGates("missing"))
  /\ UNCHANGED <<clock, round, faults, written, later>>

\* A section is finished and passes its rule.  One that does not pass is
\* passed over, and so is one already delivered.
Deliver(r, s) ==
  /\ panel[r].at = "streams"
  /\ panel[r].gates[s] = "open"
  /\ panel' = [panel EXCEPT ![r].gates[s] = "written"]
  /\ UNCHANGED <<clock, cache, budget, round, asked, faults, calls, written, later>>

CloseRemaining(gates) ==
  [s \in Sections |-> IF gates[s] = "open" THEN "missing" ELSE gates[s]]

\* The answer is whole and passes: each of its sections has passed by then.
Succeeds(r) ==
  /\ panel[r].at = "streams"
  /\ \A s \in Sections : panel[r].gates[s] = "written"
  /\ Ends(r, "success", CloseRemaining(panel[r].gates))
  /\ Keeps(panel[r].key)
  /\ UNCHANGED <<clock, budget, round, asked, faults, calls>>

\* Mutant: gates are left as they are.
FailsOpen(r) ==
  /\ panel[r].at = "streams"
  /\ Ends(r, "failed", panel[r].gates)
  /\ UNCHANGED <<clock, cache, budget, round, asked, faults, calls, written, later>>

\* The stream breaks off, or throws, or the answer does not pass as a whole.
Fails(r) ==
  /\ panel[r].at = "streams"
  /\ Ends(r, "failed", CloseRemaining(panel[r].gates))
  /\ UNCHANGED <<clock, cache, budget, round, asked, faults, calls, written, later>>

-----------------------------------------------------------------------------
(***************************************************************************)
(* The warmer.                                                             *)
(***************************************************************************)
Fault ==
  /\ faults < MaxFaults
  /\ faults' = faults + 1

\* On to the next pool, or to the end of the round.
Walks(left) ==
  round' = [at |-> "reads", left |-> left,
            due |-> IF left = <<>> THEN clock ELSE clock + Patience]

RoundBegins ==
  /\ round.at = "rests"
  /\ round.due <= clock
  /\ Walks(FrontPage)
  /\ UNCHANGED <<clock, cache, budget, panel, asked, faults, calls, written, later>>

\* A pool whose explanation is kept is passed by; for another the model is
\* asked, whatever the ceiling says.
WarmNext ==
  /\ round.at = "reads"
  /\ round.left # <<>>
  /\ LET k == Head(round.left)
     IN  /\ cache' = LookedUp(k)
         /\ IF Kept(k) THEN Walks(Tail(round.left))
            ELSE round' = [round EXCEPT !.at = "writes"]
  /\ UNCHANGED <<clock, budget, panel, asked, faults, calls, written, later>>

\* The answer, which is kept though a page may have had one written meanwhile.
WarmWrites ==
  /\ round.at = "writes"
  /\ Keeps(Head(round.left))
  /\ Walks(Tail(round.left))
  /\ UNCHANGED <<clock, budget, panel, asked, faults, calls>>

\* The pool cannot be read, or the answer fails: the round goes on.  A read
\* that throws ends the round.
WarmFails ==
  /\ round.at \in {"reads", "writes"}
  /\ round.left # <<>>
  /\ Fault
  /\ \/ Walks(Tail(round.left))
     \/ round.at = "reads" /\ Walks(<<>>)
  /\ UNCHANGED <<clock, cache, budget, panel, asked, calls, written, later>>

RoundEnds ==
  /\ round.at = "reads"
  /\ round.left = <<>>
  /\ round' = [at |-> "rests", left |-> <<>>, due |-> clock + Every]
  /\ UNCHANGED <<clock, cache, budget, panel, asked, faults, calls, written, later>>

-----------------------------------------------------------------------------
\* Nothing takes longer than its patience, and timers are on time.
Tick ==
  /\ clock < MaxClock
  /\ \A r \in Panels : panel[r].at = "streams" => clock < panel[r].due
  /\ clock < round.due
  /\ clock' = clock + 1
  /\ UNCHANGED <<cache, budget, panel, round, asked, faults, calls, written, later>>

Next ==
  \/ \E r \in Panels : \/ \E k \in Keys : Ask(r, k)
                       \/ \E s \in Sections : Deliver(r, s)
                       \/ Succeeds(r) \/ Fails(r)
  \/ RoundBegins \/ WarmNext \/ WarmWrites \/ WarmFails \/ RoundEnds
  \/ Tick

Spec == Init /\ [][Next]_vars

\* The model's answer ends, one way or the other.
FairSpec == Spec /\ \A r \in Panels : WF_vars(Succeeds(r) \/ Fails(r))

-----------------------------------------------------------------------------
\* An explanation that was written is there for its hour, unless as many
\* others have been written since as the cache has room for: nobody pays for
\* it again (getRangeInterpretation.ts:68-71; interpretationCache.ts:129-133).
WrittenIsThere ==
  \A k \in Keys : \A t \in written[k] :
    clock < t + Ttl /\ Cardinality(later[k]) < MaxEntries => Kept(k)

\* A page is told the ceiling is reached only if pages had as many written in
\* the hour before: neither the warmer's nor what is kept counts
\* (explanationBudget.ts:14-16; getRangeInterpretation.ts:141-145).
CappedWhenSpent ==
  [][\A r \in Panels :
       panel'[r].at = "capped" /\ panel'[r] # panel[r] =>
         Cardinality(LastHour) >= PerHour]_vars

\* An explanation of the front page is never older than its hour and a round,
\* and another round for each time the warmer failed.
WarmedWithin ==
  LET longest == Ttl + (1 + faults) * (Every + Len(FrontPage) * Patience)
  IN  \A n \in DOMAIN FrontPage :
        \/ clock < longest
        \/ \E t \in written[FrontPage[n]] : clock < t + longest

\* No gate stays open: a page never waits for ever behind one
\* (sectionGates.ts:11-13; getRangeInterpretation.ts:330-341).
EveryGateSettles == \A r \in Panels : Waits(r) ~> ~Waits(r)
=============================================================================
