------------------------------ MODULE WatchProofs ------------------------------
(***************************************************************************)
(* What the operator hears of, for any sites, any number of faults and of  *)
(* turns, and whatever the copies are kept for.                            *)
(***************************************************************************)
EXTENDS Watch, TLAPS

-----------------------------------------------------------------------------
(***************************************************************************)
(* Types.                                                                  *)
(***************************************************************************)
Run   == [at : {"tells", "puts"}, after : [Sites -> Memory]]
Asked == [at : {"tells"}, now : SUBSET Problems, left : SUBSET Problems]

LEMMA RunKinds ==
  /\ Idle \notin Run /\ Idle \notin Asked
  /\ Idle.at = "idle"
  /\ \A w \in Run : w.at \in {"tells", "puts"} /\ w.after \in [Sites -> Memory]
  /\ \A c \in Asked : c.at = "tells" /\ c.now \subseteq Problems /\ c.left \subseteq Problems
<1>1. Idle.at = "idle"
  BY DEF Idle
<1>2. \A w \in Run : w.at \in {"tells", "puts"} /\ w.after \in [Sites -> Memory]
  BY DEF Run
<1>3. \A c \in Asked : c.at = "tells" /\ c.now \subseteq Problems /\ c.left \subseteq Problems
  BY DEF Asked
<1>4. Idle \notin Run
  BY <1>1, <1>2
<1>5. Idle \notin Asked
  BY <1>1, <1>3
<1> QED
  BY <1>1, <1>2, <1>3, <1>4, <1>5

LEMMA DecidedTyped ==
  ASSUME NEW m \in Memory, NEW reachable \in BOOLEAN
  PROVE  Decided(m, reachable) \in Memory
  BY WatchAssumption DEF Decided, Memory, Fresh

LEMMA TypeInit == Init => TypeOK
<1> SUFFICES ASSUME Init PROVE TypeOK
  OBVIOUS
<1>1. Fresh \in Memory
  BY WatchAssumption DEF Fresh, Memory
<1>2. 0 \in 0..DownAfter /\ 0 \in 0..MaxTurns /\ 0 \in 0..MaxFaults /\ 0 \in 0..(Day - 1)
      /\ Never \in 0..Never
  BY WatchAssumption DEF Never
<1> QED
  BY <1>1, <1>2 DEF Init, TypeOK

\* The worker.
LEMMA WorkerTyped == TypeOK /\ WorkerSteps => TypeOK'
<1> SUFFICES ASSUME TypeOK, WorkerSteps PROVE TypeOK'
  OBVIOUS
<1> USE DEF world, script, backups
<1>0. /\ memory \in [Sites -> Memory] /\ worker \in {Idle} \cup Run
      /\ missed \in [Sites -> 0..DownAfter] /\ faults \in 0..MaxFaults
  BY DEF TypeOK, Run
<1>1. CASE WorkerAsks
  <2> DEFINE after == [s \in Sites |-> Decided(memory[s], Reachable(s))]
  <2>1. after \in [Sites -> Memory]
    <3>1. \A s \in Sites : Reachable(s) \in BOOLEAN
      BY DEF Reachable, TypeOK
    <3> QED
      BY <1>0, <3>1, DecidedTyped
  <2>2. missed' \in [Sites -> 0..DownAfter]
    BY <1>0, <1>1, WatchAssumption DEF WorkerAsks
  <2>5. behind' \subseteq Sites /\ faults' \in 0..MaxFaults
    <3>1. Catches(after) \/ UNCHANGED behind \/ Loses(after)
      BY <1>1 DEF WorkerAsks
    <3>2. behind' \subseteq Sites
      <4> HIDE DEF after
      <4> QED
        BY <3>1 DEF TypeOK, Loses, Catches, Changed
    <3>3. UNCHANGED faults \/ Fault
      BY <1>1 DEF WorkerAsks
    <3>4. faults' \in 0..MaxFaults
      BY <1>0, <3>3, WatchAssumption DEF Fault
    <3> QED
      BY <3>2, <3>4
  <2>3. worker' \in {Idle} \cup Run
    <3>1. worker' = Idle \/ worker' = [at |-> IF Crossed(after) = {} THEN "puts" ELSE "tells",
                                       after |-> after]
      BY <1>1 DEF WorkerAsks
    <3> HIDE DEF after
    <3> QED
      BY <2>1, <3>1 DEF Run
  <2>4. due' \subseteq Jobs
    BY <1>1 DEF WorkerAsks, Done, TypeOK
  <2> QED
    BY <1>1, <2>2, <2>3, <2>4, <2>5 DEF WorkerAsks, TypeOK, Run
<1>2. CASE WorkerTells
  <2>1. worker \in Run /\ worker.at = "tells"
    BY <1>0, <1>2, RunKinds DEF WorkerTells
  <2>2. worker' \in {Idle} \cup Run
    BY <1>2, <2>1 DEF WorkerTells, Run
  <2>3. heard' \in [Sites -> {"up", "down"}]
    BY <1>2, <2>1 DEF WorkerTells, Told, TypeOK, Run, Memory
  <2>4. astray' \subseteq Sites /\ behind' \subseteq Sites
    BY <1>2 DEF WorkerTells, TypeOK, Crossed, Changed, Loses, Catches
  <2>5. due' \subseteq Jobs /\ faults' \in 0..MaxFaults
    BY <1>0, <1>2, WatchAssumption DEF WorkerTells, TypeOK, Done, Fault
  <2> QED
    BY <1>2, <2>2, <2>3, <2>4, <2>5 DEF WorkerTells, TypeOK, Run
<1>3. CASE WorkerPuts
  <2>1. worker \in Run /\ worker.at = "puts"
    BY <1>0, <1>3, RunKinds DEF WorkerPuts
  <2>2. memory' \in [Sites -> Memory]
    BY <1>0, <1>3, <2>1, RunKinds DEF WorkerPuts
  <2>4. astray' \subseteq Sites /\ behind' \subseteq Sites
    BY <1>3 DEF WorkerPuts, TypeOK, Crossed, Changed, Loses, Catches
  <2>5. due' \subseteq Jobs /\ faults' \in 0..MaxFaults
    BY <1>0, <1>3, WatchAssumption DEF WorkerPuts, TypeOK, Done, Fault
  <2> QED
    BY <1>3, <2>2, <2>4, <2>5 DEF WorkerPuts, TypeOK
<1> QED
  BY <1>1, <1>2, <1>3 DEF WorkerSteps

\* The script.
LEMMA CheckTyped == TypeOK /\ CheckSteps => TypeOK'
<1> SUFFICES ASSUME TypeOK, CheckSteps PROVE TypeOK'
  OBVIOUS
<1> USE DEF world, outside, backups
<1>0. check \in {Idle} \cup Asked /\ recorded \subseteq Problems
  BY DEF TypeOK, Asked
<1>1. CASE CheckAsks
  <2>1. \A judged \in BOOLEAN : Current(judged) \subseteq Problems
    BY <1>0 DEF Current, Problems
  <2>2. check' \in Asked
    BY <1>0, <1>1, <2>1 DEF CheckAsks, Asked
  <2>3. deaf' \in BOOLEAN /\ stale' \in BOOLEAN /\ unjudged' \in BOOLEAN
    BY <1>1 DEF CheckAsks, TypeOK, Answers, BackupStale
  <2> QED
    BY <1>1, <2>2, <2>3 DEF CheckAsks, TypeOK, Asked
<1>2. CASE CheckTells
  <2>1. check \in Asked
    BY <1>0, <1>2, RunKinds DEF CheckTells
  <2>2. PICK p \in check.left :
          /\ check' = [check EXCEPT !.left = @ \ {p}]
          /\ \/ /\ heardOf' = IF p \in check.now THEN heardOf \cup {p} ELSE heardOf \ {p}
                /\ UNCHANGED <<faults, deaf>>
             \/ /\ Fault
                /\ deaf' = TRUE
                /\ UNCHANGED heardOf
    BY <1>2 DEF CheckTells
  <2>3. check' \in Asked
    BY <2>1, <2>2 DEF Asked
  <2>4. heardOf' \subseteq Problems
    BY <2>1, <2>2, RunKinds DEF TypeOK
  <2>5. deaf' \in BOOLEAN
    BY <2>2 DEF TypeOK
  <2>6. faults' \in 0..MaxFaults
    <3>1. CASE UNCHANGED faults
      BY <3>1 DEF TypeOK
    <3>2. CASE Fault
      BY <3>2, WatchAssumption DEF TypeOK, Fault
    <3> QED
      BY <2>2, <3>1, <3>2
  <2> QED
    BY <1>2, <2>3, <2>4, <2>5, <2>6 DEF CheckTells, TypeOK, Asked
<1>3. CASE CheckRecords
  <2>1. check \in Asked
    BY <1>0, <1>3, RunKinds DEF CheckRecords
  <2>2. recorded' \subseteq Problems /\ due' \subseteq Jobs
    BY <1>3, <2>1, RunKinds DEF CheckRecords, Done, TypeOK
  <2> QED
    BY <1>3, <2>2 DEF CheckRecords, TypeOK
<1> QED
  BY <1>1, <1>2, <1>3 DEF CheckSteps

LEMMA AgedTyped ==
  ASSUME copies \subseteq 1..KeepFor
  PROVE  Aged \subseteq 1..KeepFor
  BY WatchAssumption DEF Aged

LEMMA TypeStep == TypeOK /\ [Next]_vars => TypeOK'
<1> SUFFICES ASSUME TypeOK, [Next]_vars PROVE TypeOK'
  OBVIOUS
<1> USE DEF world, outside, script, backups
<1>1. CASE Backup
  <2>1. 0 \in 0..Never /\ KeepFor \in 1..KeepFor
    BY WatchAssumption DEF Never
  <2>2. stamp' \in 0..Never /\ copies' \subseteq 1..KeepFor
    BY <1>1, <2>1 DEF Backup, TypeOK
  <2>3. deaf' \in BOOLEAN /\ due' \subseteq Jobs
    BY <1>1 DEF Backup, TypeOK, Done
  <2>4. faults' \in 0..MaxFaults
    BY <1>1, WatchAssumption DEF Backup, TypeOK, Fault
  <2> QED
    BY <1>1, <2>2, <2>3, <2>4 DEF Backup, TypeOK
<1>2. CASE Stops
  <2>1. turns' \in 0..MaxTurns
    BY <1>2, WatchAssumption DEF Stops, Turn, TypeOK
  <2>2. on' \in BOOLEAN /\ deaf' \in BOOLEAN /\ due' \subseteq Jobs /\ check' = Idle
    BY <1>2 DEF Stops, TypeOK
  <2> QED
    BY <1>2, <2>1, <2>2 DEF Stops, TypeOK
<1>3. CASE Starts
  BY <1>3, WatchAssumption DEF Starts, Turn, TypeOK
<1>4. CASE BackupTurns
  BY <1>4, WatchAssumption DEF BackupTurns, Turn, TypeOK
<1>5. ASSUME NEW s \in Sites, SiteTurns(s) PROVE TypeOK'
  BY <1>5, WatchAssumption DEF SiteTurns, Turn, TypeOK
<1>6. CASE Tick
  <2>1. hour' \in 0..(Day - 1)
    <3>1. hour \in Nat /\ Day \in Nat \ {0}
      BY WatchAssumption DEF TypeOK
    <3> QED
      BY <1>6, <3>1 DEF Tick
  <2>2. stamp' \in 0..Never
    BY <1>6, WatchAssumption DEF Tick, TypeOK, Never
  <2>3. copies' \subseteq 1..KeepFor
    BY <1>6, AgedTyped DEF Tick, TypeOK
  <2>4. due' \subseteq Jobs /\ deaf' \in BOOLEAN
    BY <1>6 DEF Tick, TypeOK, Jobs
  <2> QED
    BY <1>6, <2>1, <2>2, <2>3, <2>4 DEF Tick, TypeOK
<1>7. CASE UNCHANGED vars
  BY <1>7 DEF vars, TypeOK
<1> QED
  BY <1>1, <1>2, <1>3, <1>4, <1>5, <1>6, <1>7, WorkerTyped, CheckTyped DEF Next

\* Every variable keeps its type, for any sites and bounds.
THEOREM TypeCorrect == Spec => []TypeOK
  BY TypeInit, TypeStep, PTL DEF Spec

-----------------------------------------------------------------------------
(***************************************************************************)
(* The worker.                                                             *)
(***************************************************************************)
\* What the operator was last told is what the store has, until it is told
\* something new; from then on it is what the run will put there.
AsHeard ==
  /\ worker.at # "puts" => \A s \in Sites \ astray : heard[s] = memory[s].state
  /\ worker.at = "puts" =>
       /\ \A s \in Sites \ astray : heard[s] = worker.after[s].state
       /\ \A s \in Crossed(worker.after) : heard[s] = worker.after[s].state

\* The failures of what is known are those in a row, and one is down only after
\* as many as it takes.
Counts(known) ==
  \A s \in Sites : s \notin behind => known[s].failures = missed[s]
DownIsLate(known) ==
  \A s \in Sites : known[s].state = "down" => known[s].failures = DownAfter

InARow ==
  /\ worker = Idle => Counts(memory)
  /\ DownIsLate(memory)
  /\ worker # Idle => /\ Counts(worker.after) /\ DownIsLate(worker.after)
                      /\ \A s \in Sites : worker.after[s] = Fresh => missed[s] = 0

Remembered == TypeOK /\ AsHeard /\ InARow

\* What one site is found to be.
LEMMA DecidedCounts ==
  ASSUME NEW m \in Memory, NEW reachable \in BOOLEAN, NEW n \in 0..DownAfter,
         m.state = "down" => m.failures = DownAfter
  PROVE  LET d    == Decided(m, reachable)
             then == IF reachable THEN 0 ELSE IF n < DownAfter THEN n + 1 ELSE DownAfter
         IN  /\ m.failures = n => d.failures = then
             /\ d.state = "down" => d.failures = DownAfter
             /\ d = Fresh => then = 0
  BY WatchAssumption DEF Decided, Memory, Fresh

LEMMA OthersLeaveIt ==
  ASSUME [Next]_vars, ~WorkerSteps
  PROVE  UNCHANGED outside
  BY DEF Next, CheckSteps, CheckAsks, CheckTells, CheckRecords, Backup, Stops, Starts,
     BackupTurns, SiteTurns, Tick, vars, outside

LEMMA AsksRemembered ==
  ASSUME Remembered, TypeOK', WorkerAsks
  PROVE  AsHeard' /\ InARow'
<1> DEFINE after == [s \in Sites |-> Decided(memory[s], Reachable(s))]
<1>0. /\ memory \in [Sites -> Memory] /\ missed \in [Sites -> 0..DownAfter]
      /\ worker = Idle /\ AsHeard /\ InARow /\ \A s \in Sites : Reachable(s) \in BOOLEAN
  BY DEF Remembered, TypeOK, WorkerAsks, Reachable
<1>1. /\ UNCHANGED <<memory, heard, astray>>
      /\ \A s \in Sites : missed'[s] = IF Reachable(s) THEN 0
                                       ELSE IF missed[s] < DownAfter THEN missed[s] + 1 ELSE DownAfter
  BY <1>0 DEF WorkerAsks
<1>2. DownIsLate(memory) /\ Counts(memory)
  BY <1>0 DEF InARow
<1>3. ASSUME NEW s \in Sites
      PROVE  /\ memory[s].failures = missed[s] => after[s].failures = missed'[s]
             /\ after[s].state = "down" => after[s].failures = DownAfter
             /\ after[s] = Fresh => missed'[s] = 0
  BY <1>0, <1>1, <1>2, DecidedCounts DEF DownIsLate
<1>4. /\ \A s \in Sites : s \notin behind => after[s].failures = missed'[s]
      /\ \A s \in Sites : after[s].state = "down" => after[s].failures = DownAfter
      /\ \A s \in Sites : after[s] = Fresh => missed'[s] = 0
  BY <1>1, <1>2, <1>3 DEF Counts
<1>5. DownIsLate(memory)'
  BY <1>1, <1>2 DEF DownIsLate
<1>6. worker.at # "puts"
  BY <1>0, RunKinds
<1>7. CASE /\ after = memory
           /\ worker' = Idle
           /\ Catches(after)
  <2> HIDE DEF after
  <2>1. ASSUME NEW s \in Sites, s \notin behind' PROVE memory'[s].failures = missed'[s]
    <3>1. CASE s \notin behind
      BY <1>1, <1>4, <1>7, <3>1
    <3>2. CASE after[s] = Fresh
      BY <1>1, <1>4, <1>7, <3>2 DEF Fresh
    <3> QED
      BY <1>7, <2>1, <3>1, <3>2 DEF Catches
  <2>2. AsHeard'
    BY <1>0, <1>1, <1>6, <1>7, RunKinds DEF AsHeard
  <2> QED
    BY <1>5, <1>7, <2>1, <2>2 DEF InARow, Counts
<1>8. CASE /\ worker' = [at |-> IF Crossed(after) = {} THEN "puts" ELSE "tells", after |-> after]
           /\ UNCHANGED behind
  <2> HIDE DEF after
  <2>2. worker'.after = after /\ worker' # Idle /\ worker'.at = IF Crossed(after) = {} THEN "puts" ELSE "tells"
    BY <1>8, RunKinds
  <2>3. InARow'
    BY <1>4, <1>5, <1>8, <2>2 DEF InARow, Counts, DownIsLate
  <2>4. CASE Crossed(after) = {}
    <3>1. \A s \in Sites : after[s].state = memory[s].state
      BY <2>4 DEF Crossed
    <3> QED
      BY <1>0, <1>1, <1>6, <2>2, <2>3, <2>4, <3>1 DEF AsHeard, Crossed
  <2>5. CASE Crossed(after) # {}
    BY <1>0, <1>1, <1>6, <2>2, <2>3, <2>5 DEF AsHeard
  <2> QED
    BY <2>4, <2>5
<1>9. CASE /\ worker' = Idle
           /\ Loses(after)
  <2> HIDE DEF after
  <2>1. \A s \in Sites : s \notin behind' => s \notin behind /\ after[s] = memory[s]
    BY <1>9 DEF Loses, Changed
  <2>2. Counts(memory)'
    BY <1>1, <1>4, <2>1 DEF Counts
  <2>3. AsHeard'
    BY <1>0, <1>1, <1>6, <1>9, RunKinds DEF AsHeard
  <2> QED
    BY <1>5, <1>9, <2>2, <2>3 DEF InARow
<1> QED
  BY <1>7, <1>8, <1>9 DEF WorkerAsks

LEMMA TellsRemembered ==
  ASSUME Remembered, TypeOK', WorkerTells
  PROVE  AsHeard' /\ InARow'
<1>0. /\ worker \in Run /\ worker.at = "tells" /\ worker # Idle /\ AsHeard /\ InARow
      /\ UNCHANGED <<memory, missed>>
  BY RunKinds DEF Remembered, TypeOK, WorkerTells, Run
<1>1. CASE Told /\ worker' = [worker EXCEPT !.at = "puts"] /\ UNCHANGED <<astray, behind>>
  <2>1. worker'.at = "puts" /\ worker'.after = worker.after /\ worker' # Idle
    BY <1>0, <1>1, RunKinds DEF Run
  <2>2. \A s \in Sites : heard'[s] = worker.after[s].state
    BY <1>1 DEF Told
  <2>3. AsHeard'
    BY <2>1, <2>2 DEF AsHeard, Crossed
  <2>4. InARow'
    BY <1>0, <1>1, <2>1 DEF InARow, Counts, DownIsLate
  <2> QED
    BY <2>3, <2>4
<1>2. CASE /\ \/ Told /\ astray' = astray \cup Crossed(worker.after)
              \/ UNCHANGED <<heard, astray>>
           /\ Loses(worker.after)
           /\ worker' = Idle
  <2>1. worker'.at # "puts"
    BY <1>2, RunKinds
  <2>2. \A s \in Sites \ astray' : heard'[s] = memory[s].state
    <3>1. \A s \in Sites \ astray : heard[s] = memory[s].state
      BY <1>0 DEF AsHeard
    <3>2. CASE Told /\ astray' = astray \cup Crossed(worker.after)
      BY <3>2 DEF Told, Crossed
    <3>3. CASE UNCHANGED <<heard, astray>>
      BY <3>1, <3>3
    <3> QED
      BY <1>2, <3>2, <3>3
  <2>3. \A s \in Sites : s \notin behind' => s \notin behind /\ worker.after[s] = memory[s]
    BY <1>2 DEF Loses, Changed
  <2>4. InARow'
    BY <1>0, <1>2, <2>3 DEF InARow, Counts, DownIsLate
  <2> QED
    BY <1>0, <2>1, <2>2, <2>4 DEF AsHeard
<1> QED
  BY <1>1, <1>2 DEF WorkerTells

LEMMA PutsRemembered ==
  ASSUME Remembered, TypeOK', WorkerPuts
  PROVE  AsHeard' /\ InARow'
<1>0. /\ worker \in Run /\ worker.at = "puts" /\ worker # Idle /\ AsHeard /\ InARow
      /\ UNCHANGED <<heard, missed>> /\ worker' = Idle /\ worker'.at # "puts"
  BY RunKinds DEF Remembered, TypeOK, WorkerPuts, Run
<1>1. /\ \A s \in Sites \ astray : heard[s] = worker.after[s].state
      /\ \A s \in Crossed(worker.after) : heard[s] = worker.after[s].state
  BY <1>0 DEF AsHeard
<1>2. CASE /\ memory' = worker.after
           /\ astray' = astray \ Crossed(worker.after)
           /\ Catches(worker.after)
  <2>1. AsHeard'
    BY <1>0, <1>1, <1>2 DEF AsHeard
  <2>2. ASSUME NEW s \in Sites, s \notin behind' PROVE memory'[s].failures = missed'[s]
    <3>1. CASE s \notin behind
      BY <1>0, <1>2, <3>1 DEF InARow, Counts
    <3>2. CASE worker.after[s] = Fresh
      BY <1>0, <1>2, <3>2 DEF InARow, Fresh
    <3> QED
      BY <1>2, <2>2, <3>1, <3>2 DEF Catches
  <2>3. InARow'
    BY <1>0, <1>2, <2>2 DEF InARow, Counts, DownIsLate
  <2> QED
    BY <2>1, <2>3
<1>3. CASE /\ astray' = astray \cup Crossed(worker.after)
           /\ Loses(worker.after)
           /\ UNCHANGED memory
  <2>1. \A s \in Sites \ astray' : heard'[s] = memory'[s].state
    BY <1>0, <1>1, <1>3 DEF Crossed
  <2>2. \A s \in Sites : s \notin behind' => s \notin behind /\ worker.after[s] = memory[s]
    BY <1>3 DEF Loses, Changed
  <2>3. InARow'
    BY <1>0, <1>3, <2>2 DEF InARow, Counts, DownIsLate
  <2> QED
    BY <1>0, <2>1, <2>3 DEF AsHeard
<1> QED
  BY <1>2, <1>3 DEF WorkerPuts

LEMMA RememberedInit == Init => Remembered
<1> SUFFICES ASSUME Init PROVE Remembered
  OBVIOUS
<1>1. worker = Idle /\ worker.at # "puts"
  BY RunKinds DEF Init
<1>2. AsHeard
  BY <1>1 DEF Init, AsHeard, Fresh
<1>3. InARow
  BY <1>1 DEF Init, InARow, Counts, DownIsLate, Fresh
<1> QED
  BY <1>2, <1>3, TypeInit DEF Remembered

LEMMA RememberedStep == Remembered /\ [Next]_vars => Remembered'
<1> SUFFICES ASSUME Remembered, [Next]_vars PROVE Remembered'
  OBVIOUS
<1>0. TypeOK /\ TypeOK'
  BY TypeStep DEF Remembered
<1>1. CASE WorkerSteps
  BY <1>0, <1>1, AsksRemembered, TellsRemembered, PutsRemembered DEF WorkerSteps, Remembered
<1>2. CASE ~WorkerSteps
  <2>1. UNCHANGED outside
    BY <1>2, OthersLeaveIt
  <2> QED
    BY <1>0, <2>1 DEF Remembered, AsHeard, InARow, Counts, DownIsLate, Crossed, outside
<1> QED
  BY <1>1, <1>2

LEMMA AlwaysRemembered == Spec => []Remembered
  BY RememberedInit, RememberedStep, PTL DEF Spec

\* What the operator was last told of a site is what the worker has put in its
\* store, but where a word or a write about it was lost (worker.ts:104-111).
THEOREM ToldAsKept == Spec => []HeardAsKept
<1>1. Remembered => HeardAsKept
  BY RunKinds DEF Remembered, AsHeard, HeardAsKept
<1> QED
  BY <1>1, AlwaysRemembered, PTL

\* No site is called down before it was missed that many times in a row, but
\* where a write about it was lost (uptime.ts:30-38).
THEOREM DownWhenMissed == Spec => DownOnlyInARow
<1> DEFINE A == \A s \in Sites \ behind :
                  heard[s] = "up" /\ heard'[s] = "down" => missed[s] >= DownAfter
<1>1. Remembered /\ [Next]_vars => A
  <2> SUFFICES ASSUME Remembered, [Next]_vars, NEW s \in Sites \ behind,
                      heard[s] = "up", heard'[s] = "down"
               PROVE  missed[s] >= DownAfter
    OBVIOUS
  <2>1. heard' # heard
    OBVIOUS
  <2>2. WorkerTells
    BY <2>1, OthersLeaveIt DEF outside, WorkerSteps, WorkerAsks, WorkerPuts
  <2>3. heard' = [t \in Sites |-> worker.after[t].state] /\ worker.at = "tells"
    BY <2>1, <2>2 DEF WorkerTells, Told
  <2>4. worker # Idle
    BY <2>3, RunKinds
  <2>5. worker.after[s].state = "down" /\ worker.after[s].failures = missed[s]
    BY <2>3, <2>4 DEF Remembered, InARow, Counts
  <2>6. missed[s] = DownAfter
    BY <2>4, <2>5 DEF Remembered, InARow, DownIsLate
  <2> QED
    BY <2>6, WatchAssumption
<1>2. Remembered /\ [Next]_vars => [A]_vars
  BY <1>1
<1> QED
  BY <1>2, AlwaysRemembered, PTL DEF Spec, DownOnlyInARow

-----------------------------------------------------------------------------
(***************************************************************************)
(* The script and the backup.                                              *)
(***************************************************************************)
\* Whether a late backup is among what the script has written down, and among
\* what the operator was told and not that it is over.
WrittenDown == "backup-stale" \in recorded
ToldOf      == "backup-stale" \in heardOf

\* What a run of the script has to say of a backup that is over its lateness.
OverIfFound ==
  check # Idle /\ "backup-stale" \in check.left \ check.now => ~stale \/ unjudged

\* The last copy that was stored and stamped is there until it runs out.
LastIsKept == stamp < KeepFor => (KeepFor - stamp) \in copies

\* A run belongs to a tick whose turn of the script is not over.
RunIsDue == check # Idle => "check" \in due

\* While the checks can speak, and the backup is not late: the script's file
\* says so from the end of the first run after the backup was stored.
OnTime ==
  /\ stamp > 1 \/ "check" \notin due => ~WrittenDown
  /\ check # Idle => "backup-stale" \notin check.now

\* And when it is late: the first run that finds it tells of it, and from its
\* end it is written down and has been told.
LateIsTold ==
  /\ "check" \notin due => WrittenDown /\ ToldOf
  /\ check = Idle /\ "check" \in due =>
       IF stamp = StaleAfter + 1 THEN ~WrittenDown ELSE WrittenDown /\ ToldOf
  /\ check # Idle => /\ "backup-stale" \in check.now
                     /\ "backup-stale" \in check.left \/ ToldOf
                     /\ stamp > StaleAfter + 1 => ToldOf

Heeded ==
  stamp # Never /\ ~deaf =>
    /\ stamp \in 1..StaleAfter => OnTime
    /\ stamp > StaleAfter => LateIsTold

Attended == TypeOK /\ OverIfFound /\ LastIsKept /\ RunIsDue /\ Heeded

\* A step that leaves all of it alone, but for the due jobs of the others.
LEMMA LeftAttended ==
  ASSUME Attended, UNCHANGED <<script, backups, deaf>>,
         "check" \in due' <=> "check" \in due
  PROVE  OverIfFound' /\ LastIsKept' /\ RunIsDue' /\ Heeded'
  BY DEF Attended, OverIfFound, LastIsKept, RunIsDue, Heeded, OnTime, LateIsTold,
     WrittenDown, ToldOf, script, backups

LEMMA StampKinds ==
  ASSUME TypeOK
  PROVE  /\ stamp \in Nat /\ stamp <= KeepFor + 1
         /\ StaleAfter \in Nat \ {0} /\ KeepFor \in Nat /\ StaleAfter + 1 < KeepFor
  BY WatchAssumption DEF TypeOK, Never

LEMMA AsksAttended ==
  ASSUME Attended, TypeOK', CheckAsks
  PROVE  OverIfFound' /\ LastIsKept' /\ RunIsDue' /\ Heeded'
<1>a. PICK judged \in BOOLEAN :
        /\ check' = [at |-> "tells", now |-> Current(judged),
                     left |-> (Current(judged) \ recorded) \cup (recorded \ Current(judged))]
        /\ deaf' = (deaf \/ ~Answers \/ ~judged)
        /\ unjudged' = (Answers /\ ~judged)
  BY DEF CheckAsks
<1> DEFINE now  == Current(judged)
           left == (now \ recorded) \cup (recorded \ now)
<1>0. TypeOK /\ check = Idle /\ "check" \in due /\ Heeded /\ LastIsKept
  BY DEF Attended, CheckAsks
<1>1. /\ UNCHANGED <<recorded, heardOf, stamp, copies, due>>
      /\ stale' = BackupStale /\ deaf' = (deaf \/ ~Answers \/ ~judged)
      /\ check' = [at |-> "tells", now |-> now, left |-> left]
  BY <1>a DEF CheckAsks, backups
<1>2. check'.now = now /\ check'.left = left /\ check' # Idle
  BY <1>1, RunKinds
<1>3. LastIsKept' /\ RunIsDue'
  BY <1>0, <1>1 DEF LastIsKept, RunIsDue
<1>4. OverIfFound'
  BY <1>a, <1>1, <1>2 DEF OverIfFound, Current
<1>5. ASSUME stamp # Never, ~deaf' PROVE "backup-stale" \in now <=> stamp > StaleAfter
  BY <1>1, <1>5 DEF Current, BackupStale
<1>6. Heeded'
  <2> SUFFICES ASSUME stamp' # Never, ~deaf'
               PROVE  /\ stamp' \in 1..StaleAfter => OnTime'
                      /\ stamp' > StaleAfter => LateIsTold'
    BY DEF Heeded
  <2>1. ~deaf /\ stamp # Never /\ stamp' = stamp /\ Never' = Never
    BY <1>1 DEF Never
  <2>2. ASSUME stamp \in 1..StaleAfter PROVE OnTime'
    <3>1. "backup-stale" \notin now
      BY <1>5, <2>1, <2>2, StampKinds, <1>0
    <3>2. OnTime
      BY <1>0, <2>1, <2>2 DEF Heeded
    <3> QED
      BY <1>1, <1>2, <3>1, <3>2 DEF OnTime, WrittenDown
  <2>3. ASSUME stamp > StaleAfter PROVE LateIsTold'
    <3>1. "backup-stale" \in now
      BY <1>5, <2>1, <2>3
    <3>2. IF stamp = StaleAfter + 1 THEN ~WrittenDown ELSE WrittenDown /\ ToldOf
      BY <1>0, <2>1, <2>3 DEF Heeded, LateIsTold
    <3>3. "backup-stale" \in left \/ ToldOf
      BY <3>1, <3>2 DEF WrittenDown
    <3>4. stamp > StaleAfter + 1 => ToldOf
      BY <3>2, StampKinds, <1>0
    <3> QED
      BY <1>0, <1>1, <1>2, <3>1, <3>3, <3>4 DEF LateIsTold, ToldOf
  <2> QED
    BY <2>1, <2>2, <2>3
<1> QED
  BY <1>3, <1>4, <1>6

LEMMA TellsAttended ==
  ASSUME Attended, TypeOK', CheckTells
  PROVE  OverIfFound' /\ LastIsKept' /\ RunIsDue' /\ Heeded'
<1>0. check \in Asked /\ check # Idle /\ Heeded /\ LastIsKept /\ RunIsDue /\ OverIfFound
  BY RunKinds DEF Attended, CheckTells, TypeOK, Asked
<1>1. PICK p \in check.left :
        /\ check' = [check EXCEPT !.left = @ \ {p}]
        /\ \/ /\ heardOf' = IF p \in check.now THEN heardOf \cup {p} ELSE heardOf \ {p}
              /\ UNCHANGED <<faults, deaf>>
           \/ /\ Fault
              /\ deaf' = TRUE
              /\ UNCHANGED heardOf
  BY DEF CheckTells
<1>2. UNCHANGED <<recorded, stale, unjudged, stamp, copies, due>>
  BY DEF CheckTells, backups
<1>3. check'.now = check.now /\ check'.left = check.left \ {p} /\ check' # Idle
  BY <1>0, <1>1, RunKinds DEF Asked
<1>4. OverIfFound' /\ LastIsKept' /\ RunIsDue'
  BY <1>0, <1>2, <1>3 DEF OverIfFound, LastIsKept, RunIsDue
<1>5. ASSUME stamp' # Never, ~deaf'
      PROVE  /\ stamp' \in 1..StaleAfter => OnTime'
             /\ stamp' > StaleAfter => LateIsTold'
  <2>1. /\ heardOf' = IF p \in check.now THEN heardOf \cup {p} ELSE heardOf \ {p}
        /\ ~deaf /\ stamp # Never
    BY <1>1, <1>2, <1>5
  <2>2. ASSUME stamp \in 1..StaleAfter PROVE OnTime'
    BY <1>0, <1>2, <1>3, <2>1, <2>2 DEF Heeded, OnTime, WrittenDown
  <2>3. ASSUME stamp > StaleAfter PROVE LateIsTold'
    <3>1. LateIsTold
      BY <1>0, <2>1, <2>3 DEF Heeded
    <3>2. "backup-stale" \in check.now
      BY <1>0, <3>1 DEF LateIsTold
    <3>3. ToldOf => ToldOf'
      BY <2>1, <3>2 DEF ToldOf
    <3>4. p = "backup-stale" => ToldOf'
      BY <2>1, <3>2 DEF ToldOf
    <3>5. "check" \in due'
      BY <1>0, <1>2 DEF RunIsDue
    <3> QED
      BY <1>0, <1>2, <1>3, <3>1, <3>2, <3>3, <3>4, <3>5 DEF LateIsTold
  <2> QED
    BY <1>2, <2>2, <2>3
<1> QED
  BY <1>4, <1>5 DEF Heeded

LEMMA RecordsAttended ==
  ASSUME Attended, TypeOK', CheckRecords
  PROVE  OverIfFound' /\ LastIsKept' /\ RunIsDue' /\ Heeded'
<1>0. check \in Asked /\ check # Idle /\ Heeded /\ LastIsKept
  BY RunKinds DEF Attended, CheckRecords, TypeOK, Asked
<1>1. /\ recorded' = check.now /\ check' = Idle /\ check.left = {}
      /\ "check" \notin due' /\ UNCHANGED <<heardOf, stamp, copies, deaf>>
  BY DEF CheckRecords, backups, Done
<1>2. OverIfFound' /\ LastIsKept' /\ RunIsDue'
  BY <1>0, <1>1 DEF OverIfFound, LastIsKept, RunIsDue
<1>3. OnTime => OnTime'
  BY <1>0, <1>1 DEF OnTime, WrittenDown
<1>4. LateIsTold => LateIsTold'
  BY <1>0, <1>1 DEF LateIsTold, WrittenDown, ToldOf
<1> QED
  BY <1>0, <1>1, <1>2, <1>3, <1>4 DEF Heeded

LEMMA BackupAttended ==
  ASSUME Attended, TypeOK', Backup
  PROVE  OverIfFound' /\ LastIsKept' /\ RunIsDue' /\ Heeded'
<1>0. TypeOK /\ Heeded /\ LastIsKept /\ RunIsDue /\ OverIfFound
  BY DEF Attended
<1>1. UNCHANGED <<recorded, check, heardOf, stale, unjudged>> /\ ("check" \in due' <=> "check" \in due)
  BY DEF Backup, script, Done
<1>2. OverIfFound' /\ RunIsDue'
  BY <1>0, <1>1 DEF OverIfFound, RunIsDue
<1>3. CASE copies' = copies \cup {KeepFor} /\ stamp' = 0
  <2>1. LastIsKept'
    BY <1>0, <1>3, StampKinds DEF LastIsKept
  <2>2. Heeded'
    BY <1>0, <1>3, StampKinds DEF Heeded
  <2> QED
    BY <1>2, <2>1, <2>2
<1>4. CASE copies' \in {copies, copies \cup {KeepFor}} /\ UNCHANGED <<stamp, deaf>>
  <2>1. LastIsKept'
    BY <1>0, <1>4 DEF LastIsKept
  <2>2. Heeded'
    BY <1>0, <1>1, <1>4 DEF Heeded, OnTime, LateIsTold, WrittenDown, ToldOf
  <2> QED
    BY <1>2, <2>1, <2>2
<1> QED
  BY <1>3, <1>4 DEF Backup

LEMMA StopsAttended ==
  ASSUME Attended, TypeOK', Stops
  PROVE  OverIfFound' /\ LastIsKept' /\ RunIsDue' /\ Heeded'
<1>0. Heeded /\ LastIsKept /\ RunIsDue
  BY DEF Attended
<1>1. /\ UNCHANGED <<recorded, heardOf, stale, unjudged, stamp, copies>> /\ check' = Idle
      /\ deaf' = (deaf \/ "check" \in due) /\ "check" \notin due'
  BY DEF Stops, backups
<1>2. OverIfFound' /\ LastIsKept' /\ RunIsDue'
  BY <1>0, <1>1 DEF OverIfFound, LastIsKept, RunIsDue
<1>3. "check" \notin due => Heeded'
  BY <1>0, <1>1 DEF Heeded, OnTime, LateIsTold, WrittenDown, ToldOf, RunIsDue
<1>4. "check" \in due => Heeded'
  BY <1>1 DEF Heeded
<1> QED
  BY <1>2, <1>3, <1>4

LEMMA TickAttended ==
  ASSUME Attended, TypeOK', Tick
  PROVE  OverIfFound' /\ LastIsKept' /\ RunIsDue' /\ Heeded'
<1>0. TypeOK /\ Heeded /\ LastIsKept /\ due = {} /\ check = Idle
  BY DEF Attended, Tick, RunIsDue
<1>1. /\ UNCHANGED <<recorded, check, heardOf, stale, unjudged>>
      /\ stamp' = IF stamp + 1 < Never THEN stamp + 1 ELSE stamp
      /\ copies' = Aged /\ deaf' = (deaf \/ ~on) /\ (on => "check" \in due')
  BY DEF Tick, script
<1>2. OverIfFound' /\ RunIsDue'
  BY <1>0, <1>1 DEF OverIfFound, RunIsDue
<1>3. LastIsKept'
  <2> SUFFICES ASSUME stamp' < KeepFor PROVE (KeepFor - stamp') \in Aged
    BY <1>1 DEF LastIsKept
  <2>1. stamp' = stamp + 1 /\ stamp < KeepFor
    BY <1>0, <1>1, StampKinds DEF Never
  <2>2. (KeepFor - stamp) \in copies /\ KeepFor - stamp # 1
        /\ KeepFor - stamp' = (KeepFor - stamp) - 1
    BY <1>0, <2>1, StampKinds DEF LastIsKept
  <2> QED
    BY <2>2 DEF Aged
<1>4. ASSUME stamp' # Never, ~deaf'
      PROVE  /\ stamp' \in 1..StaleAfter => OnTime'
             /\ stamp' > StaleAfter => LateIsTold'
  <2>1. ~deaf /\ "check" \in due' /\ "check" \notin due
    BY <1>0, <1>1, <1>4
  <2>2. stamp # Never /\ stamp \in Nat
        /\ (stamp' = stamp + 1 \/ (stamp' = stamp /\ stamp = KeepFor))
    BY <1>0, <1>1, <1>4, StampKinds DEF Never
  <2>3. ASSUME stamp' \in 1..StaleAfter PROVE OnTime'
    <3>1. CASE stamp = 0
      BY <1>0, <1>1, <2>1, <2>2, <2>3, <3>1, StampKinds DEF OnTime
    <3>2. CASE stamp # 0
      <4>1. stamp \in 1..StaleAfter
        BY <1>0, <2>2, <2>3, <3>2, StampKinds
      <4>2. ~WrittenDown
        BY <1>0, <2>1, <2>2, <4>1 DEF Heeded, OnTime
      <4> QED
        BY <1>0, <1>1, <4>2 DEF OnTime, WrittenDown
    <3> QED
      BY <3>1, <3>2
  <2>4. ASSUME stamp' > StaleAfter PROVE LateIsTold'
    <3>1. CASE stamp' = StaleAfter + 1
      <4>1. stamp \in 1..StaleAfter
        BY <1>0, <2>2, <3>1, StampKinds
      <4>2. ~WrittenDown
        BY <1>0, <2>1, <2>2, <4>1 DEF Heeded, OnTime
      <4> QED
        BY <1>0, <1>1, <2>1, <3>1, <4>2 DEF LateIsTold, WrittenDown
    <3>2. CASE stamp' # StaleAfter + 1
      <4>1. stamp > StaleAfter
        BY <1>0, <2>2, <2>4, <3>2, StampKinds
      <4>2. WrittenDown /\ ToldOf
        BY <1>0, <2>1, <2>2, <4>1 DEF Heeded, LateIsTold
      <4> QED
        BY <1>0, <1>1, <2>1, <3>2, <4>2 DEF LateIsTold, WrittenDown, ToldOf
    <3> QED
      BY <3>1, <3>2
  <2> QED
    BY <2>3, <2>4
<1> QED
  BY <1>2, <1>3, <1>4 DEF Heeded

LEMMA AttendedInit == Init => Attended
<1> SUFFICES ASSUME Init PROVE Attended
  OBVIOUS
<1>1. stamp = Never /\ check = Idle /\ Never = KeepFor + 1 /\ KeepFor \in Nat
  BY WatchAssumption DEF Init, Never
<1> QED
  BY <1>1, TypeInit DEF Attended, OverIfFound, LastIsKept, RunIsDue, Heeded

LEMMA AttendedStep == Attended /\ [Next]_vars => Attended'
<1> SUFFICES ASSUME Attended, [Next]_vars PROVE Attended'
  OBVIOUS
<1>0. TypeOK /\ TypeOK'
  BY TypeStep DEF Attended
<1> DEFINE Rest == OverIfFound /\ LastIsKept /\ RunIsDue /\ Heeded
<1>a. Attended' <=> TypeOK' /\ Rest'
  BY DEF Attended
<1> USE DEF script, backups
<1>1. CASE WorkerSteps
  <2>1. UNCHANGED <<script, backups, deaf>>
    BY <1>1 DEF WorkerSteps, WorkerAsks, WorkerTells, WorkerPuts
  <2>2. "check" \in due' <=> "check" \in due
    BY <1>1 DEF WorkerSteps, WorkerAsks, WorkerTells, WorkerPuts, Done
  <2> QED
    BY <1>0, <1>a, <2>1, <2>2, LeftAttended
<1>2. CASE CheckSteps
  BY <1>0, <1>a, <1>2, AsksAttended, TellsAttended, RecordsAttended DEF CheckSteps
<1>3. CASE Backup \/ Stops \/ Tick
  BY <1>0, <1>a, <1>3, BackupAttended, StopsAttended, TickAttended
<1>4. CASE Starts \/ BackupTurns \/ (\E s \in Sites : SiteTurns(s)) \/ UNCHANGED vars
  <2>1. UNCHANGED <<script, backups, deaf, due>>
    BY <1>4 DEF Starts, BackupTurns, SiteTurns, vars
  <2> QED
    BY <1>0, <1>a, <2>1, LeftAttended
<1> QED
  BY <1>1, <1>2, <1>3, <1>4 DEF Next

LEMMA AlwaysAttended == Spec => []Attended
  BY AttendedInit, AttendedStep, PTL DEF Spec

\* Whoever kept no copy is told so before the last has run out, while the
\* checks can speak, however long copies are kept (problems.ts:208-212,
\* backup.sh:30-33).
THEOREM ToldBeforeTheLast == Spec => []OutOfCopiesIsHeard
<1>1. Attended => OutOfCopiesIsHeard
  <2> SUFFICES ASSUME Attended, copies = {}, stamp # Never, ~deaf PROVE ToldOf
    BY DEF OutOfCopiesIsHeard, ToldOf
  <2>1. stamp = KeepFor
    BY StampKinds DEF Attended, LastIsKept, Never
  <2>2. stamp > StaleAfter /\ stamp > StaleAfter + 1 /\ stamp # StaleAfter + 1
    BY <2>1, StampKinds DEF Attended
  <2> QED
    BY <2>2 DEF Attended, Heeded, LateIsTold
<1> QED
  BY <1>1, AlwaysAttended, PTL

\* No check that the site did not answer tells that a late backup is over, nor
\* one that judged it late, for any sites, and however long it goes on
\* (health-check.sh:192-195).
THEOREM NoCheerFromSilence == Spec => SilenceIsNoCheer
<1> DEFINE A == "backup-stale" \in heardOf /\ "backup-stale" \notin heardOf' => ~stale \/ unjudged
<1>1. Attended /\ [Next]_vars => A
  <2> SUFFICES ASSUME Attended, [Next]_vars, "backup-stale" \in heardOf,
                      "backup-stale" \notin heardOf'
               PROVE  ~stale \/ unjudged
    OBVIOUS
  <2>1. CheckTells
    BY DEF Next, WorkerSteps, WorkerAsks, WorkerTells, WorkerPuts, CheckSteps, CheckAsks,
       CheckRecords, Backup, Stops, Starts, BackupTurns, SiteTurns, Tick, vars, script
  <2>2. "backup-stale" \in check.left \ check.now /\ check.at = "tells"
    BY <2>1 DEF CheckTells
  <2>3. check # Idle
    BY <2>2, RunKinds
  <2> QED
    BY <2>2, <2>3 DEF Attended, OverIfFound
<1>2. Attended /\ [Next]_vars => [A]_vars
  BY <1>1
<1> QED
  BY <1>2, AlwaysAttended, PTL DEF Spec, SilenceIsNoCheer
=============================================================================
