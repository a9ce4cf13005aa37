--------------------------------- MODULE Watch ---------------------------------
(***************************************************************************)
(* What tells the operator that something broke.  A worker outside the      *)
(* server asks every site each five minutes, and remembers what it found in *)
(* a store of its own (deploy/uptime-worker/worker.ts,                      *)
(* src/lib/health/uptime.ts).  A script on the server asks the application  *)
(* what is wrong, each five minutes too, and remembers what it has said     *)
(* (deploy/health-check.sh, src/lib/health/problems.ts).  Once a day a      *)
(* backup is stored where copies are kept seven days (deploy/backup.sh,     *)
(* deploy/backup-worker/worker.ts), and how long ago it was is one of the   *)
(* things the script asks about.                                            *)
(*                                                                          *)
(* A tick is as long as it takes for each job of the cron to have its turn. *)
(* Of the problems the application knows of, one is modelled, the backup    *)
(* that has stopped; the others are told and carried forward as it is.      *)
(***************************************************************************)
EXTENDS Naturals, FiniteSets

CONSTANTS
  Sites,
  Own,          \* the site the application serves
  DownAfter,    \* DOWN_AFTER_FAILURES
  Day,          \* ticks between backups
  StaleAfter,   \* BACKUP_STALE_HOURS, in ticks
  KeepFor,      \* KEEP_SECONDS, in ticks
  MaxTurns,     \* bound on what befalls the machine, the sites and the backup
  MaxFaults     \* bound on messages, reads and writes not answered

\* A copy outlives the time after which the next is missed.
ASSUME WatchAssumption ==
  /\ Own \in Sites
  /\ {DownAfter, Day, StaleAfter, KeepFor} \subseteq Nat \ {0}
  /\ {MaxTurns, MaxFaults} \subseteq Nat
  /\ StaleAfter + 1 < KeepFor

VARIABLES
  on,           \* the machine runs
  up,           \* the sites that answer while it does
  storing,      \* the backup can be stored
  turns, faults,
  memory,       \* what the worker has of each site in its store
  worker,       \* its run
  recorded,     \* the script's state file
  check,        \* its run
  stamp,        \* ticks since the backup left its stamp, as far as it matters
  copies,       \* how long each stored copy is still kept
  hour, due,    \* the tick of the day, and the jobs that have not had it
  heard,        \* what the operator was last told of each site
  heardOf,      \* the problems the operator was told of and not that they are over
  missed,       \* runs of the worker in a row that did not reach a site (history)
  astray,       \* sites whose last word and memory a loss set apart      (history)
  behind,       \* sites whose failures a lost read or write has wrong    (history)
  deaf,         \* a check could say nothing since a backup was stored    (history)
  stale,        \* whether the backup was late when the check last asked  (history)
  unjudged      \* the site answered that check, and judged no backup     (history)

world    == <<on, up, storing, turns>>
outside  == <<memory, worker, heard, missed, astray, behind>>
script   == <<recorded, check, heardOf, stale, unjudged>>
backups  == <<stamp, copies>>
vars     == <<world, faults, outside, script, backups, deaf, hour, due>>

Problems == {"site-unreachable", "backup-stale"}
Jobs     == {"worker", "check", "backup"}
Never    == KeepFor + 1

Memory == [state : {"up", "down"}, failures : 0..DownAfter]
Fresh  == [state |-> "up", failures |-> 0]
Idle   == [at |-> "idle"]

TypeOK ==
  /\ on \in BOOLEAN /\ up \subseteq Sites /\ storing \in BOOLEAN
  /\ turns \in 0..MaxTurns /\ faults \in 0..MaxFaults
  /\ memory \in [Sites -> Memory]
  /\ worker \in {Idle} \cup [at : {"tells", "puts"}, after : [Sites -> Memory]]
  /\ recorded \subseteq Problems
  /\ check \in {Idle} \cup [at : {"tells"}, now : SUBSET Problems, left : SUBSET Problems]
  /\ stamp \in 0..Never /\ copies \subseteq 1..KeepFor
  /\ hour \in 0..(Day - 1) /\ due \subseteq Jobs
  /\ heard \in [Sites -> {"up", "down"}] /\ heardOf \subseteq Problems
  /\ missed \in [Sites -> 0..DownAfter]
  /\ astray \subseteq Sites /\ behind \subseteq Sites
  /\ deaf \in BOOLEAN /\ stale \in BOOLEAN /\ unjudged \in BOOLEAN

Init ==
  /\ on = TRUE /\ up = Sites /\ storing = TRUE
  /\ turns = 0 /\ faults = 0
  /\ memory = [s \in Sites |-> Fresh]
  /\ worker = Idle
  /\ recorded = {}
  /\ check = Idle
  /\ stamp = Never /\ copies = {}
  /\ hour = 0 /\ due = Jobs
  /\ heard = [s \in Sites |-> "up"] /\ heardOf = {}
  /\ missed = [s \in Sites |-> 0]
  /\ astray = {} /\ behind = {}
  /\ deaf = FALSE /\ stale = FALSE /\ unjudged = FALSE

Reachable(s) == on /\ s \in up

\* A job of this tick is over.
Done(job) == due' = due \ {job}

Fault ==
  /\ faults < MaxFaults
  /\ faults' = faults + 1

-----------------------------------------------------------------------------
(***************************************************************************)
(* The worker: it tells first, and puts what it knows in its store second. *)
(***************************************************************************)
\* Mutant: failures are not forgotten.
DecidedAnyway(before, reachable) ==
  LET failures == IF before.failures < DownAfter THEN before.failures + 1 ELSE DownAfter
  IN  IF reachable THEN [before EXCEPT !.state = "up"]
      ELSE [state    |-> IF failures >= DownAfter THEN "down" ELSE before.state,
            failures |-> failures]

Decided(before, reachable) ==
  LET failures == IF before.failures < DownAfter THEN before.failures + 1 ELSE DownAfter
  IN  IF reachable THEN Fresh
      ELSE [state    |-> IF failures >= DownAfter THEN "down" ELSE before.state,
            failures |-> failures]

\* The sites a run has something new of, and those that crossed the line.
Changed(after) == {s \in Sites : after[s] # memory[s]}
Crossed(after) == {s \in Sites : after[s].state # memory[s].state}

\* What is not put, or was not read, is what the next run does not know; a site
\* that was reached and is known to be is right again.
Loses(after)   == behind' = behind \cup Changed(after)
Catches(after) == behind' = {s \in behind : after[s] # Fresh}

\* Every site is asked at once, and then the store, which may not answer: then
\* nothing is told and nothing put.
WorkerAsks ==
  /\ worker = Idle
  /\ "worker" \in due
  /\ missed' = [s \in Sites |-> IF Reachable(s) THEN 0
                                ELSE IF missed[s] < DownAfter THEN missed[s] + 1 ELSE DownAfter]
  /\ LET after == [s \in Sites |-> Decided(memory[s], Reachable(s))]
     IN  \/ /\ after = memory
            /\ worker' = Idle /\ Done("worker")
            /\ Catches(after)
            /\ UNCHANGED faults
         \/ /\ after # memory
            /\ worker' = [at |-> IF Crossed(after) = {} THEN "puts" ELSE "tells", after |-> after]
            /\ UNCHANGED <<due, behind, faults>>
         \/ /\ Fault
            /\ worker' = Idle /\ Done("worker")
            /\ Loses(after)
  /\ UNCHANGED <<world, script, backups, deaf, hour, memory, heard, astray>>

Told == heard' = [s \in Sites |-> worker.after[s].state]

\* Mutant: a message not taken is put all the same.
WorkerTellsAndPuts ==
  /\ worker.at = "tells"
  /\ worker' = [worker EXCEPT !.at = "puts"]
  /\ \/ /\ Told
        /\ UNCHANGED faults
     \/ /\ Fault
        /\ UNCHANGED heard
  /\ UNCHANGED <<world, script, backups, deaf, hour, due, memory, missed, astray, behind>>

\* Telegram took the message; or it did not answer, and nothing is put.
WorkerTells ==
  /\ worker.at = "tells"
  /\ \/ /\ Told
        /\ worker' = [worker EXCEPT !.at = "puts"]
        /\ UNCHANGED <<faults, due, astray, behind>>
     \/ /\ Fault
        /\ \/ Told /\ astray' = astray \cup Crossed(worker.after)
           \/ UNCHANGED <<heard, astray>>
        /\ Loses(worker.after)
        /\ worker' = Idle
        /\ Done("worker")
  /\ UNCHANGED <<world, script, backups, deaf, hour, memory, missed>>

\* What it knows is put in its store, or is lost.
WorkerPuts ==
  /\ worker.at = "puts"
  /\ \/ /\ memory' = worker.after
        /\ astray' = astray \ Crossed(worker.after)
        /\ Catches(worker.after)
        /\ UNCHANGED faults
     \/ /\ Fault
        /\ astray' = astray \cup Crossed(worker.after)
        /\ Loses(worker.after)
        /\ UNCHANGED memory
  /\ worker' = Idle
  /\ Done("worker")
  /\ UNCHANGED <<world, script, backups, deaf, hour, heard, missed>>

-----------------------------------------------------------------------------
(***************************************************************************)
(* The script: what changed since the last run is told, one line each.     *)
(***************************************************************************)
Answers == Own \in up

\* Mutant: late is only what has run out.
BackupGone == stamp # Never /\ stamp > KeepFor

\* backupHours: there is none to be late before the first is stored.
BackupStale == stamp # Never /\ stamp > StaleAfter

\* Mutant: a site that does not answer has no other faults.
CurrentAlone(judged) ==
  IF Answers THEN {p \in {"backup-stale"} : judged /\ BackupStale} ELSE {"site-unreachable"}

\* A site that does not answer has not said its other faults are over.  One
\* that does may have judged no backup: its stamp was not read, it was dropped
\* with another reading that was bad, or what was answered is not read.
Current(judged) ==
  IF Answers THEN {p \in {"backup-stale"} : judged /\ BackupStale}
  ELSE {"site-unreachable"} \cup recorded

CheckAsks ==
  /\ on
  /\ check = Idle
  /\ "check" \in due
  /\ \E judged \in BOOLEAN :
       /\ check' = [at |-> "tells", now |-> Current(judged),
                    left |-> (Current(judged) \ recorded) \cup (recorded \ Current(judged))]
       /\ deaf' = (deaf \/ ~Answers \/ ~judged)
       /\ unjudged' = (Answers /\ ~judged)
  /\ stale' = BackupStale
  /\ UNCHANGED <<world, faults, outside, recorded, heardOf, backups, hour, due>>

\* A problem, or that it is over.  Nobody looks whether it was heard.
CheckTells ==
  /\ check.at = "tells"
  /\ \E p \in check.left :
       /\ check' = [check EXCEPT !.left = @ \ {p}]
       /\ \/ /\ heardOf' = IF p \in check.now THEN heardOf \cup {p} ELSE heardOf \ {p}
             /\ UNCHANGED <<faults, deaf>>
          \/ /\ Fault
             /\ deaf' = TRUE
             /\ UNCHANGED heardOf
  /\ UNCHANGED <<world, outside, recorded, stale, unjudged, backups, hour, due>>

\* Written last.
CheckRecords ==
  /\ check.at = "tells"
  /\ check.left = {}
  /\ recorded' = check.now
  /\ check' = Idle
  /\ Done("check")
  /\ UNCHANGED <<world, faults, outside, heardOf, stale, unjudged, backups, deaf, hour>>

-----------------------------------------------------------------------------
(***************************************************************************)
(* The backup.                                                             *)
(***************************************************************************)
\* Stored and read back, and the stamp left; or not, though a copy may be there.
Backup ==
  /\ on
  /\ "backup" \in due
  /\ \/ /\ storing
        /\ copies' = copies \cup {KeepFor}
        /\ stamp' = 0
        /\ deaf' = FALSE
        /\ UNCHANGED faults
     \/ /\ ~storing
        /\ UNCHANGED <<copies, stamp, deaf, faults>>
     \/ /\ Fault
        /\ storing
        /\ copies' \in {copies, copies \cup {KeepFor}}
        /\ UNCHANGED <<stamp, deaf>>
  /\ Done("backup")
  /\ UNCHANGED <<world, outside, script, hour>>

-----------------------------------------------------------------------------
(***************************************************************************)
(* What befalls the sites, and the time.                                   *)
(***************************************************************************)
Turn ==
  /\ turns < MaxTurns
  /\ turns' = turns + 1

\* The machine stops, and what runs on it with it.
Stops ==
  /\ Turn
  /\ on
  /\ on' = FALSE
  /\ check' = Idle
  /\ deaf' = (deaf \/ "check" \in due)
  /\ due' = due \ {"check", "backup"}
  /\ UNCHANGED <<up, storing, faults, outside, recorded, heardOf, stale, unjudged, backups,
                 hour>>

Starts ==
  /\ Turn
  /\ ~on
  /\ on' = TRUE
  /\ UNCHANGED <<up, storing, faults, outside, script, backups, deaf, hour, due>>

SiteTurns(s) ==
  /\ Turn
  /\ up' = (up \cup {s}) \ (up \cap {s})
  /\ UNCHANGED <<on, storing, faults, outside, script, backups, deaf, hour, due>>

BackupTurns ==
  /\ Turn
  /\ storing' = ~storing
  /\ UNCHANGED <<on, up, faults, outside, script, backups, deaf, hour, due>>

\* Copies run out one by one.
Aged == {n - 1 : n \in copies \ {1}}

Tick ==
  /\ due = {}
  /\ hour' = (hour + 1) % Day
  /\ stamp' = IF stamp + 1 < Never THEN stamp + 1 ELSE stamp
  /\ copies' = Aged
  /\ due' = {"worker"} \cup (IF on THEN {"check"} ELSE {})
                       \cup (IF on /\ hour' = 0 THEN {"backup"} ELSE {})
  /\ deaf' = (deaf \/ ~on)
  /\ UNCHANGED <<world, faults, outside, script>>

WorkerSteps == WorkerAsks \/ WorkerTells \/ WorkerPuts
CheckSteps  == CheckAsks \/ CheckTells \/ CheckRecords

Next ==
  \/ WorkerSteps \/ CheckSteps \/ Backup
  \/ Stops \/ Starts \/ BackupTurns \/ (\E s \in Sites : SiteTurns(s))
  \/ Tick

Spec == Init /\ [][Next]_vars

\* The jobs have their turn, and time goes on.
FairSpec ==
  /\ Spec
  /\ WF_vars(WorkerSteps) /\ WF_vars(CheckSteps) /\ WF_vars(Backup) /\ WF_vars(Tick)

-----------------------------------------------------------------------------
\* What the worker has put in its store is what the operator was told last,
\* unless a word or a write about the site was lost (worker.ts:104-111).
HeardAsKept ==
  worker = Idle => \A s \in Sites \ astray : heard[s] = memory[s].state

\* A site is called down only when that many runs in a row did not reach it,
\* unless a read or a write of the store was lost since a run last knew it to be
\* reached (uptime.ts:30-38; worker.ts:101, 115).
DownOnlyInARow ==
  [][\A s \in Sites \ behind :
       heard[s] = "up" /\ heard'[s] = "down" => missed[s] >= DownAfter]_vars

\* A site that is not reached for good is told of, the whole machine's off or
\* only its own, unless a word or a write about it was lost
\* (worker.ts:4-7; uptime.ts:5-9).
OutageIsTold ==
  \A s \in Sites : <>[](~Reachable(s)) => <>[](heard[s] = "down" \/ s \in astray)

\* From a check the site did not answer nobody is told that a late backup is
\* over, however often it does not; nor from one that judged it late
\* (health-check.sh:192-195).
SilenceIsNoCheer ==
  []["backup-stale" \in heardOf /\ "backup-stale" \notin heardOf' => ~stale \/ unjudged]_vars

\* What that comment gives as the reason, and what does not hold where the site
\* answers and judges no backup: the backup told to be over is not late.
NoCheerOnNoEvidence ==
  []["backup-stale" \in heardOf /\ "backup-stale" \notin heardOf' => ~stale]_vars

\* Nobody is left without a copy and not told: while the checks can speak of the
\* backup and are heard, the operator hears before the last copy has run out
\* (problems.ts:208-212, 364-368; backup.sh:30-33).
OutOfCopiesIsHeard ==
  copies = {} /\ stamp # Never /\ ~deaf => "backup-stale" \in heardOf
=============================================================================
