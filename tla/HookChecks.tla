------------------------------- MODULE HookChecks -------------------------------
(***************************************************************************)
(* The checks of hooks: pages and the warmer ask a service about a hook     *)
(* (src/lib/advisor/getHookChecks.ts) through a table of kept reads         *)
(* (src/lib/cache/keptReads.ts), and the reads stand in the service's line  *)
(* (module Line, which concurrency.ts implements).                          *)
(*                                                                          *)
(* One service is modelled.  A check asks three, which have a table and a   *)
(* line each and share only the time a page waits.                          *)
(*                                                                          *)
(* Of an answer, whether it is one that is kept for long; of what is kept,  *)
(* how long it still answers.                                               *)
(***************************************************************************)
EXTENDS Tables, FiniteSets

CONSTANTS
  Pages,        \* calls of checkHook, which wait only so long
  Warmers,      \* calls of readHookCheck, which wait
  Hooks,        \* the hooks asked about
  Reads,        \* reads that may be under way
  AtOnce,       \* VERIFIER_AT_ONCE
  KeptHooks,    \* KEPT_HOOKS
  KeptMs,       \* HOOK_CHECK_KEPT_MS
  RetryMs,      \* HOOK_CHECK_RETRY_MS
  None

ASSUME HooksAssumption ==
  /\ IsFiniteSet(Reads) /\ IsFiniteSet(Hooks)
  /\ {AtOnce, KeptHooks, RetryMs, KeptMs} \subseteq Nat \ {0}
  /\ RetryMs <= KeptMs
  /\ Pages \cap Warmers = {}
  /\ None \notin Hooks \cup Reads

VARIABLES
  entries,      \* what is kept, in the order it was written
  running,      \* of each hook, the read under way
  reading,      \* what each read is at
  asker,        \* what each page and each warmer is at
  line, before, begun,   \* the line of the service
  heard,        \* how long the service's last answer on each hook is good for (history)
  newer         \* and the hooks answered about since                          (history)

kept == <<entries, running, reading>>
served == <<line, before, begun>>
history == <<heard, newer>>
hookVars == <<kept, asker, served, history>>

Askers == Pages \cup Warmers

Service == INSTANCE Line WITH Callers <- Reads, MaxWaiting <- Cardinality(Reads)

-----------------------------------------------------------------------------
Answers == {"good", "bad"}

KeptFor(answer) == IF answer = "good" THEN KeptMs ELSE RetryMs

Entry == [key : Hooks, left : 0..KeptMs]

StillAnswers(k) == \E i \in 1..Len(entries) : entries[i].key = k /\ entries[i].left > 0

\* "line": in the line or asked; "back": the service has answered, or the
\* request has failed; "written": kept, if it is to be.
ReadState == [at : {"none", "line", "back", "written"},
              key : Hooks \cup {None}, got : Answers \cup {"thrown", None}]
NoRead == [at |-> "none", key |-> None, got |-> None]

AskerState == [at : {"idle", "waiting"}, on : Reads \cup {None}]
NotAsking == [at |-> "idle", on |-> None]

HookTypeOK ==
  /\ entries \in Seq(Entry) /\ Len(entries) <= KeptHooks
  /\ \A i, j \in 1..Len(entries) : entries[i].key = entries[j].key => i = j
  /\ running \in [Hooks -> Reads \cup {None}]
  /\ reading \in [Reads -> ReadState]
  /\ asker \in [Askers -> AskerState]
  /\ Service!TypeOK
  /\ heard \in [Hooks -> 0..KeptMs]
  /\ newer \in [Hooks -> SUBSET Hooks]

HookInit ==
  /\ entries = <<>>
  /\ running = [k \in Hooks |-> None]
  /\ reading = [r \in Reads |-> NoRead]
  /\ asker = [a \in Askers |-> NotAsking]
  /\ Service!Init
  /\ heard = [k \in Hooks |-> 0]
  /\ newer = [k \in Hooks |-> {}]

-----------------------------------------------------------------------------
(***************************************************************************)
(* Asking.  From the look at the table to the fetch there is no await, and *)
(* whoever finds an answer kept, or joins a read that has just been         *)
(* written, is answered at once: nothing changes.                          *)
(***************************************************************************)
Join(a, k) ==
  /\ asker[a].at = "idle"
  /\ ~StillAnswers(k)
  /\ running[k] # None
  /\ reading[running[k]].at # "written"
  /\ asker' = [asker EXCEPT ![a] = [at |-> "waiting", on |-> running[k]]]
  /\ UNCHANGED <<kept, served, history>>

\* Reads are alike: one that is not in use.
Unused == LET free == {r \in Reads : reading[r].at = "none"}
          IN  IF free = {} THEN {} ELSE {CHOOSE r \in free : TRUE}

AskService(a, k) ==
  /\ asker[a].at = "idle"
  /\ ~StillAnswers(k)
  /\ running[k] = None
  /\ \E r \in Unused :
       /\ reading' = [reading EXCEPT ![r] = [at |-> "line", key |-> k, got |-> None]]
       /\ running' = [running EXCEPT ![k] = r]
       /\ asker' = [asker EXCEPT ![a] = [at |-> "waiting", on |-> r]]
       /\ Service!Enter(r)
  /\ UNCHANGED <<entries, history>>

\* Mutant: a page that goes on takes its question off the table.
GoOnForgetting(a) ==
  /\ a \in Pages
  /\ asker[a].at = "waiting"
  /\ running' = [k \in Hooks |-> IF running[k] = asker[a].on THEN None ELSE running[k]]
  /\ asker' = [asker EXCEPT ![a] = NotAsking]
  /\ UNCHANGED <<entries, reading, served, history>>

\* A page waits so long, and goes on; the question does too.
GoOn(a) ==
  /\ a \in Pages
  /\ asker[a].at = "waiting"
  /\ asker' = [asker EXCEPT ![a] = NotAsking]
  /\ UNCHANGED <<kept, served, history>>

-----------------------------------------------------------------------------
(***************************************************************************)
(* The read.                                                               *)
(***************************************************************************)
TurnComes(r) ==
  /\ Service!Begin(r)
  /\ UNCHANGED <<kept, asker, history>>

\* The service answers, says nothing of use, or the request throws; the place
\* in the line is handed on before the answer is.
Back(r) ==
  /\ Service!End(r)
  /\ \E got \in Answers \cup {"thrown"} :
       reading' = [reading EXCEPT ![r].at = "back", ![r].got = got]
  /\ UNCHANGED <<entries, running, asker, history>>

\* Mutant: the oldest is let go before the entry's older self is.
WrittenOldestFirst(es, e) == Append(Without(EvictUntilRoom(es, KeptHooks), e.key), e)

\* The entries with an entry about a hook written last.
Written(es, e) == PutLast(es, e, KeptHooks)

\* Mutant: whoever joined a read that throws is left waiting.
ToldUnlessThrown(r) ==
  [a \in Askers |-> IF asker[a].on = r /\ reading[r].got # "thrown" THEN NotAsking ELSE asker[a]]

Told(r) == [a \in Askers |-> IF asker[a].on = r THEN NotAsking ELSE asker[a]]

\* What came back is kept for a while, however bad, and everybody who waits has
\* it.  What throws is kept nowhere, and nobody is told more than that.
Write(r) ==
  /\ reading[r].at = "back"
  /\ reading' = [reading EXCEPT ![r].at = "written"]
  /\ asker' = Told(r)
  /\ LET k   == reading[r].key
         got == reading[r].got
     IN  IF got = "thrown" THEN UNCHANGED <<entries, history>>
         ELSE /\ entries' = Written(entries, [key |-> k, left |-> KeptFor(got)])
              /\ heard' = [heard EXCEPT ![k] = KeptFor(got)]
              /\ newer' = [l \in Hooks |-> IF l = k \/ heard[l] = 0 THEN {} ELSE newer[l] \cup {k}]
  /\ UNCHANGED <<running, served>>

\* The read's own finally, some turns later.
Clear(r) ==
  /\ reading[r].at = "written"
  /\ reading' = [reading EXCEPT ![r] = NoRead]
  /\ running' = [k \in Hooks |-> IF running[k] = r THEN None ELSE running[k]]
  /\ UNCHANGED <<entries, asker, served, history>>

\* Time passes for everything that is kept.
Less(n) == IF n = 0 THEN 0 ELSE n - 1

HookTick ==
  /\ entries' = [i \in 1..Len(entries) |-> [entries[i] EXCEPT !.left = Less(@)]]
  /\ heard' = [k \in Hooks |-> Less(heard[k])]
  /\ newer' = [k \in Hooks |-> IF heard[k] <= 1 THEN {} ELSE newer[k]]
  /\ UNCHANGED <<running, reading, asker, served>>

HookNext ==
  \/ \E a \in Askers, k \in Hooks : Join(a, k) \/ AskService(a, k)
  \/ \E a \in Askers : GoOn(a)
  \/ \E r \in Reads : TurnComes(r) \/ Back(r) \/ Write(r) \/ Clear(r)
  \/ HookTick

HookSpec == HookInit /\ [][HookNext]_hookVars

\* The loop runs what is due and timers go off.  Of the service nothing is
\* asked: it may never answer.
HookFairSpec ==
  /\ HookSpec
  /\ \A a \in Pages : WF_hookVars(GoOn(a))
  /\ \A r \in Reads : WF_hookVars(TurnComes(r)) /\ WF_hookVars(Write(r)) /\ WF_hookVars(Clear(r))

-----------------------------------------------------------------------------
\* A hook is asked about once at a time, whoever asks and whoever has given up
\* waiting (keptReads.ts:17-19, "a key already being read is joined").
OneReadPerKey ==
  \A r, s \in Reads : reading[r].at # "none" /\ reading[s].at # "none"
                      /\ reading[r].key = reading[s].key => r = s

\* What a service said is kept for its time, an answer for long and a failure
\* for short, unless the table has since been filled by others: so a source that
\* is down is asked once in a while about each hook, however many ask
\* (keptReads.ts:12-15), and only the oldest is let go (21-22).
KeptAsPromised ==
  \A k \in Hooks : heard[k] > 0 /\ Cardinality(newer[k]) < KeptHooks => StillAnswers(k)

IsAnswered(a) == asker[a].at = "waiting" ~> asker[a].at = "idle"

\* The service ends every request it has taken up, by an answer or by throwing.
ServiceEnds == \A r \in Reads : WF_hookVars(Back(r))

\* A page is answered, whatever the service does and however long its line is
\* (getHookChecks.ts:162-165); and whoever waits for the answer itself has one if
\* the service ends its requests: a read that threw leaves nobody waiting, and
\* nothing under way that a later caller would join (keptReads.ts:81-84).
EveryoneIsAnswered ==
  /\ \A a \in Pages : IsAnswered(a)
  /\ ServiceEnds => \A a \in Warmers : IsAnswered(a)

=============================================================================
