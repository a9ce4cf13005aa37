------------------------------- MODULE RateLimits -------------------------------
(***************************************************************************)
(* What the site lets through of the pages that spend somebody's quota      *)
(* (src/proxy.ts) and of the actions that write a record for a stranger     *)
(* (src/lib/telegram/connectTelegramAction.ts).  A page is counted by the   *)
(* process itself first (FixedWindow), and then by a counter of the client  *)
(* in the store, which every process counts with                            *)
(* (ratelimit/rateLimitStore.ts); an action by a counter of the client and  *)
(* one of everybody (ratelimit/actionBudget.ts).                            *)
(*                                                                          *)
(* A window of the store's counters begins where the clock has it, and its  *)
(* counters are named by that moment.  Clients are kept apart by the names  *)
(* of their counters, whatever those say.  The form of the digest is an action that  *)
(* its process counts too (email/subscribeAction.ts), by a table like that  *)
(* of the pages; it only lets through less.                                 *)
(***************************************************************************)
EXTENDS FixedWindow, FiniteSets

CONSTANTS
  Processes,    \* processes the site runs in
  Clients,
  Requests,     \* requests that may be under way at once
  Limit,        \* POOL_ANALYSIS_REQUEST_LIMIT
  MaxTracked,   \* MAX_TRACKED_CLIENTS
  LocalWindow,  \* POOL_ANALYSIS_WINDOW_MS
  PerClient,    \* the client's share in a window of the store's
  Global,       \* everybody's
  Window,       \* windowMs of the budget
  Patience,     \* how long a command of the store may take
  MaxClock,     \* bound on the clock
  MaxAsked,     \* bound on the requests
  MaxFaults     \* bound on restarts and commands not answered

ASSUME LimitsAssumption ==
  /\ {Limit, MaxTracked, LocalWindow, PerClient, Global, Window} \subseteq Nat \ {0}
  /\ {Patience, MaxClock, MaxAsked, MaxFaults} \subseteq Nat
\* Two seconds against half an hour.
ASSUME PatienceAssumption == 2 * Patience <= Window

VARIABLES
  clock,
  table,        \* each process's windows
  counter,      \* the store's counters
  request,
  asked, faults,
  granted,      \* the pages or actions a counter let through             (history)
  letIn         \* when a process let each client's pages through,
                \*   since it last forgot the client                     (history)

vars == <<clock, table, counter, request, asked, faults, granted, letIn>>

Time  == 0..MaxClock
Kinds == {"page", "action"}

\* Where the window of a moment begins.
WindowStart(t) == t - (t % Window)
Windows == {WindowStart(t) : t \in Time}

Everybody == "everybody"
Names == {"page", "action"} \X Clients \cup {<<"all", Everybody>>}

PageOf(c)   == <<"page", c>>
ActionOf(c) == <<"action", c>>
All         == <<"all", Everybody>>

NoCount == [count |-> 0, until |-> 0]

Stages == {"client", "everybody"}
Idle   == [at |-> "idle"]

\* What the processes keep, and what the store does.
LocalTypeOK ==
  /\ \A p \in Processes : table[p] \in Tables(Time, Clients, Limit, MaxTracked)
  /\ \A p \in Processes, c \in Clients : letIn[p][c] \in Seq(Time)

Counter == [count : Nat, until : Nat]
Request == [at : Stages, kind : Kinds, client : Clients, now : Time, due : Nat]

StoreTypeOK ==
  /\ clock \in Time
  /\ counter \in [Names \X Windows -> Counter]
  /\ request \in [Requests -> Request \cup {Idle}]
  /\ asked \in 0..MaxAsked
  /\ faults \in 0..MaxFaults
  /\ granted \in [Names \X Windows -> Nat]

TypeOK == LocalTypeOK /\ StoreTypeOK

Init ==
  /\ clock = 0
  /\ table = [p \in Processes |-> <<>>]
  /\ counter = [n \in Names \X Windows |-> NoCount]
  /\ request = [r \in Requests |-> Idle]
  /\ asked = 0
  /\ faults = 0
  /\ granted = [n \in Names \X Windows |-> 0]
  /\ letIn = [p \in Processes |-> [c \in Clients |-> <<>>]]

-----------------------------------------------------------------------------
(***************************************************************************)
(* What the process counts.                                                *)
(***************************************************************************)
\* A client the table no longer names is forgotten.
Remembered(tab, c, times) ==
  IF \E i \in DOMAIN tab : tab[i].key = c THEN times ELSE <<>>

Begins(k, c) ==
  \E r \in Requests :
    /\ request[r] = Idle
    /\ request' = [request EXCEPT ![r] =
         [at |-> "client", kind |-> k, client |-> c, now |-> clock, due |-> clock + Patience]]

Asked ==
  /\ asked < MaxAsked
  /\ asked' = asked + 1

\* A page comes to a process: refused there, or on to the store.
AskPage(p, c) ==
  /\ Asked
  /\ LET after == Check(table[p], c, clock, Limit, LocalWindow, MaxTracked)
         allowed == Allows(table[p], c, clock, Limit, LocalWindow)
     IN  /\ table' = [table EXCEPT ![p] = after]
         /\ letIn' = [letIn EXCEPT ![p] = [d \in Clients |->
                       IF d = c /\ allowed THEN Append(letIn[p][d], clock)
                       ELSE Remembered(after, d, letIn[p][d])]]
         /\ IF allowed THEN Begins("page", c) ELSE UNCHANGED request
  /\ UNCHANGED <<clock, counter, faults, granted>>

\* An action goes to the store at once.
AskAction(c) ==
  /\ Asked
  /\ Begins("action", c)
  /\ UNCHANGED <<clock, table, counter, faults, granted, letIn>>

-----------------------------------------------------------------------------
(***************************************************************************)
(* What the store counts.                                                  *)
(***************************************************************************)
Fault ==
  /\ faults < MaxFaults
  /\ faults' = faults + 1

\* Mutant: a count lives one window.
IncrementedForOneWindow(n) ==
  IF clock < counter[n].until THEN [counter[n] EXCEPT !.count = @ + 1]
  ELSE [count |-> 1, until |-> clock + Window]

\* A counter lives two windows from its first request.  Actions are counted by
\* INCREMENT_SCRIPT (keyValueStore.ts), pages by INCR and PEXPIRE NX sent as one
\* pipeline (upstashRateLimitStore.ts:75-78), taken here to be applied whole.
Incremented(n) ==
  IF clock < counter[n].until THEN [counter[n] EXCEPT !.count = @ + 1]
  ELSE [count |-> 1, until |-> clock + 2 * Window]

Counts(n) == counter' = [counter EXCEPT ![n] = Incremented(n)]

\* The command is not answered: it was lost, or applied and not heard.
Unanswered(n) == Fault /\ (Counts(n) \/ UNCHANGED counter)

Goes(r, at) == request' = [request EXCEPT ![r].at = at, ![r].due = clock + Patience]
Ends(r)     == request' = [request EXCEPT ![r] = Idle]

Grants(n) == granted' = [granted EXCEPT ![n] = @ + 1]

\* Mutant: one more than the share.
OverByOne(n, share) == Incremented(n).count > share + 1

Over(n, share) == Incremented(n).count > share

\* The client's own count.  A page the store did not answer for is let
\* through, an action is not.
CountClient(r) ==
  /\ request[r].at = "client"
  /\ LET n == <<<<request[r].kind, request[r].client>>, WindowStart(request[r].now)>>
     IN  \/ /\ Counts(n)
            /\ UNCHANGED faults
            /\ IF Over(n, PerClient)
               THEN Ends(r) /\ UNCHANGED granted
               ELSE /\ Grants(n)
                    /\ IF request[r].kind = "page" THEN Ends(r) ELSE Goes(r, "everybody")
         \/ /\ Unanswered(n)
            /\ Ends(r)
            /\ UNCHANGED granted
  /\ UNCHANGED <<clock, table, asked, letIn>>

\* Everybody's, for an action that passed its own; one that passes this too
\* writes its record.
CountEverybody(r) ==
  /\ request[r].at = "everybody"
  /\ LET n == <<All, WindowStart(request[r].now)>>
     IN  \/ /\ Counts(n)
            /\ UNCHANGED faults
            /\ IF Over(n, Global)
               THEN UNCHANGED granted
               ELSE Grants(n)
            /\ Ends(r)
         \/ /\ Unanswered(n)
            /\ Ends(r)
            /\ UNCHANGED granted
  /\ UNCHANGED <<clock, table, asked, letIn>>

-----------------------------------------------------------------------------
\* A process starts anew, and has forgotten everybody.
Restart(p) ==
  /\ Fault
  /\ table' = [table EXCEPT ![p] = <<>>]
  /\ letIn' = [letIn EXCEPT ![p] = [c \in Clients |-> <<>>]]
  /\ UNCHANGED <<clock, counter, request, asked, granted>>

\* No command takes longer than the client has patience.
Tick ==
  /\ clock < MaxClock
  /\ \A r \in Requests : request[r] # Idle => clock < request[r].due
  /\ clock' = clock + 1
  /\ UNCHANGED <<table, counter, request, asked, faults, granted, letIn>>

Next ==
  \/ \E p \in Processes, c \in Clients : AskPage(p, c)
  \/ \E c \in Clients : AskAction(c)
  \/ \E r \in Requests : CountClient(r) \/ CountEverybody(r)
  \/ \E p \in Processes : Restart(p)
  \/ Tick

Spec == Init /\ [][Next]_vars

-----------------------------------------------------------------------------
\* In a window no client is let through by the store more than its share, and
\* everybody together no more than theirs, in however many processes, with
\* whatever unheard and however late (actionBudget.ts:18-20, "Each window
\* allows at most `global` records").
BudgetHolds ==
  /\ \A w \in Windows : granted[<<All, w>>] <= Global
  /\ \A n \in Names \ {All}, w \in Windows : granted[<<n, w>>] <= PerClient

\* A client over its own share spends nothing of everybody's
\* (actionBudget.ts:26-28).
NothingOfEverybodys ==
  \A w \in Windows :
    LET spending == {c \in Clients : granted[<<ActionOf(c), w>>] > 0}
    IN  counter[<<All, w>>].count <= PerClient * Cardinality(spending)

\* A process that remembers a client lets it in less than twice its limit in
\* any time shorter than a window (fixedWindowLimiter.ts:9-12).
BurstBounded ==
  \A p \in Processes, c \in Clients :
    \A i \in 1..(Len(letIn[p][c]) + 1 - 2 * Limit) :
      letIn[p][c][i] + LocalWindow <= letIn[p][c][i + 2 * Limit - 1]
=============================================================================
