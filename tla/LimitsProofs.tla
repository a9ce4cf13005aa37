------------------------------ MODULE LimitsProofs ------------------------------
(***************************************************************************)
(* The limits on what is let through: of how many in a window (RateLimits) *)
(* and of how many at once (ConcurrencyLimit).                             *)
(*                                                                         *)
(* No window of the store lets through more than its share, what is spent  *)
(* of everybody's was paid for by a client's own, and no process lets a    *)
(* client it remembers through twice its limit within one window, for any  *)
(* number of clients, requests and processes.  The limit on how many run   *)
(* at once is a line served in turn, for any number of callers and of      *)
(* places.                                                                 *)
(***************************************************************************)
EXTENDS RateLimits, ConcurrencyLimit, FiniteSetTheorems, SequenceTheorems, TLAPS

-----------------------------------------------------------------------------
(***************************************************************************)
(* The invariant.                                                          *)
(***************************************************************************)
\* What was let through was counted.
Counted == \A n \in Names \X Windows : granted[n] <= counter[n].count

\* A counter lives until its window and the next are over.
CountersLast ==
  \A a \in Names, w \in Windows :
    IF counter[<<a, w>>].count = 0 THEN counter[<<a, w>>].until = 0
    ELSE w + 2 * Window <= counter[<<a, w>>].until

\* A request is at its command no later than all of its commands may take.
InTime ==
  \A r \in Requests : request[r] # Idle =>
    /\ request[r].now <= clock /\ clock <= request[r].due
    /\ request[r].at = "client" => request[r].due <= request[r].now + Patience
    /\ request[r].due <= request[r].now + 2 * Patience

\* What the clients were let through in a window, one ticket for each time.
Tickets(w) == UNION {{c} \X (1..granted[<<ActionOf(c), w>>]) : c \in Clients}

Spending(w) == {c \in Clients : granted[<<ActionOf(c), w>>] > 0}

\* The actions that passed their client's count and not yet everybody's.
Pending(w) ==
  {r \in Requests : request[r].at = "everybody" /\ WindowStart(request[r].now) = w}

\* Each count of everybody's used up a ticket, and those still to count hold one.
PaidFor ==
  \A w \in Windows :
    /\ IsFiniteSet(Tickets(w)) /\ IsFiniteSet(Spending(w)) /\ IsFiniteSet(Pending(w))
    /\ counter[<<All, w>>].count + Cardinality(Pending(w)) <= Cardinality(Tickets(w))

IInv == StoreTypeOK /\ Counted /\ CountersLast /\ InTime /\ BudgetHolds

-----------------------------------------------------------------------------
(***************************************************************************)
(* Windows and counters.                                                   *)
(***************************************************************************)
LEMMA WindowStartIs ==
  ASSUME NEW t \in Time
  PROVE  /\ WindowStart(t) \in Windows /\ WindowStart(t) \in Nat
         /\ WindowStart(t) <= t /\ t < WindowStart(t) + Window
<1>1. t \in Nat /\ Window \in Nat /\ Window > 0
  BY LimitsAssumption DEF Time
<1>2. t % Window \in 0..(Window - 1)
  BY <1>1
<1>3. t % Window <= t
  BY <1>1
<1> QED  BY <1>1, <1>2, <1>3 DEF WindowStart, Windows

LEMMA WindowsAre == \A w \in Windows : w \in Nat
BY WindowStartIs DEF Windows

LEMMA NamesAre ==
  /\ All \in Names
  /\ \A c \in Clients : PageOf(c) \in Names \ {All} /\ ActionOf(c) \in Names \ {All}
BY DEF All, Names, PageOf, ActionOf

\* A command that is applied in time counts one more, and never begins anew.
LEMMA CountsOneMore ==
  ASSUME StoreTypeOK, CountersLast, NEW a \in Names, NEW t \in Time,
         t <= clock, clock <= t + 2 * Patience,
         NEW n, n = <<a, WindowStart(t)>>, Counts(n)
  PROVE  /\ n \in Names \X Windows
         /\ counter' \in [Names \X Windows -> Counter]
         /\ counter'[n] = Incremented(n)
         /\ counter'[n].count = counter[n].count + 1
         /\ \A m \in Names \X Windows : m # n => counter'[m] = counter[m]
         /\ CountersLast'
<1> DEFINE s == WindowStart(t)
<1>1. /\ s \in Windows /\ s \in Nat /\ s <= t /\ t < s + Window
      /\ t \in Nat /\ clock \in Nat /\ Window \in Nat /\ Patience \in Nat /\ 2 * Patience <= Window
  BY WindowStartIs, LimitsAssumption, PatienceAssumption DEF StoreTypeOK, Time
<1> HIDE DEF s
<1>2. n = <<a, s>> /\ n \in Names \X Windows
  BY <1>1 DEF s
<1>3. /\ counter[n] \in Counter /\ counter[n].count \in Nat /\ counter[n].until \in Nat
      /\ IF counter[n].count = 0 THEN counter[n].until = 0 ELSE s + 2 * Window <= counter[n].until
  BY <1>1, <1>2 DEF StoreTypeOK, Counter, CountersLast
<1>4. clock < s + 2 * Window
  BY <1>1
<1>5. /\ Incremented(n) \in Counter /\ Incremented(n).count = counter[n].count + 1
      /\ s + 2 * Window <= Incremented(n).until
  <2>1. CASE counter[n].count = 0
    <3>1. ~(clock < counter[n].until)
      BY <1>1, <1>3, <2>1
    <3>2. Incremented(n) = [count |-> 1, until |-> clock + 2 * Window]
      BY <3>1 DEF Incremented
    <3> QED  BY <1>1, <2>1, <3>2 DEF Counter
  <2>2. CASE counter[n].count # 0
    <3>1. clock < counter[n].until
      BY <1>1, <1>3, <1>4, <2>2
    <3>2. Incremented(n) = [counter[n] EXCEPT !.count = @ + 1]
      BY <3>1 DEF Incremented
    <3> QED  BY <1>3, <2>2, <3>2 DEF Counter
  <2> QED  BY <2>1, <2>2
<1>6. counter' = [counter EXCEPT ![n] = Incremented(n)] /\ counter \in [Names \X Windows -> Counter]
  BY DEF Counts, StoreTypeOK
<1>7. /\ counter' \in [Names \X Windows -> Counter] /\ counter'[n] = Incremented(n)
      /\ \A m \in Names \X Windows : m # n => counter'[m] = counter[m]
  BY <1>2, <1>5, <1>6
<1>8. CountersLast'
  <2> SUFFICES ASSUME NEW b \in Names, NEW w \in Windows
               PROVE  IF counter'[<<b, w>>].count = 0 THEN counter'[<<b, w>>].until = 0
                      ELSE w + 2 * Window <= counter'[<<b, w>>].until
    BY DEF CountersLast
  <2>1. CASE <<b, w>> = n
    <3>1. w = s /\ counter'[<<b, w>>].count # 0
      BY <1>2, <1>3, <1>5, <1>7, <2>1
    <3> QED  BY <1>5, <1>7, <2>1, <3>1
  <2>2. CASE <<b, w>> # n
    <3>1. counter'[<<b, w>>] = counter[<<b, w>>]
      BY <1>7, <2>2
    <3> QED  BY <3>1 DEF CountersLast
  <2> QED  BY <2>1, <2>2
<1> QED  BY <1>2, <1>5, <1>7, <1>8

\* What is let through after it was counted is no more than the share.
LEMMA GrantKeeps ==
  ASSUME StoreTypeOK, Counted, BudgetHolds, NEW a \in Names, NEW w \in Windows,
         NEW share \in Nat, share = IF a = All THEN Global ELSE PerClient,
         counter' \in [Names \X Windows -> Counter],
         counter'[<<a, w>>].count = counter[<<a, w>>].count + 1,
         \A m \in Names \X Windows : m # <<a, w>> => counter'[m] = counter[m],
         \/ UNCHANGED granted
         \/ Grants(<<a, w>>) /\ counter'[<<a, w>>].count <= share
  PROVE  granted' \in [Names \X Windows -> Nat] /\ Counted' /\ BudgetHolds'
<1> DEFINE n == <<a, w>>
<1>1. /\ granted \in [Names \X Windows -> Nat] /\ n \in Names \X Windows
      /\ counter \in [Names \X Windows -> Counter]
      /\ counter[n].count \in Nat /\ granted[n] \in Nat /\ granted[n] <= counter[n].count
  BY DEF StoreTypeOK, Counted, Counter
<1>2. CASE UNCHANGED granted
  <2>1. \A m \in Names \X Windows : granted[m] <= counter'[m].count
    <3> SUFFICES ASSUME NEW m \in Names \X Windows PROVE granted[m] <= counter'[m].count
      OBVIOUS
    <3>1. CASE m = n
      BY <1>1, <3>1
    <3>2. CASE m # n
      BY <3>2 DEF Counted
    <3> QED  BY <3>1, <3>2
  <2> QED  BY <1>1, <1>2, <2>1 DEF Counted, BudgetHolds
<1>3. CASE Grants(n) /\ counter'[n].count <= share
  <2>1. granted' = [granted EXCEPT ![n] = granted[n] + 1]
    BY <1>3 DEF Grants
  <2>2. /\ granted' \in [Names \X Windows -> Nat] /\ granted'[n] = granted[n] + 1
        /\ \A m \in Names \X Windows : m # n => granted'[m] = granted[m]
    BY <1>1, <2>1
  <2>3. granted'[n] <= counter'[n].count /\ granted'[n] <= share
    BY <1>1, <1>3, <2>2
  <2>4. Counted'
    <3> SUFFICES ASSUME NEW m \in Names \X Windows PROVE granted'[m] <= counter'[m].count
      BY DEF Counted
    <3>1. CASE m = n
      BY <2>3, <3>1
    <3>2. CASE m # n
      BY <2>2, <3>2 DEF Counted
    <3> QED  BY <3>1, <3>2
  <2>5. ASSUME NEW b \in Names, NEW v \in Windows
        PROVE  granted'[<<b, v>>] <= IF b = All THEN Global ELSE PerClient
    <3> DEFINE m == <<b, v>>
    <3>1. m \in Names \X Windows
      OBVIOUS
    <3>2. CASE m = n
      <4>1. b = a
        BY <3>2
      <4> QED  BY <2>3, <3>2, <4>1
    <3>3. CASE m # n
      <4>1. granted'[m] = granted[m]
        BY <2>2, <3>1, <3>3
      <4> QED  BY <4>1 DEF BudgetHolds
    <3> QED  BY <3>2, <3>3
  <2>6. BudgetHolds'
    BY <2>5, NamesAre DEF BudgetHolds
  <2> QED  BY <2>2, <2>4, <2>6
<1> QED  BY <1>2, <1>3

\* Faults are counted within their bound.
LEMMA FaultType ==
  ASSUME StoreTypeOK, Fault
  PROVE  faults' \in 0..MaxFaults
BY LimitsAssumption DEF StoreTypeOK, Fault

-----------------------------------------------------------------------------
(***************************************************************************)
(* The steps.                                                              *)
(***************************************************************************)
LEMMA InitOK == Init => IInv
<1> SUFFICES ASSUME Init PROVE IInv
  OBVIOUS
<1>1. StoreTypeOK
  <2>1. NoCount \in Counter
    BY DEF NoCount, Counter
  <2>2. 0 \in Time /\ 0 \in 0..MaxAsked /\ 0 \in 0..MaxFaults
    BY LimitsAssumption DEF Time
  <2> QED  BY <2>1, <2>2 DEF Init, StoreTypeOK
<1>2. Counted /\ CountersLast /\ InTime
  BY DEF Init, Counted, CountersLast, InTime, NoCount
<1>3. BudgetHolds
  BY NamesAre, LimitsAssumption DEF Init, BudgetHolds
<1> QED  BY <1>1, <1>2, <1>3 DEF IInv

LEMMA BeginsKeeps ==
  ASSUME StoreTypeOK, InTime, NEW k \in Kinds, NEW c \in Clients, Begins(k, c), UNCHANGED clock
  PROVE  request' \in [Requests -> Request \cup {Idle}] /\ InTime'
<1> PICK r \in Requests :
      request' = [request EXCEPT ![r] =
        [at |-> "client", kind |-> k, client |-> c, now |-> clock, due |-> clock + Patience]]
  BY DEF Begins
<1> DEFINE q == [at |-> "client", kind |-> k, client |-> c, now |-> clock, due |-> clock + Patience]
<1>1. clock \in Nat /\ clock \in Time /\ Patience \in Nat
  BY LimitsAssumption DEF StoreTypeOK, Time
<1>2. q \in Request
  BY <1>1 DEF Request, Stages
<1>3. request' \in [Requests -> Request \cup {Idle}]
  BY <1>2 DEF StoreTypeOK
<1>4. \A s \in Requests : request'[s] = IF s = r THEN q ELSE request[s]
  BY DEF StoreTypeOK
<1> QED  BY <1>1, <1>3, <1>4 DEF InTime

LEMMA AskKeeps ==
  ASSUME IInv, Asked, UNCHANGED <<clock, counter, faults, granted>>,
         \/ UNCHANGED request
         \/ \E k \in Kinds, c \in Clients : Begins(k, c)
  PROVE  IInv'
<1>1. request' \in [Requests -> Request \cup {Idle}] /\ InTime'
  <2>1. CASE UNCHANGED request
    BY <2>1 DEF IInv, StoreTypeOK, InTime
  <2>2. CASE \E k \in Kinds, c \in Clients : Begins(k, c)
    BY <2>2, BeginsKeeps DEF IInv
  <2> QED  BY <2>1, <2>2
<1>2. asked' \in 0..MaxAsked
  BY LimitsAssumption DEF IInv, StoreTypeOK, Asked
<1>3. StoreTypeOK'
  BY <1>1, <1>2 DEF IInv, StoreTypeOK
<1> QED  BY <1>1, <1>3 DEF IInv, Counted, CountersLast, BudgetHolds

\* A request that ends, or goes on to its last command.
LEMMA GoesOn ==
  ASSUME StoreTypeOK, InTime, NEW r \in Requests, request[r] # Idle, UNCHANGED clock,
         Ends(r) \/ (request[r].at = "client" /\ Goes(r, "everybody"))
  PROVE  request' \in [Requests -> Request \cup {Idle}] /\ InTime'
<1>1. /\ clock \in Nat /\ Patience \in Nat /\ request[r] \in Request
      /\ request[r].now \in Nat /\ request[r].due \in Nat
  BY LimitsAssumption DEF StoreTypeOK, Time, Request
<1>2. CASE Ends(r)
  <2>1. \A s \in Requests : request'[s] = IF s = r THEN Idle ELSE request[s]
    BY <1>2 DEF StoreTypeOK, Ends
  <2> QED  BY <1>2, <2>1 DEF StoreTypeOK, InTime, Ends
<1>3. CASE request[r].at = "client" /\ Goes(r, "everybody")
  <2> DEFINE q == [request[r] EXCEPT !.at = "everybody", !.due = clock + Patience]
  <2>1. /\ q \in Request /\ q.now = request[r].now /\ q.due = clock + Patience
        /\ q.at = "everybody"
    <3>1. clock + Patience \in Nat /\ "everybody" \in Stages
      BY <1>1 DEF Stages
    <3>2. request[r] \in [at : Stages, kind : Kinds, client : Clients, now : Time, due : Nat]
      BY <1>1 DEF Request
    <3> QED  BY <3>1, <3>2, <1>1 DEF Request
  <2>2. request' = [request EXCEPT ![r] = q]
    BY <1>3 DEF Goes, StoreTypeOK
  <2>3. \A s \in Requests : request'[s] = IF s = r THEN q ELSE request[s]
    BY <2>2 DEF StoreTypeOK
  <2>4. clock <= request[r].now + Patience /\ request[r].now <= clock
    BY <1>1, <1>3 DEF InTime
  <2>5. InTime'
    <3> SUFFICES ASSUME NEW s \in Requests, request'[s] # Idle
                 PROVE  /\ request'[s].now <= clock /\ clock <= request'[s].due
                        /\ request'[s].at = "client" => request'[s].due <= request'[s].now + Patience
                        /\ request'[s].due <= request'[s].now + 2 * Patience
      BY DEF InTime
    <3>1. CASE s = r
      <4>1. request'[s] = q
        BY <2>3, <3>1
      <4> HIDE DEF q
      <4>2. /\ q.now <= clock /\ clock <= q.due /\ q.due <= q.now + 2 * Patience
        BY <1>1, <2>1, <2>4
      <4> QED  BY <1>3, <2>1, <4>1, <4>2 DEF Goes
    <3>2. CASE s # r
      BY <2>3, <3>2 DEF InTime
    <3> QED  BY <3>1, <3>2
  <2>6. request' \in [Requests -> Request \cup {Idle}]
    BY <2>1, <2>2 DEF StoreTypeOK
  <2> QED  BY <2>5, <2>6
<1> QED  BY <1>2, <1>3

\* One command of the store about a counter of the window the request came in.
LEMMA CommandKeeps ==
  ASSUME IInv, NEW r \in Requests, request[r] # Idle, NEW a \in Names,
         NEW share \in Nat, share = IF a = All THEN Global ELSE PerClient,
         NEW n, n = <<a, WindowStart(request[r].now)>>,
         Ends(r) \/ (request[r].at = "client" /\ Goes(r, "everybody")),
         UNCHANGED <<clock, asked>>,
         \/ Counts(n) /\ UNCHANGED faults
            /\ (UNCHANGED granted \/ (~Over(n, share) /\ Grants(n)))
         \/ Unanswered(n) /\ UNCHANGED granted
  PROVE  IInv'
<1>1. request' \in [Requests -> Request \cup {Idle}] /\ InTime'
  BY GoesOn DEF IInv
<1>2. faults' \in 0..MaxFaults
  BY FaultType DEF IInv, StoreTypeOK, Unanswered
<1>3. CASE UNCHANGED <<counter, granted>>
  BY <1>1, <1>2, <1>3 DEF IInv, StoreTypeOK, Counted, CountersLast, BudgetHolds
<1>4. CASE Counts(n) /\ (UNCHANGED granted \/ (~Over(n, share) /\ Grants(n)))
  <2> DEFINE t == request[r].now
             s == WindowStart(t)
  <2>1. t \in Time /\ t <= clock /\ clock <= t + 2 * Patience
    BY LimitsAssumption DEF IInv, StoreTypeOK, Request, InTime, Time
  <2>2. s \in Windows
    BY <2>1, WindowStartIs
  <2> HIDE DEF s, t
  <2>3. n = <<a, s>> /\ n = <<a, WindowStart(t)>>
    BY DEF s, t
  <2>4. /\ n \in Names \X Windows
        /\ counter' \in [Names \X Windows -> Counter]
        /\ counter'[n] = Incremented(n)
        /\ counter'[n].count = counter[n].count + 1
        /\ \A m \in Names \X Windows : m # n => counter'[m] = counter[m]
        /\ CountersLast'
    BY <1>4, <2>1, <2>3, CountsOneMore DEF IInv
  <2>5. UNCHANGED granted \/ (Grants(n) /\ counter'[n].count <= share)
    <3>1. ~Over(n, share) => counter'[n].count <= share
      BY <2>4 DEF Over, Counter
    <3> QED  BY <1>4, <3>1
  <2>6. granted' \in [Names \X Windows -> Nat] /\ Counted' /\ BudgetHolds'
    BY <2>2, <2>3, <2>4, <2>5, GrantKeeps DEF IInv
  <2> QED  BY <1>1, <1>2, <2>4, <2>6 DEF IInv, StoreTypeOK
<1> QED  BY <1>3, <1>4 DEF Unanswered

LEMMA CountClientKeeps ==
  ASSUME IInv, NEW r \in Requests, CountClient(r)
  PROVE  IInv'
<1> DEFINE a == <<request[r].kind, request[r].client>>
           n == <<a, WindowStart(request[r].now)>>
<1>1. request[r] # Idle /\ request[r].at = "client" /\ request[r] \in Request
  BY DEF CountClient, Idle, IInv, StoreTypeOK
<1>2. a \in Names /\ a # All /\ PerClient \in Nat
  BY <1>1, LimitsAssumption DEF Request, Kinds, Names, All
<1>3. /\ UNCHANGED <<clock, asked>>
      /\ \/ /\ Counts(n) /\ UNCHANGED faults
            /\ UNCHANGED granted \/ (~Over(n, PerClient) /\ Grants(n))
         \/ Unanswered(n) /\ UNCHANGED granted
      /\ Ends(r) \/ Goes(r, "everybody")
  BY DEF CountClient
<1> HIDE DEF a, n
<1>4. n = <<a, WindowStart(request[r].now)>>
  BY DEF n
<1> QED  BY <1>1, <1>2, <1>3, <1>4, CommandKeeps

LEMMA CountEverybodyKeeps ==
  ASSUME IInv, NEW r \in Requests, CountEverybody(r)
  PROVE  IInv'
<1> DEFINE n == <<All, WindowStart(request[r].now)>>
<1>1. request[r] # Idle /\ All \in Names /\ Global \in Nat
  BY NamesAre, LimitsAssumption DEF CountEverybody, Idle
<1>2. /\ UNCHANGED <<clock, asked>> /\ Ends(r)
      /\ \/ /\ Counts(n) /\ UNCHANGED faults
            /\ UNCHANGED granted \/ (~Over(n, Global) /\ Grants(n))
         \/ Unanswered(n) /\ UNCHANGED granted
  BY DEF CountEverybody
<1> HIDE DEF n
<1>3. n = <<All, WindowStart(request[r].now)>>
  BY DEF n
<1> QED  BY <1>1, <1>2, <1>3, CommandKeeps

LEMMA TickKeeps ==
  ASSUME IInv, Tick
  PROVE  IInv'
<1>1. clock \in Nat /\ clock' = clock + 1 /\ clock' \in Time
  BY LimitsAssumption DEF IInv, StoreTypeOK, Tick, Time
<1>2. \A r \in Requests : request[r] # Idle => request[r].due \in Nat /\ request[r].now \in Nat
  BY DEF IInv, StoreTypeOK, Request, Time
<1>3. InTime'
  BY <1>1, <1>2 DEF IInv, InTime, Tick
<1> QED  BY <1>1, <1>3 DEF IInv, StoreTypeOK, Counted, CountersLast, BudgetHolds, Tick

LEMMA StepOK == IInv /\ [Next]_vars => IInv'
<1> SUFFICES ASSUME IInv, [Next]_vars PROVE IInv'
  OBVIOUS
<1>1. CASE \E p \in Processes, c \in Clients : AskPage(p, c)
  <2> PICK p \in Processes, c \in Clients : AskPage(p, c)
    BY <1>1
  <2>1. /\ Asked /\ UNCHANGED <<clock, counter, faults, granted>>
        /\ UNCHANGED request \/ Begins("page", c)
    BY DEF AskPage
  <2> QED  BY <2>1, AskKeeps DEF Kinds
<1>2. CASE \E c \in Clients : AskAction(c)
  <2> PICK c \in Clients : AskAction(c)
    BY <1>2
  <2>1. Asked /\ UNCHANGED <<clock, counter, faults, granted>> /\ Begins("action", c)
    BY DEF AskAction
  <2> QED  BY <2>1, AskKeeps DEF Kinds
<1>3. CASE \E r \in Requests : CountClient(r) \/ CountEverybody(r)
  BY <1>3, CountClientKeeps, CountEverybodyKeeps
<1>4. CASE \E p \in Processes : Restart(p)
  BY <1>4, FaultType
  DEF IInv, Restart, StoreTypeOK, Counted, CountersLast, InTime, BudgetHolds
<1>5. CASE Tick
  BY <1>5, TickKeeps
<1>6. CASE UNCHANGED vars
  BY <1>6 DEF vars, IInv, StoreTypeOK, Counted, CountersLast, InTime, BudgetHolds
<1> QED  BY <1>1, <1>2, <1>3, <1>4, <1>5, <1>6 DEF Next

-----------------------------------------------------------------------------
(***************************************************************************)
(* What is spent of everybody's is paid for.                               *)
(***************************************************************************)
LEMMA TicketsAre ==
  ASSUME NEW w
  PROVE  /\ \A c \in Clients : \A i : <<c, i>> \in Tickets(w) <=> i \in 1..granted[<<ActionOf(c), w>>]
         /\ \A x \in Tickets(w) : \E c \in Clients : \E i \in 1..granted[<<ActionOf(c), w>>] : x = <<c, i>>
<1>1. ASSUME NEW c \in Clients, NEW i
      PROVE  <<c, i>> \in Tickets(w) <=> i \in 1..granted[<<ActionOf(c), w>>]
  <2>1. ASSUME <<c, i>> \in Tickets(w)
        PROVE  i \in 1..granted[<<ActionOf(c), w>>]
    <3> PICK d \in Clients : <<c, i>> \in {d} \X (1..granted[<<ActionOf(d), w>>])
      BY <2>1 DEF Tickets
    <3> QED  OBVIOUS
  <2>2. ASSUME i \in 1..granted[<<ActionOf(c), w>>]
        PROVE  <<c, i>> \in Tickets(w)
    <3>1. <<c, i>> \in {c} \X (1..granted[<<ActionOf(c), w>>])
      BY <2>2
    <3> QED  BY <3>1 DEF Tickets
  <2> QED  BY <2>1, <2>2
<1>2. ASSUME NEW x \in Tickets(w)
      PROVE  \E c \in Clients : \E i \in 1..granted[<<ActionOf(c), w>>] : x = <<c, i>>
  <2> PICK c \in Clients : x \in {c} \X (1..granted[<<ActionOf(c), w>>])
    BY DEF Tickets
  <2> QED  OBVIOUS
<1> QED  BY <1>1, <1>2

\* No window lets a client spend more than its share, so the tickets are few.
LEMMA PaidForIsEnough ==
  ASSUME IInv, PaidFor
  PROVE  NothingOfEverybodys
<1> SUFFICES ASSUME NEW w \in Windows
             PROVE  counter[<<All, w>>].count <= PerClient * Cardinality(Spending(w))
  BY DEF NothingOfEverybodys, Spending
<1>1. IsFiniteSet(Spending(w)) /\ IsFiniteSet(Tickets(w)) /\ IsFiniteSet(Pending(w))
  BY DEF PaidFor
<1>2. PerClient \in Nat /\ PerClient > 0
  BY LimitsAssumption
<1>3. IsFiniteSet(1..PerClient) /\ Cardinality(1..PerClient) = PerClient
  BY <1>2, FS_Interval
<1>4. Tickets(w) \subseteq Spending(w) \X (1..PerClient)
  <2> SUFFICES ASSUME NEW x \in Tickets(w) PROVE x \in Spending(w) \X (1..PerClient)
    OBVIOUS
  <2> PICK c \in Clients : \E i \in 1..granted[<<ActionOf(c), w>>] : x = <<c, i>>
    BY TicketsAre
  <2> PICK i \in 1..granted[<<ActionOf(c), w>>] : x = <<c, i>>
    OBVIOUS
  <2>1. ActionOf(c) \in Names \ {All}
    BY NamesAre
  <2>2. granted[<<ActionOf(c), w>>] \in Nat /\ granted[<<ActionOf(c), w>>] <= PerClient
    BY <2>1 DEF IInv, BudgetHolds, StoreTypeOK
  <2>3. c \in Spending(w) /\ i \in 1..PerClient
    BY <1>2, <2>2 DEF Spending
  <2> QED  BY <2>3
<1>5. Cardinality(Tickets(w)) <= Cardinality(Spending(w)) * PerClient
  <2>1. IsFiniteSet(Spending(w) \X (1..PerClient))
        /\ Cardinality(Spending(w) \X (1..PerClient)) = Cardinality(Spending(w)) * PerClient
    BY <1>1, <1>3, FS_Product
  <2> QED  BY <1>4, <2>1, FS_Subset
<1>6. /\ Cardinality(Tickets(w)) \in Nat /\ Cardinality(Pending(w)) \in Nat
      /\ Cardinality(Spending(w)) \in Nat
  BY <1>1, FS_CardinalityType
<1>7. counter[<<All, w>>].count \in Nat
  BY NamesAre DEF IInv, StoreTypeOK, Counter
<1>8. counter[<<All, w>>].count <= Cardinality(Tickets(w))
  BY <1>6, <1>7 DEF PaidFor
<1>9. Cardinality(Spending(w)) * PerClient = PerClient * Cardinality(Spending(w))
  BY <1>2, <1>6
<1>10. PerClient * Cardinality(Spending(w)) \in Nat
  BY <1>2, <1>6
<1> DEFINE m == PerClient * Cardinality(Spending(w))
<1>11. Cardinality(Tickets(w)) <= m /\ m \in Nat
  BY <1>5, <1>9, <1>10
<1> HIDE DEF m
<1>12. counter[<<All, w>>].count <= m
  BY <1>6, <1>7, <1>8, <1>11
<1> QED  BY <1>12 DEF m

LEMMA PaidInit == Init => PaidFor
<1> SUFFICES ASSUME Init, NEW w \in Windows
             PROVE  /\ IsFiniteSet(Tickets(w)) /\ IsFiniteSet(Spending(w)) /\ IsFiniteSet(Pending(w))
                    /\ counter[<<All, w>>].count + Cardinality(Pending(w)) <= Cardinality(Tickets(w))
  BY DEF PaidFor
<1>1. \A c \in Clients : granted[<<ActionOf(c), w>>] = 0
  BY NamesAre DEF Init
<1>2. Tickets(w) = {} /\ Spending(w) = {}
  <2>1. Tickets(w) = {}
    <3> SUFFICES ASSUME NEW x \in Tickets(w) PROVE FALSE
      OBVIOUS
    <3>1. PICK c \in Clients : \E i \in 1..granted[<<ActionOf(c), w>>] : x = <<c, i>>
      BY TicketsAre
    <3> QED  BY <1>1, <3>1
  <2> QED  BY <1>1, <2>1 DEF Spending
<1>3. Pending(w) = {}
  BY DEF Init, Pending, Idle
<1>4. counter[<<All, w>>].count = 0
  BY NamesAre DEF Init, NoCount
<1> QED  BY <1>2, <1>3, <1>4, FS_EmptySet

\* A step that lets no action through, and of which everybody's is not counted.
LEMMA PaidStays ==
  ASSUME PaidFor, StoreTypeOK,
         \A c \in Clients, w \in Windows : granted'[<<ActionOf(c), w>>] = granted[<<ActionOf(c), w>>],
         \A w \in Windows : counter'[<<All, w>>].count = counter[<<All, w>>].count,
         \A r \in Requests : request'[r].at = "everybody" => request'[r] = request[r]
  PROVE  PaidFor'
<1> SUFFICES ASSUME NEW w \in Windows
             PROVE  /\ IsFiniteSet(Tickets(w)') /\ IsFiniteSet(Spending(w)') /\ IsFiniteSet(Pending(w)')
                    /\ counter'[<<All, w>>].count + Cardinality(Pending(w)') <= Cardinality(Tickets(w)')
  BY DEF PaidFor
<1>1. Tickets(w)' = Tickets(w) /\ Spending(w)' = Spending(w)
  BY DEF Tickets, Spending
<1>2. Pending(w)' \subseteq Pending(w)
  BY DEF Pending
<1>3. /\ IsFiniteSet(Tickets(w)) /\ IsFiniteSet(Spending(w)) /\ IsFiniteSet(Pending(w))
      /\ counter[<<All, w>>].count + Cardinality(Pending(w)) <= Cardinality(Tickets(w))
  BY DEF PaidFor
<1>4. IsFiniteSet(Pending(w)') /\ Cardinality(Pending(w)') <= Cardinality(Pending(w))
  BY <1>2, <1>3, FS_Subset
<1>5. Cardinality(Pending(w)) \in Nat /\ Cardinality(Pending(w)') \in Nat /\ Cardinality(Tickets(w)) \in Nat
  BY <1>3, <1>4, FS_CardinalityType
<1>6. counter[<<All, w>>].count \in Nat /\ counter'[<<All, w>>].count = counter[<<All, w>>].count
  BY NamesAre DEF StoreTypeOK, Counter
<1>7. counter'[<<All, w>>].count + Cardinality(Pending(w)') <= Cardinality(Tickets(w))
  BY <1>3, <1>4, <1>5, <1>6
<1> QED  BY <1>1, <1>3, <1>4, <1>7

\* An action that passes its client's count takes a ticket, and is pending.
LEMMA PaidGrows ==
  ASSUME PaidFor, StoreTypeOK, NEW c \in Clients, NEW r \in Requests, NEW v \in Windows,
         request[r].at = "client", v = WindowStart(request[r].now),
         granted' = [granted EXCEPT ![<<ActionOf(c), v>>] = @ + 1],
         \A w \in Windows : counter'[<<All, w>>].count = counter[<<All, w>>].count,
         Goes(r, "everybody")
  PROVE  PaidFor'
<1>1. granted \in [Names \X Windows -> Nat] /\ request \in [Requests -> Request \cup {Idle}]
  BY DEF StoreTypeOK
<1>2. \A d \in Clients : ActionOf(d) \in Names /\ (ActionOf(d) = ActionOf(c) <=> d = c)
  BY NamesAre DEF ActionOf
<1>3. \A d \in Clients, w \in Windows :
        granted'[<<ActionOf(d), w>>] =
          IF d = c /\ w = v THEN granted[<<ActionOf(c), v>>] + 1 ELSE granted[<<ActionOf(d), w>>]
  BY <1>1, <1>2
<1>4. \A d \in Clients, w \in Windows : granted[<<ActionOf(d), w>>] \in Nat
  BY <1>1, <1>2
<1>5. \A q \in Requests : q # r => request'[q] = request[q]
  BY <1>1 DEF Goes
<1>6. request'[r].at = "everybody" /\ request'[r].now = request[r].now
  <2>1. request[r] \in Request
    BY <1>1 DEF Idle
  <2>2. request'[r] = [request[r] EXCEPT !.at = "everybody", !.due = clock + Patience]
    BY <1>1 DEF Goes
  <2> QED  BY <2>1, <2>2 DEF Request
<1> SUFFICES ASSUME NEW w \in Windows
             PROVE  /\ IsFiniteSet(Tickets(w)') /\ IsFiniteSet(Spending(w)') /\ IsFiniteSet(Pending(w)')
                    /\ counter'[<<All, w>>].count + Cardinality(Pending(w)') <= Cardinality(Tickets(w)')
  BY DEF PaidFor
<1>7. /\ IsFiniteSet(Tickets(w)) /\ IsFiniteSet(Spending(w)) /\ IsFiniteSet(Pending(w))
      /\ counter[<<All, w>>].count + Cardinality(Pending(w)) <= Cardinality(Tickets(w))
  BY DEF PaidFor
<1>8. CASE w # v
  <2>1. Tickets(w)' = Tickets(w) /\ Spending(w)' = Spending(w)
    BY <1>3, <1>8 DEF Tickets, Spending
  <2>2. Pending(w)' = Pending(w)
    BY <1>5, <1>6, <1>8 DEF Pending
  <2> QED  BY <1>7, <2>1, <2>2
<1>9. CASE w = v
  <2> DEFINE x == <<c, granted[<<ActionOf(c), v>>] + 1>>
  <2>1. Spending(w)' = Spending(w) \cup {c}
    <3>1. \A d \in Clients : granted'[<<ActionOf(d), w>>] > 0 <=> d = c \/ granted[<<ActionOf(d), w>>] > 0
      BY <1>3, <1>4, <1>9
    <3> QED  BY <3>1 DEF Spending
  <2>2. Tickets(w)' = Tickets(w) \cup {x}
    <3>1. /\ \A d \in Clients : d # c => granted'[<<ActionOf(d), w>>] = granted[<<ActionOf(d), w>>]
          /\ granted'[<<ActionOf(c), w>>] = granted[<<ActionOf(c), w>>] + 1
      BY <1>3, <1>9
    <3>2. 1..(granted[<<ActionOf(c), w>>] + 1)
            = (1..granted[<<ActionOf(c), w>>]) \cup {granted[<<ActionOf(c), w>>] + 1}
      BY <1>4
    <3>3. \A d \in Clients :
            {d} \X (1..granted'[<<ActionOf(d), w>>]) =
              IF d = c THEN ({d} \X (1..granted[<<ActionOf(d), w>>])) \cup {x}
              ELSE {d} \X (1..granted[<<ActionOf(d), w>>])
      BY <1>9, <3>1, <3>2
    <3> QED  BY <3>3 DEF Tickets
  <2>3. x \notin Tickets(w)
    BY <1>4, <1>9, TicketsAre
  <2> HIDE DEF x
  <2>4. Pending(w)' = Pending(w) \cup {r} /\ r \notin Pending(w)
    BY <1>5, <1>6, <1>9 DEF Pending
  <2>5. IsFiniteSet(Spending(w)')
    BY <1>7, <2>1, FS_AddElement
  <2>6. IsFiniteSet(Tickets(w)') /\ Cardinality(Tickets(w)') = Cardinality(Tickets(w)) + 1
    BY <1>7, <2>2, <2>3, FS_AddElement
  <2>7. IsFiniteSet(Pending(w)') /\ Cardinality(Pending(w)') = Cardinality(Pending(w)) + 1
    BY <1>7, <2>4, FS_AddElement
  <2>8. /\ Cardinality(Pending(w)) \in Nat /\ Cardinality(Tickets(w)) \in Nat
        /\ counter[<<All, w>>].count \in Nat
    BY <1>7, FS_CardinalityType, NamesAre DEF StoreTypeOK, Counter
  <2>9. counter'[<<All, w>>].count = counter[<<All, w>>].count
    OBVIOUS
  <2>10. counter[<<All, w>>].count + (Cardinality(Pending(w)) + 1) <= Cardinality(Tickets(w)) + 1
    BY <1>7, <2>8
  <2> QED  BY <2>5, <2>6, <2>7, <2>9, <2>10
<1> QED  BY <1>8, <1>9

\* A pending action is counted with everybody's, or is given up.
LEMMA PaidSpends ==
  ASSUME PaidFor, StoreTypeOK, NEW r \in Requests, NEW v \in Windows,
         request[r].at = "everybody", v = WindowStart(request[r].now), Ends(r),
         \A c \in Clients, w \in Windows : granted'[<<ActionOf(c), w>>] = granted[<<ActionOf(c), w>>],
         counter' \in [Names \X Windows -> Counter],
         \A w \in Windows : w # v => counter'[<<All, w>>] = counter[<<All, w>>],
         counter'[<<All, v>>].count <= counter[<<All, v>>].count + 1
  PROVE  PaidFor'
<1> SUFFICES ASSUME NEW w \in Windows
             PROVE  /\ IsFiniteSet(Tickets(w)') /\ IsFiniteSet(Spending(w)') /\ IsFiniteSet(Pending(w)')
                    /\ counter'[<<All, w>>].count + Cardinality(Pending(w)') <= Cardinality(Tickets(w)')
  BY DEF PaidFor
<1>1. /\ IsFiniteSet(Tickets(w)) /\ IsFiniteSet(Spending(w)) /\ IsFiniteSet(Pending(w))
      /\ counter[<<All, w>>].count + Cardinality(Pending(w)) <= Cardinality(Tickets(w))
  BY DEF PaidFor
<1>2. Tickets(w)' = Tickets(w) /\ Spending(w)' = Spending(w)
  BY DEF Tickets, Spending
<1>3. \A q \in Requests : request'[q] = IF q = r THEN Idle ELSE request[q]
  BY DEF StoreTypeOK, Ends
<1>4. Pending(w)' = Pending(w) \ {r}
  BY <1>3 DEF Pending, Idle
<1>5. /\ IsFiniteSet(Pending(w)')
      /\ Cardinality(Pending(w)') = IF r \in Pending(w) THEN Cardinality(Pending(w)) - 1 ELSE Cardinality(Pending(w))
  BY <1>1, <1>4, FS_RemoveElement
<1>6. /\ Cardinality(Pending(w)) \in Nat /\ Cardinality(Tickets(w)) \in Nat
      /\ counter[<<All, w>>].count \in Nat /\ counter'[<<All, w>>].count \in Nat
  BY <1>1, FS_CardinalityType, NamesAre DEF StoreTypeOK, Counter
<1>7. r \in Pending(w) <=> w = v
  BY DEF Pending
<1>8. counter'[<<All, w>>].count + Cardinality(Pending(w)') <= Cardinality(Tickets(w))
  <2>1. CASE w = v
    <3>1. Cardinality(Pending(w)') = Cardinality(Pending(w)) - 1
      BY <1>5, <1>7, <2>1
    <3>2. counter'[<<All, w>>].count <= counter[<<All, w>>].count + 1
      BY <2>1
    <3> QED  BY <1>1, <1>6, <3>1, <3>2
  <2>2. CASE w # v
    BY <1>1, <1>5, <1>6, <1>7, <2>2
  <2> QED  BY <2>1, <2>2
<1> QED  BY <1>1, <1>2, <1>5, <1>8

\* A command that is not answered counts as one that is, or not at all.
LEMMA CommandCounts ==
  ASSUME IInv, NEW r \in Requests, request[r] # Idle, NEW a \in Names,
         NEW n, n = <<a, WindowStart(request[r].now)>>,
         Counts(n) \/ UNCHANGED counter
  PROVE  /\ WindowStart(request[r].now) \in Windows
         /\ counter' \in [Names \X Windows -> Counter]
         /\ counter'[n].count <= counter[n].count + 1
         /\ \A m \in Names \X Windows : m # n => counter'[m] = counter[m]
<1> DEFINE t == request[r].now
<1>1. t \in Time /\ t <= clock /\ clock <= t + 2 * Patience
  BY LimitsAssumption DEF IInv, StoreTypeOK, Request, InTime, Time
<1>2. WindowStart(t) \in Windows
  BY <1>1, WindowStartIs
<1>3. n \in Names \X Windows
  BY <1>2
<1> HIDE DEF t
<1>4. n = <<a, WindowStart(t)>>
  BY DEF t
<1>5. CASE Counts(n)
  <2>1. /\ n \in Names \X Windows
        /\ counter' \in [Names \X Windows -> Counter]
        /\ counter'[n] = Incremented(n)
        /\ counter'[n].count = counter[n].count + 1
        /\ \A m \in Names \X Windows : m # n => counter'[m] = counter[m]
        /\ CountersLast'
    <3>1. StoreTypeOK /\ CountersLast
      BY DEF IInv
    <3> QED  BY <1>1, <1>4, <1>5, <3>1, CountsOneMore
  <2>2. counter[n].count \in Nat
    BY <1>3 DEF IInv, StoreTypeOK, Counter
  <2> QED  BY <1>2, <2>1, <2>2 DEF t
<1>6. CASE UNCHANGED counter
  <2>1. counter[n].count \in Nat
    BY <1>3 DEF IInv, StoreTypeOK, Counter
  <2> QED  BY <1>2, <1>6, <2>1 DEF IInv, StoreTypeOK, t
<1> QED  BY <1>5, <1>6

LEMMA CountClientPaid ==
  ASSUME IInv, PaidFor, NEW r \in Requests, CountClient(r)
  PROVE  PaidFor'
<1> DEFINE a == <<request[r].kind, request[r].client>>
           v == WindowStart(request[r].now)
           n == <<a, v>>
<1>1. /\ request[r] # Idle /\ request[r].at = "client" /\ request[r] \in Request
      /\ request \in [Requests -> Request \cup {Idle}]
  BY DEF CountClient, Idle, IInv, StoreTypeOK
<1>2. a \in Names /\ a # All /\ request[r].kind \in Kinds /\ request[r].client \in Clients
  BY <1>1 DEF Request, Kinds, Names, All
<1>3. /\ Counts(n) \/ UNCHANGED counter
      /\ \/ Ends(r) /\ UNCHANGED granted
         \/ /\ Grants(n)
            /\ IF request[r].kind = "page" THEN Ends(r) ELSE Goes(r, "everybody")
  BY DEF CountClient, Unanswered
<1>4. /\ v \in Windows
      /\ \A m \in Names \X Windows : m # n => counter'[m] = counter[m]
  BY <1>1, <1>2, <1>3, CommandCounts
<1>5. \A w \in Windows : counter'[<<All, w>>].count = counter[<<All, w>>].count
  BY <1>2, <1>4, NamesAre
<1>6. StoreTypeOK
  BY DEF IInv
<1>7. Ends(r) => \A q \in Requests : request'[q].at = "everybody" => request'[q] = request[q]
  BY <1>1 DEF Ends, Idle
<1>8. CASE Ends(r) /\ UNCHANGED granted
  BY <1>5, <1>6, <1>7, <1>8, PaidStays
<1>9. CASE Grants(n) /\ request[r].kind = "page" /\ Ends(r)
  <2>1. \A c \in Clients, w \in Windows : <<ActionOf(c), w>> # n
    BY <1>9 DEF ActionOf
  <2>2. \A c \in Clients, w \in Windows : granted'[<<ActionOf(c), w>>] = granted[<<ActionOf(c), w>>]
    BY <1>6, <1>9, <2>1, NamesAre DEF Grants, StoreTypeOK
  <2> QED  BY <1>5, <1>6, <1>7, <1>9, <2>2, PaidStays
<1>10. CASE Grants(n) /\ request[r].kind # "page" /\ Goes(r, "everybody")
  <2>1. n = <<ActionOf(request[r].client), v>>
    BY <1>2, <1>10 DEF Kinds, ActionOf
  <2>2. granted' = [granted EXCEPT ![<<ActionOf(request[r].client), v>>] = @ + 1]
    BY <1>10, <2>1 DEF Grants
  <2> QED  BY <1>1, <1>2, <1>4, <1>5, <1>6, <1>10, <2>2, PaidGrows
<1> QED  BY <1>3, <1>8, <1>9, <1>10

LEMMA CountEverybodyPaid ==
  ASSUME IInv, PaidFor, NEW r \in Requests, CountEverybody(r)
  PROVE  PaidFor'
<1> DEFINE v == WindowStart(request[r].now)
           n == <<All, v>>
<1>1. request[r] # Idle /\ request[r].at = "everybody" /\ All \in Names
  BY NamesAre DEF CountEverybody, Idle
<1>2. /\ Counts(n) \/ UNCHANGED counter
      /\ Ends(r)
      /\ UNCHANGED granted \/ Grants(n)
  BY DEF CountEverybody, Unanswered
<1>3. /\ v \in Windows
      /\ counter' \in [Names \X Windows -> Counter]
      /\ counter'[n].count <= counter[n].count + 1
      /\ \A m \in Names \X Windows : m # n => counter'[m] = counter[m]
  BY <1>1, <1>2, CommandCounts
<1>4. \A c \in Clients, w \in Windows : granted'[<<ActionOf(c), w>>] = granted[<<ActionOf(c), w>>]
  BY <1>2, NamesAre DEF Grants, IInv, StoreTypeOK
<1>5. \A w \in Windows : w # v => counter'[<<All, w>>] = counter[<<All, w>>]
  BY <1>1, <1>3
<1> QED  BY <1>1, <1>2, <1>3, <1>4, <1>5, PaidSpends DEF IInv

LEMMA PaidStep == IInv /\ PaidFor /\ [Next]_vars => PaidFor'
<1> SUFFICES ASSUME IInv, PaidFor, [Next]_vars PROVE PaidFor'
  OBVIOUS
<1>1. StoreTypeOK /\ request \in [Requests -> Request \cup {Idle}]
  BY DEF IInv, StoreTypeOK
<1>2. ASSUME UNCHANGED <<counter, granted>>,
             UNCHANGED request \/ \E k \in Kinds, c \in Clients : Begins(k, c)
      PROVE  PaidFor'
  <2>1. \A q \in Requests : request'[q].at = "everybody" => request'[q] = request[q]
    BY <1>1, <1>2 DEF Begins
  <2> QED  BY <1>1, <1>2, <2>1, PaidStays
<1>3. CASE \E p \in Processes, c \in Clients : AskPage(p, c)
  BY <1>2, <1>3 DEF AskPage, Kinds
<1>4. CASE \E c \in Clients : AskAction(c)
  BY <1>2, <1>4 DEF AskAction, Kinds
<1>5. CASE \E r \in Requests : CountClient(r) \/ CountEverybody(r)
  BY <1>5, CountClientPaid, CountEverybodyPaid
<1>6. CASE \E p \in Processes : Restart(p)
  BY <1>2, <1>6 DEF Restart
<1>7. CASE Tick
  BY <1>2, <1>7 DEF Tick
<1>8. CASE UNCHANGED vars
  BY <1>2, <1>8 DEF vars
<1> QED  BY <1>3, <1>4, <1>5, <1>6, <1>7, <1>8 DEF Next

-----------------------------------------------------------------------------
(***************************************************************************)
(* The invariant of what a process counts.                                 *)
(***************************************************************************)
Recorded == WindowsFrom(Time, Clients, Limit)

\* No client has two windows, and the first of the table began longest ago.
OneEach(tab) == \A i, j \in 1..Len(tab) : i < j => tab[i].key # tab[j].key
OldestFirst(tab) == \A i, j \in 1..Len(tab) : i < j => tab[i].startedAt <= tab[j].startedAt

\* The last pages let through are those of the window, which began with the
\* first of them; of those before, all but the last Limit - 1 had come a whole
\* window before it began.
Follows(w, times) ==
  /\ w.count <= Len(times)
  /\ \A i \in 1..Len(times) :
       /\ i + w.count = Len(times) + 1 => times[i] = w.startedAt
       /\ i + w.count > Len(times) => times[i] < w.startedAt + LocalWindow
       /\ i + w.count <= Len(times) => times[i] < w.startedAt
       /\ i + w.count + Limit <= Len(times) + 1 => times[i] + LocalWindow <= w.startedAt

Spread(times) ==
  \A i, j \in 1..Len(times) : j + 1 = i + 2 * Limit => times[i] + LocalWindow <= times[j]

\* What a process keeps of its clients, and when it let their pages through.
Remembers(tab, times, now) ==
  /\ tab \in Seq(Recorded) /\ Len(tab) <= MaxTracked
  /\ times \in [Clients -> Seq(Time)]
  /\ OneEach(tab) /\ OldestFirst(tab)
  /\ \A i \in 1..Len(tab) : tab[i].startedAt <= now /\ Follows(tab[i], times[tab[i].key])
  /\ \A c \in Clients : (\A i \in 1..Len(tab) : tab[i].key # c) => times[c] = <<>>
  /\ \A c \in Clients : Spread(times[c])

AllRemember ==
  /\ clock \in Time
  /\ table \in [Processes -> Seq(Recorded)]
  /\ letIn \in [Processes -> [Clients -> Seq(Time)]]
  /\ \A p \in Processes : Remembers(table[p], letIn[p], clock)

-----------------------------------------------------------------------------
(***************************************************************************)
(* What a table keeps.                                                     *)
(***************************************************************************)
LEMMA RecordedAre ==
  /\ \A w \in Recorded : /\ w.key \in Clients /\ w.startedAt \in Time /\ w.startedAt \in Nat
                         /\ w.count \in 1..Limit
  /\ \A c \in Clients, t \in Time, k \in 1..Limit :
       [key |-> c, startedAt |-> t, count |-> k] \in Recorded
  /\ \A t \in Time : t \in Nat
  /\ Limit \in Nat /\ Limit > 0 /\ LocalWindow \in Nat /\ LocalWindow > 0
  /\ MaxTracked \in Nat /\ MaxTracked > 0
<1>1. /\ Limit \in Nat /\ Limit > 0 /\ LocalWindow \in Nat /\ LocalWindow > 0
      /\ MaxTracked \in Nat /\ MaxTracked > 0
  BY LimitsAssumption
<1>2. \A t \in Time : t \in Nat
  BY DEF Time
<1> QED  BY <1>1, <1>2 DEF Recorded, WindowsFrom

\* Some of a table's windows, in their order.
PartOf(some, tab) ==
  /\ some \in Seq(Recorded) /\ Len(some) <= Len(tab)
  /\ \A i \in 1..Len(some) : \E k \in 1..Len(tab) : some[i] = tab[k]
  /\ \A i, j \in 1..Len(some) : i < j =>
       \E k, l \in 1..Len(tab) : k < l /\ some[i] = tab[k] /\ some[j] = tab[l]

LEMMA PartOfPart ==
  ASSUME NEW a, NEW b, NEW c, PartOf(a, b), PartOf(b, c),
         Len(a) \in Nat, Len(b) \in Nat, Len(c) \in Nat
  PROVE  PartOf(a, c)
<1>1. Len(a) <= Len(c)
  BY DEF PartOf
<1>2. ASSUME NEW i \in 1..Len(a) PROVE \E k \in 1..Len(c) : a[i] = c[k]
  <2> PICK k \in 1..Len(b) : a[i] = b[k]
    BY DEF PartOf
  <2> QED  BY DEF PartOf
<1>3. ASSUME NEW i \in 1..Len(a), NEW j \in 1..Len(a), i < j
      PROVE  \E k, l \in 1..Len(c) : k < l /\ a[i] = c[k] /\ a[j] = c[l]
  <2> PICK k \in 1..Len(b), l \in 1..Len(b) : k < l /\ a[i] = b[k] /\ a[j] = b[l]
    BY <1>3 DEF PartOf
  <2> QED  BY DEF PartOf
<1> QED  BY <1>1, <1>2, <1>3 DEF PartOf

\* Deleting a client's window leaves the others as they were.
LEMMA WithoutIs ==
  ASSUME NEW tab \in Seq(Recorded), OneEach(tab), NEW c \in Clients
  PROVE  /\ PartOf(Without(tab, c), tab)
         /\ \A i \in 1..Len(Without(tab, c)) : Without(tab, c)[i].key # c
<1> DEFINE n == Len(tab)
<1>1. n \in Nat /\ DOMAIN tab = 1..n
  BY LenProperties
<1>2. \A i \in 1..n : tab[i] \in Recorded
  BY ElementOfSeq
<1>3. CASE ~\E i \in DOMAIN tab : tab[i].key = c
  <2>1. Without(tab, c) = tab
    BY <1>3 DEF Without
  <2> QED  BY <1>1, <1>3, <2>1 DEF PartOf
<1>4. CASE \E i \in DOMAIN tab : tab[i].key = c
  <2> DEFINE q == CHOOSE i \in DOMAIN tab : tab[i].key = c
             front == SubSeq(tab, 1, q - 1)
             back == SubSeq(tab, q + 1, n)
             o == front \o back
  <2>1. q \in 1..n /\ tab[q].key = c
    BY <1>1, <1>4
  <2>2. Without(tab, c) = o
    BY <1>4 DEF Without
  <2> HIDE DEF q, n
  <2>3. /\ front \in Seq(Recorded) /\ Len(front) = q - 1
        /\ \A i \in 1..(q - 1) : front[i] = tab[i]
    <3>1. 1 \in Int /\ q - 1 \in Int /\ \A i \in 1..(q - 1) : tab[i] \in Recorded
      BY <1>1, <1>2, <2>1
    <3>2. /\ front \in Seq(Recorded)
          /\ Len(front) = IF 1 <= q - 1 THEN q - 1 - 1 + 1 ELSE 0
          /\ \A i \in 1..(q - 1 - 1 + 1) : front[i] = tab[1 + i - 1]
      BY <3>1, SubSeqProperties
    <3> HIDE DEF front
    <3>3. q - 1 - 1 + 1 = q - 1 /\ \A i \in 1..(q - 1) : 1 + i - 1 = i
      BY <1>1, <2>1
    <3> QED  BY <1>1, <2>1, <3>2, <3>3
  <2>4. /\ back \in Seq(Recorded) /\ Len(back) = n - q
        /\ \A i \in 1..(n - q) : back[i] = tab[q + i]
    <3>1. q + 1 \in Int /\ n \in Int /\ \A i \in (q + 1)..n : tab[i] \in Recorded
      BY <1>1, <1>2, <2>1
    <3>2. /\ back \in Seq(Recorded)
          /\ Len(back) = IF q + 1 <= n THEN n - (q + 1) + 1 ELSE 0
          /\ \A i \in 1..(n - (q + 1) + 1) : back[i] = tab[q + 1 + i - 1]
      BY <3>1, SubSeqProperties
    <3> HIDE DEF back
    <3>3. n - (q + 1) + 1 = n - q
      BY <1>1, <2>1
    <3>4. ASSUME NEW i \in 1..(n - q) PROVE back[i] = tab[q + i]
      <4>1. q + 1 + i - 1 = q + i
        BY <1>1, <2>1
      <4> QED  BY <3>2, <3>3, <4>1
    <3>5. Len(back) = n - q
      <4>1. CASE q + 1 <= n
        BY <3>2, <3>3, <4>1
      <4>2. CASE ~(q + 1 <= n)
        <5>1. n - q = 0
          BY <1>1, <2>1, <4>2
        <5> QED  BY <3>2, <4>2, <5>1
      <4> QED  BY <4>1, <4>2
    <3> QED  BY <3>2, <3>4, <3>5
  <2> HIDE DEF front, back
  <2>5. /\ o \in Seq(Recorded) /\ Len(o) = (q - 1) + (n - q)
        /\ \A i \in 1..((q - 1) + (n - q)) : o[i] = IF i <= q - 1 THEN front[i] ELSE back[i - (q - 1)]
    <3>1. /\ o \in Seq(Recorded) /\ Len(o) = Len(front) + Len(back)
          /\ \A i \in 1..(Len(front) + Len(back)) :
               o[i] = IF i <= Len(front) THEN front[i] ELSE back[i - Len(front)]
      BY <2>3, <2>4, ConcatProperties
    <3> HIDE DEF o
    <3> QED  BY <2>3, <2>4, <3>1
  <2> HIDE DEF o
  <2>6. (q - 1) + (n - q) = n - 1
    BY <1>1, <2>1
  <2>7. \A i \in 1..(n - 1) : o[i] = IF i < q THEN tab[i] ELSE tab[i + 1]
    <3> SUFFICES ASSUME NEW i \in 1..(n - 1) PROVE o[i] = IF i < q THEN tab[i] ELSE tab[i + 1]
      OBVIOUS
    <3>1. CASE i < q
      <4>1. i \in 1..(q - 1) /\ i <= q - 1
        BY <1>1, <2>1, <3>1
      <4> QED  BY <2>3, <2>5, <2>6, <3>1, <4>1
    <3>2. CASE ~(i < q)
      <4>1. i - (q - 1) \in 1..(n - q) /\ ~(i <= q - 1) /\ q + (i - (q - 1)) = i + 1
        BY <1>1, <2>1, <3>2
      <4> QED  BY <2>4, <2>5, <2>6, <3>2, <4>1
    <3> QED  BY <3>1, <3>2
  <2>8. Len(o) = n - 1 /\ o \in Seq(Recorded)
    BY <2>5, <2>6
  <2>9. ASSUME NEW i \in 1..(n - 1)
        PROVE  \E k \in 1..n : o[i] = tab[k] /\ k # q /\ k = IF i < q THEN i ELSE i + 1
    <3>1. CASE i < q
      <4>1. i \in 1..n /\ i # q
        BY <1>1, <2>1, <3>1
      <4> QED  BY <2>7, <3>1, <4>1
    <3>2. CASE ~(i < q)
      <4>1. i + 1 \in 1..n /\ i + 1 # q
        BY <1>1, <2>1, <3>2
      <4> QED  BY <2>7, <3>2, <4>1
    <3> QED  BY <3>1, <3>2
  <2>10. \A k \in 1..n : k # q => tab[k].key # c
    BY <1>1, <2>1 DEF OneEach, n
  <2>11. \A i \in 1..(n - 1) : o[i].key # c
    BY <2>9, <2>10
  <2>12. ASSUME NEW i \in 1..(n - 1), NEW j \in 1..(n - 1), i < j
         PROVE  \E k, l \in 1..n : k < l /\ o[i] = tab[k] /\ o[j] = tab[l]
    <3> PICK k \in 1..n : o[i] = tab[k] /\ k = IF i < q THEN i ELSE i + 1
      BY <2>9
    <3> PICK l \in 1..n : o[j] = tab[l] /\ l = IF j < q THEN j ELSE j + 1
      BY <2>9
    <3>1. k < l
      BY <1>1, <2>1, <2>12
    <3> QED  BY <3>1
  <2>13. n - 1 <= n
    BY <1>1
  <2>14. PartOf(o, tab)
    <3>1. \A i \in 1..Len(o) : \E k \in 1..Len(tab) : o[i] = tab[k]
      BY <2>8, <2>9 DEF n
    <3>2. \A i, j \in 1..Len(o) : i < j =>
            \E k, l \in 1..Len(tab) : k < l /\ o[i] = tab[k] /\ o[j] = tab[l]
      <4> SUFFICES ASSUME NEW i \in 1..Len(o), NEW j \in 1..Len(o), i < j
                   PROVE  \E k, l \in 1..Len(tab) : k < l /\ o[i] = tab[k] /\ o[j] = tab[l]
        OBVIOUS
      <4>1. i \in 1..(n - 1) /\ j \in 1..(n - 1)
        BY <2>8
      <4>2. \E k, l \in 1..n : k < l /\ o[i] = tab[k] /\ o[j] = tab[l]
        BY <2>12, <4>1
      <4> QED  BY <4>2 DEF n
    <3>3. Len(o) <= Len(tab)
      BY <2>8, <2>13 DEF n
    <3> QED  BY <2>8, <3>1, <3>2, <3>3 DEF PartOf
  <2> QED  BY <2>2, <2>8, <2>11, <2>14
<1> QED  BY <1>3, <1>4

LEMMA EvictIs ==
  ASSUME NEW tab \in Seq(Recorded), Len(tab) <= MaxTracked
  PROVE  /\ PartOf(EvictUntilRoom(tab, MaxTracked), tab)
         /\ Len(EvictUntilRoom(tab, MaxTracked)) < MaxTracked
<1> DEFINE n == Len(tab)
           o == EvictUntilRoom(tab, MaxTracked)
<1>1. n \in Nat /\ MaxTracked \in Nat /\ MaxTracked > 0
  BY LenProperties, RecordedAre
<1>2. CASE n < MaxTracked
  <2>1. o = tab
    BY <1>2 DEF EvictUntilRoom
  <2> QED  BY <1>1, <1>2, <2>1 DEF PartOf
<1>3. CASE ~(n < MaxTracked)
  <2>1. n = MaxTracked /\ n - MaxTracked + 2 = 2
    BY <1>1, <1>3
  <2>2. o = SubSeq(tab, 2, n)
    BY <1>3, <2>1 DEF EvictUntilRoom
  <2> HIDE DEF o
  <2>3. 2 \in Int /\ n \in Int /\ \A i \in 2..n : tab[i] \in Recorded
    BY <1>1, ElementOfSeq
  <2>4. /\ o \in Seq(Recorded) /\ Len(o) = IF 2 <= n THEN n - 2 + 1 ELSE 0
        /\ \A i \in 1..(n - 2 + 1) : o[i] = tab[2 + i - 1]
    BY <2>2, <2>3, SubSeqProperties
  <2> HIDE DEF n
  <2>5. Len(o) = n - 1 /\ n - 2 + 1 = n - 1
    BY <1>1, <2>1, <2>4
  <2>6. \A i \in 1..(n - 1) : i + 1 \in 1..n /\ o[i] = tab[i + 1]
    <3>1. \A i \in 1..(n - 1) : 2 + i - 1 = i + 1 /\ i + 1 \in 1..n
      BY <1>1
    <3> QED  BY <2>4, <2>5, <3>1
  <2>7. ASSUME NEW i \in 1..(n - 1), NEW j \in 1..(n - 1), i < j
        PROVE  \E k, l \in 1..n : k < l /\ o[i] = tab[k] /\ o[j] = tab[l]
    <3>1. i + 1 < j + 1
      BY <1>1, <2>7
    <3> QED  BY <2>6, <3>1
  <2>8. PartOf(o, tab)
    <3>1. n - 1 <= n
      BY <1>1
    <3>2. \A i \in 1..Len(o) : \E k \in 1..Len(tab) : o[i] = tab[k]
      BY <2>5, <2>6 DEF n
    <3>3. \A i, j \in 1..Len(o) : i < j =>
            \E k, l \in 1..Len(tab) : k < l /\ o[i] = tab[k] /\ o[j] = tab[l]
      BY <2>5, <2>7 DEF n
    <3>4. Len(o) <= Len(tab)
      BY <2>5, <3>1 DEF n
    <3> QED  BY <2>4, <3>2, <3>3, <3>4 DEF PartOf
  <2> QED  BY <1>1, <2>1, <2>5, <2>8 DEF o
<1> QED  BY <1>2, <1>3

\* A window that begins goes to the back of some of the windows of others.
LEMMA StartWindowIs ==
  ASSUME NEW tab \in Seq(Recorded), OneEach(tab), Len(tab) <= MaxTracked,
         NEW c \in Clients, NEW now \in Time
  PROVE  \E kept \in Seq(Recorded) :
           /\ StartWindow(tab, c, now, MaxTracked)
                = Append(kept, [key |-> c, startedAt |-> now, count |-> 1])
           /\ PartOf(kept, tab) /\ Len(kept) < MaxTracked
           /\ \A i \in 1..Len(kept) : kept[i].key # c
<1> DEFINE others == Without(tab, c)
           kept == EvictUntilRoom(others, MaxTracked)
<1>1. PartOf(others, tab) /\ \A i \in 1..Len(others) : others[i].key # c
  BY WithoutIs
<1>2. StartWindow(tab, c, now, MaxTracked) = Append(kept, [key |-> c, startedAt |-> now, count |-> 1])
  BY DEF StartWindow, PutLast
<1> HIDE DEF others
<1>3. /\ others \in Seq(Recorded) /\ Len(others) \in Nat /\ Len(tab) \in Nat
      /\ Len(others) <= MaxTracked
  BY <1>1, LenProperties, RecordedAre DEF PartOf
<1>4. PartOf(kept, others) /\ Len(kept) < MaxTracked
  BY <1>3, EvictIs
<1> HIDE DEF kept
<1>5. kept \in Seq(Recorded) /\ Len(kept) \in Nat
  BY <1>4, LenProperties DEF PartOf
<1>6. PartOf(kept, tab)
  BY <1>1, <1>3, <1>4, <1>5, PartOfPart
<1>7. \A i \in 1..Len(kept) : kept[i].key # c
  BY <1>1, <1>4 DEF PartOf
<1> QED  BY <1>2, <1>4, <1>5, <1>6, <1>7

\* What part of a table keeps.
LEMMA PartKeeps ==
  ASSUME NEW tab \in Seq(Recorded), NEW some, PartOf(some, tab), OneEach(tab), OldestFirst(tab)
  PROVE  OneEach(some) /\ OldestFirst(some)
<1>1. ASSUME NEW i \in 1..Len(some), NEW j \in 1..Len(some), i < j
      PROVE  some[i].key # some[j].key /\ some[i].startedAt <= some[j].startedAt
  <2> PICK k \in 1..Len(tab), l \in 1..Len(tab) : k < l /\ some[i] = tab[k] /\ some[j] = tab[l]
    BY <1>1 DEF PartOf
  <2>1. tab[k].key # tab[l].key /\ tab[k].startedAt <= tab[l].startedAt
    BY DEF OneEach, OldestFirst
  <2> QED  BY <2>1
<1> QED  BY <1>1 DEF OneEach, OldestFirst

-----------------------------------------------------------------------------
(***************************************************************************)
(* When pages were let through.                                            *)
(***************************************************************************)
LEMMA OneMoreTime ==
  ASSUME NEW times \in Seq(Time), NEW now \in Time
  PROVE  /\ Append(times, now) \in Seq(Time)
         /\ Len(times) \in Nat /\ Len(Append(times, now)) = Len(times) + 1
         /\ \A i \in 1..Len(times) : times[i] \in Nat /\ Append(times, now)[i] = times[i]
         /\ Append(times, now)[Len(times) + 1] = now
<1>1. \A i \in 1..Len(times) : times[i] \in Time
  BY ElementOfSeq
<1> QED  BY <1>1, AppendProperties, LenProperties, RecordedAre

\* One more page in a window that has room for it.
LEMMA WindowCounts ==
  ASSUME NEW times \in Seq(Time), NEW w \in Recorded, NEW now \in Time,
         Follows(w, times), Spread(times),
         w.startedAt <= now, now < w.startedAt + LocalWindow, w.count < Limit
  PROVE  /\ Follows([w EXCEPT !.count = @ + 1], Append(times, now))
         /\ Spread(Append(times, now))
<1> DEFINE n == Len(times)
           k == w.count
           s == w.startedAt
           after == Append(times, now)
           v == [w EXCEPT !.count = @ + 1]
<1>1. /\ n \in Nat /\ Len(after) = n + 1 /\ after[n + 1] = now
      /\ \A i \in 1..n : times[i] \in Nat /\ after[i] = times[i]
  BY OneMoreTime
<1>2. /\ k \in Nat /\ k >= 1 /\ k < Limit /\ s \in Nat /\ now \in Nat
      /\ Limit \in Nat /\ Limit > 0 /\ LocalWindow \in Nat /\ LocalWindow > 0
  BY RecordedAre
<1>3. v.count = k + 1 /\ v.startedAt = s
  BY DEF Recorded, WindowsFrom
<1>4. /\ k <= n
      /\ \A i \in 1..n :
           /\ i + k = n + 1 => times[i] = s
           /\ i + k > n => times[i] < s + LocalWindow
           /\ i + k <= n => times[i] < s
           /\ i + k + Limit <= n + 1 => times[i] + LocalWindow <= s
  BY DEF Follows
<1>5. \A i, j \in 1..n : j + 1 = i + 2 * Limit => times[i] + LocalWindow <= times[j]
  BY DEF Spread
<1>6. s <= now /\ now < s + LocalWindow
  OBVIOUS
<1> HIDE DEF n, k, s, after, v
<1>7. \A i \in 1..(n + 1) : i \in 1..n \/ i = n + 1
  BY <1>1
<1>8. ASSUME NEW i \in 1..(n + 1)
      PROVE  /\ i + (k + 1) = n + 1 + 1 => after[i] = s
             /\ i + (k + 1) > n + 1 => after[i] < s + LocalWindow
             /\ i + (k + 1) <= n + 1 => after[i] < s
             /\ i + (k + 1) + Limit <= n + 1 + 1 => after[i] + LocalWindow <= s
  <2>1. CASE i \in 1..n
    <3>1. after[i] = times[i] /\ times[i] \in Nat
      BY <1>1, <2>1
    <3>2. /\ i + k = n + 1 => times[i] = s
          /\ i + k > n => times[i] < s + LocalWindow
          /\ i + k <= n => times[i] < s
          /\ i + k + Limit <= n + 1 => times[i] + LocalWindow <= s
      BY <1>4, <2>1
    <3> QED  BY <1>1, <1>2, <3>1, <3>2
  <2>2. CASE i = n + 1
    BY <1>1, <1>2, <1>6, <2>2
  <2> QED  BY <1>7, <2>1, <2>2
<1>9. k + 1 <= n + 1
  BY <1>1, <1>2, <1>4
<1>10. Follows(v, after)
  BY <1>1, <1>3, <1>8, <1>9 DEF Follows
<1>11. ASSUME NEW i \in 1..(n + 1), NEW j \in 1..(n + 1), j + 1 = i + 2 * Limit
       PROVE  after[i] + LocalWindow <= after[j]
  <2>1. i \in 1..n
    BY <1>1, <1>2, <1>11
  <2>2. CASE j \in 1..n
    BY <1>1, <1>5, <1>11, <2>1, <2>2
  <2>3. CASE j = n + 1
    <3>1. i + k + Limit <= n + 1
      BY <1>1, <1>2, <1>11, <2>3
    <3>2. times[i] + LocalWindow <= s
      BY <1>4, <2>1, <3>1
    <3> QED  BY <1>1, <1>2, <1>6, <2>1, <2>3, <3>2
  <2> QED  BY <1>7, <2>2, <2>3
<1>12. Spread(after)
  BY <1>1, <1>11 DEF Spread
<1> QED  BY <1>10, <1>12 DEF v, after

\* The first page of a window, when the one before has run out.
LEMMA WindowBegins ==
  ASSUME NEW times \in Seq(Time), NEW w \in Recorded, NEW now \in Time, NEW v \in Recorded,
         Follows(w, times), Spread(times),
         w.startedAt + LocalWindow <= now, v.startedAt = now, v.count = 1
  PROVE  Follows(v, Append(times, now)) /\ Spread(Append(times, now))
<1> DEFINE n == Len(times)
           k == w.count
           s == w.startedAt
           after == Append(times, now)
<1>1. /\ n \in Nat /\ Len(after) = n + 1 /\ after[n + 1] = now
      /\ \A i \in 1..n : times[i] \in Nat /\ after[i] = times[i]
  BY OneMoreTime
<1>2. /\ k \in Nat /\ k >= 1 /\ k <= Limit /\ s \in Nat /\ now \in Nat
      /\ Limit \in Nat /\ Limit > 0 /\ LocalWindow \in Nat /\ LocalWindow > 0
  BY RecordedAre
<1>3. /\ k <= n
      /\ \A i \in 1..n :
           /\ i + k = n + 1 => times[i] = s
           /\ i + k > n => times[i] < s + LocalWindow
           /\ i + k <= n => times[i] < s
  BY DEF Follows
<1>4. \A i, j \in 1..n : j + 1 = i + 2 * Limit => times[i] + LocalWindow <= times[j]
  BY DEF Spread
<1>5. s + LocalWindow <= now
  OBVIOUS
<1> HIDE DEF n, k, s, after
<1>6. \A i \in 1..(n + 1) : i \in 1..n \/ i = n + 1
  BY <1>1
\* All that came before came before the new window.
<1>7. ASSUME NEW i \in 1..n PROVE times[i] \in Nat /\ times[i] < now
  <2>1. times[i] \in Nat
    BY <1>1
  <2>2. CASE i + k > n
    BY <1>2, <1>3, <1>5, <2>1, <2>2
  <2>3. CASE ~(i + k > n)
    <3>1. i + k <= n
      BY <1>1, <1>2, <2>3
    <3>2. times[i] < s
      BY <1>3, <3>1
    <3> QED  BY <1>2, <1>5, <2>1, <3>2
  <2> QED  BY <2>2, <2>3
\* But the last of them, at most Limit - 1, by a window's length.
<1>8. ASSUME NEW i \in 1..n, i + Limit <= n + 1 PROVE times[i] + LocalWindow <= now
  <2>1. times[i] \in Nat
    BY <1>1
  <2>2. times[i] <= s
    <3>1. i + k = n + 1 \/ i + k <= n
      BY <1>1, <1>2, <1>8
    <3> QED  BY <1>2, <1>3, <2>1, <3>1
  <2> QED  BY <1>2, <1>5, <2>1, <2>2
<1>9. ASSUME NEW i \in 1..(n + 1)
      PROVE  /\ i + 1 = n + 1 + 1 => after[i] = now
             /\ i + 1 > n + 1 => after[i] < now + LocalWindow
             /\ i + 1 <= n + 1 => after[i] < now
             /\ i + 1 + Limit <= n + 1 + 1 => after[i] + LocalWindow <= now
  <2>1. CASE i \in 1..n
    <3>1. after[i] = times[i] /\ times[i] \in Nat /\ times[i] < now
      BY <1>1, <1>7, <2>1
    <3>2. i + Limit <= n + 1 => times[i] + LocalWindow <= now
      BY <1>8, <2>1
    <3> QED  BY <1>1, <1>2, <2>1, <3>1, <3>2
  <2>2. CASE i = n + 1
    BY <1>1, <1>2, <2>2
  <2> QED  BY <1>6, <2>1, <2>2
<1>10. Follows(v, after)
  <2>1. 1 <= n + 1
    BY <1>1
  <2> QED  BY <1>1, <1>9, <2>1 DEF Follows
<1>11. ASSUME NEW i \in 1..(n + 1), NEW j \in 1..(n + 1), j + 1 = i + 2 * Limit
       PROVE  after[i] + LocalWindow <= after[j]
  <2>1. i \in 1..n
    BY <1>1, <1>2, <1>11
  <2>2. CASE j \in 1..n
    BY <1>1, <1>4, <1>11, <2>1, <2>2
  <2>3. CASE j = n + 1
    <3>1. i + Limit <= n + 1
      BY <1>1, <1>2, <1>11, <2>3
    <3> QED  BY <1>1, <1>8, <2>1, <2>3, <3>1
  <2> QED  BY <1>6, <2>2, <2>3
<1>12. Spread(after)
  BY <1>1, <1>11 DEF Spread
<1> QED  BY <1>10, <1>12 DEF after

\* The first page of a client that is not known.
LEMMA FirstWindow ==
  ASSUME NEW now \in Time, NEW v \in Recorded, v.startedAt = now, v.count = 1
  PROVE  Follows(v, Append(<<>>, now)) /\ Spread(Append(<<>>, now))
<1> DEFINE after == Append(<<>>, now)
<1>1. Len(after) = 1 /\ after[1] = now
  BY EmptySeq, AppendProperties
<1>2. now \in Nat /\ Limit \in Nat /\ Limit > 0 /\ LocalWindow \in Nat /\ LocalWindow > 0
  BY RecordedAre
<1> HIDE DEF after
<1>3. Follows(v, after)
  BY <1>1, <1>2 DEF Follows
<1>4. Spread(after)
  BY <1>1, <1>2 DEF Spread
<1> QED  BY <1>3, <1>4 DEF after

-----------------------------------------------------------------------------
(***************************************************************************)
(* What a process counts follows from what it let through.                 *)
(***************************************************************************)
LEMMA NothingSpread == Spread(<<>>)
BY EmptySeq, RecordedAre DEF Spread

\* What a process remembers is untouched by a page, but for the client's own.
\* A table after a page of client c: its windows, which of them are new, and
\* what is kept of the others' pages.
TableOK(after, now) ==
  /\ after \in Seq(Recorded) /\ Len(after) <= MaxTracked
  /\ OneEach(after) /\ OldestFirst(after)
  /\ \A i \in 1..Len(after) : after[i].startedAt <= now

OnlyOwn(tab, after, c) ==
  \A i \in 1..Len(after) : after[i].key # c => \E k \in 1..Len(tab) : after[i] = tab[k]

OwnFollows(after, c, times) ==
  /\ Spread(times)
  /\ \E i \in 1..Len(after) : after[i].key = c
  /\ \A i \in 1..Len(after) : after[i].key = c => Follows(after[i], times)

OthersAsKept(after, c, times, later) ==
  /\ later \in [Clients -> Seq(Time)]
  /\ \A d \in Clients : d # c => later[d] = Remembered(after, d, times[d])

LEMMA OthersKept ==
  ASSUME NEW tab, NEW times, NEW now, Remembers(tab, times, now), NEW c \in Clients,
         NEW after, NEW later, TableOK(after, now), OnlyOwn(tab, after, c),
         OthersAsKept(after, c, times, later), OwnFollows(after, c, later[c])
  PROVE  Remembers(after, later, now)
<1>1. DOMAIN after = 1..Len(after)
  BY LenProperties DEF TableOK
<1>2. \A i \in 1..Len(after) : after[i] \in Recorded /\ after[i].key \in Clients
  BY ElementOfSeq, RecordedAre DEF TableOK
<1>3. ASSUME NEW i \in 1..Len(after) PROVE Follows(after[i], later[after[i].key])
  <2>1. CASE after[i].key = c
    BY <2>1 DEF OwnFollows
  <2>2. CASE after[i].key # c
    <3> PICK k \in 1..Len(tab) : after[i] = tab[k]
      BY <2>2 DEF OnlyOwn
    <3>1. later[after[i].key] = times[after[i].key]
      BY <1>1, <1>2, <2>2 DEF Remembered, OthersAsKept
    <3>2. Follows(tab[k], times[tab[k].key])
      BY DEF Remembers
    <3> QED  BY <3>1, <3>2
  <2> QED  BY <2>1, <2>2
<1>4. ASSUME NEW d \in Clients, \A i \in 1..Len(after) : after[i].key # d
      PROVE  later[d] = <<>>
  BY <1>1, <1>4 DEF Remembered, OthersAsKept, OwnFollows
<1>5. ASSUME NEW d \in Clients PROVE Spread(later[d])
  <2>1. CASE d = c
    BY <2>1 DEF OwnFollows
  <2>2. CASE d # c
    <3>1. later[d] = times[d] \/ later[d] = <<>>
      BY <2>2 DEF Remembered, OthersAsKept
    <3> QED  BY <3>1, NothingSpread DEF Remembers
  <2> QED  BY <2>1, <2>2
<1> QED  BY <1>3, <1>4, <1>5 DEF Remembers, TableOK, OthersAsKept

\* What is let through and what is not.
Later(tab, after, times, c, now) ==
  [d \in Clients |->
     IF d = c /\ Allows(tab, c, now, Limit, LocalWindow) THEN Append(times[d], now)
     ELSE Remembered(after, d, times[d])]

LEMMA LaterType ==
  ASSUME NEW tab, NEW after, NEW times \in [Clients -> Seq(Time)], NEW c \in Clients, NEW now \in Time
  PROVE  Later(tab, after, times, c, now) \in [Clients -> Seq(Time)]
<1>1. \A d \in Clients : Remembered(after, d, times[d]) \in Seq(Time)
  BY EmptySeq DEF Remembered
<1>2. \A d \in Clients : Append(times[d], now) \in Seq(Time)
  BY OneMoreTime
<1> QED  BY <1>1, <1>2 DEF Later

LEMMA LaterOfOthers ==
  ASSUME NEW tab, NEW after, NEW times, NEW c, NEW now
  PROVE  \A d \in Clients : d # c =>
           Later(tab, after, times, c, now)[d] = Remembered(after, d, times[d])
BY DEF Later

LEMMA LaterOfOwn ==
  ASSUME NEW tab, NEW after, NEW times, NEW c \in Clients, NEW now
  PROVE  Later(tab, after, times, c, now)[c] =
           IF Allows(tab, c, now, Limit, LocalWindow) THEN Append(times[c], now)
           ELSE Remembered(after, c, times[c])
BY DEF Later

LEMMA PageBegins ==
  ASSUME NEW tab, NEW times, NEW now \in Time, Remembers(tab, times, now), NEW c \in Clients,
         OpenAt(tab, c, now, LocalWindow) = {},
         NEW after, after = StartWindow(tab, c, now, MaxTracked)
  PROVE  Remembers(after, Later(tab, after, times, c, now), now)
<1> DEFINE later == Later(tab, after, times, c, now)
           v == [key |-> c, startedAt |-> now, count |-> 1]
<1>1. /\ tab \in Seq(Recorded) /\ Len(tab) <= MaxTracked /\ OneEach(tab) /\ OldestFirst(tab)
      /\ times \in [Clients -> Seq(Time)]
  BY DEF Remembers
<1>2. PICK kept \in Seq(Recorded) :
        /\ after = Append(kept, v)
        /\ PartOf(kept, tab) /\ Len(kept) < MaxTracked
        /\ \A i \in 1..Len(kept) : kept[i].key # c
  BY <1>1, StartWindowIs
<1>3. v \in Recorded /\ v.key = c /\ v.startedAt = now /\ v.count = 1
  BY RecordedAre
<1> HIDE DEF v
<1>4. /\ after \in Seq(Recorded) /\ Len(kept) \in Nat /\ Len(after) = Len(kept) + 1
      /\ \A i \in 1..Len(kept) : after[i] = kept[i]
      /\ after[Len(kept) + 1] = v
  BY <1>2, <1>3, AppendProperties, LenProperties
<1>5. \A i \in 1..Len(after) : i \in 1..Len(kept) \/ i = Len(kept) + 1
  BY <1>4
<1>6. Len(after) <= MaxTracked
  BY <1>2, <1>4, RecordedAre
<1>7. \A i \in 1..Len(kept) : kept[i] \in Recorded /\ \E k \in 1..Len(tab) : kept[i] = tab[k]
  BY <1>2, ElementOfSeq DEF PartOf
<1>8. \A i \in 1..Len(kept) : kept[i].startedAt <= now
  BY <1>7 DEF Remembers
<1>9. OneEach(kept) /\ OldestFirst(kept)
  BY <1>1, <1>2, PartKeeps
<1>10. OneEach(after) /\ OldestFirst(after)
  <2> SUFFICES ASSUME NEW i \in 1..Len(after), NEW j \in 1..Len(after), i < j
               PROVE  after[i].key # after[j].key /\ after[i].startedAt <= after[j].startedAt
    BY DEF OneEach, OldestFirst
  <2>1. i \in 1..Len(kept)
    BY <1>4
  <2>2. CASE j \in 1..Len(kept)
    BY <1>4, <1>9, <2>1, <2>2 DEF OneEach, OldestFirst
  <2>3. CASE j = Len(kept) + 1
    BY <1>2, <1>3, <1>4, <1>8, <2>1, <2>3
  <2> QED  BY <1>5, <2>2, <2>3
<1>11. Allows(tab, c, now, Limit, LocalWindow)
  BY DEF Allows
<1>12. /\ later \in [Clients -> Seq(Time)] /\ later[c] = Append(times[c], now)
       /\ \A d \in Clients : d # c => later[d] = Remembered(after, d, times[d])
  <2>1. later \in [Clients -> Seq(Time)]
    BY <1>1, LaterType
  <2>2. \A d \in Clients : d # c => later[d] = Remembered(after, d, times[d])
    BY LaterOfOthers
  <2>3. later[c] = Append(times[c], now)
    BY <1>11, LaterOfOwn
  <2> HIDE DEF later
  <2> QED  BY <2>1, <2>2, <2>3
<1> HIDE DEF later
<1>13. \A i \in 1..Len(after) : after[i].startedAt <= now
  BY <1>3, <1>4, <1>5, <1>8, RecordedAre
<1>14. \A i \in 1..Len(after) : after[i].key # c => \E k \in 1..Len(tab) : after[i] = tab[k]
  BY <1>3, <1>4, <1>5, <1>7
<1>15. Follows(v, Append(times[c], now)) /\ Spread(Append(times[c], now))
  <2>1. CASE \E j \in 1..Len(tab) : tab[j].key = c
    <3> PICK j \in 1..Len(tab) : tab[j].key = c
      BY <2>1
    <3>1. tab[j] \in Recorded /\ j \in DOMAIN tab
      BY <1>1, ElementOfSeq, LenProperties
    <3>2. ~(now < tab[j].startedAt + LocalWindow)
      BY <3>1 DEF OpenAt
    <3>3. tab[j].startedAt + LocalWindow <= now
      BY <3>1, <3>2, RecordedAre
    <3>4. Follows(tab[j], times[c]) /\ Spread(times[c]) /\ times[c] \in Seq(Time)
      BY <1>1 DEF Remembers
    <3> QED  BY <1>3, <3>1, <3>3, <3>4, WindowBegins
  <2>2. CASE ~\E j \in 1..Len(tab) : tab[j].key = c
    <3>1. times[c] = <<>>
      BY <2>2 DEF Remembers
    <3> QED  BY <1>3, <3>1, FirstWindow
  <2> QED  BY <2>1, <2>2
<1>16. \A i \in 1..Len(after) : after[i].key = c => Follows(after[i], later[c])
  BY <1>2, <1>4, <1>5, <1>12, <1>15
<1>17. \E i \in 1..Len(after) : after[i].key = c
  <2>1. Len(kept) + 1 \in 1..Len(after)
    BY <1>4
  <2> QED  BY <1>3, <1>4, <2>1
<1>18. Spread(later[c])
  BY <1>12, <1>15
<1>19. Remembers(after, later, now)
  <2>1. TableOK(after, now)
    BY <1>4, <1>6, <1>10, <1>13 DEF TableOK
  <2>2. OnlyOwn(tab, after, c)
    BY <1>14 DEF OnlyOwn
  <2>3. OthersAsKept(after, c, times, later)
    BY <1>12 DEF OthersAsKept
  <2>4. OwnFollows(after, c, later[c])
    BY <1>16, <1>17, <1>18 DEF OwnFollows
  <2> QED  BY <2>1, <2>2, <2>3, <2>4, OthersKept
<1> QED  BY <1>19 DEF later

LEMMA PageCounts ==
  ASSUME NEW tab, NEW times, NEW now \in Time, Remembers(tab, times, now), NEW c \in Clients,
         OpenAt(tab, c, now, LocalWindow) # {},
         NEW after, after = Check(tab, c, now, Limit, LocalWindow, MaxTracked)
  PROVE  Remembers(after, Later(tab, after, times, c, now), now)
<1> DEFINE later == Later(tab, after, times, c, now)
           n == Len(tab)
<1>1. /\ tab \in Seq(Recorded) /\ n <= MaxTracked /\ OneEach(tab) /\ OldestFirst(tab)
      /\ times \in [Clients -> Seq(Time)]
  BY DEF Remembers
<1>2. n \in Nat /\ DOMAIN tab = 1..n /\ \A j \in 1..n : tab[j] \in Recorded
  BY <1>1, LenProperties, ElementOfSeq
<1>3. PICK q \in 1..n : tab[q].key = c /\ now < tab[q].startedAt + LocalWindow
  BY <1>2 DEF OpenAt
<1>4. \A j \in 1..n : j # q => tab[j].key # c
  <2> SUFFICES ASSUME NEW j \in 1..n, j # q PROVE tab[j].key # tab[q].key
    BY <1>3
  <2>1. j < q \/ q < j
    BY <1>2
  <2> QED  BY <1>1, <2>1 DEF OneEach
<1>5. OpenAt(tab, c, now, LocalWindow) = {q}
  BY <1>2, <1>3, <1>4 DEF OpenAt
<1>6. after = [j \in 1..n |-> IF j = q /\ tab[j].count < Limit
                              THEN [tab[j] EXCEPT !.count = @ + 1] ELSE tab[j]]
  BY <1>2, <1>5 DEF Check
<1>7. Allows(tab, c, now, Limit, LocalWindow) <=> tab[q].count < Limit
  BY <1>5 DEF Allows
<1> DEFINE w == tab[q]
           v == [w EXCEPT !.count = @ + 1]
<1>8. /\ w \in Recorded /\ w.key = c /\ w.count \in 1..Limit /\ w.startedAt \in Nat
      /\ now < w.startedAt + LocalWindow
  BY <1>2, <1>3, RecordedAre
<1>9. w.count < Limit => v \in Recorded /\ v.key = c /\ v.startedAt = w.startedAt
  BY <1>8, RecordedAre DEF Recorded, WindowsFrom
<1>10. \A j \in 1..n : after[j] = IF j = q /\ w.count < Limit THEN v ELSE tab[j]
  BY <1>6
<1> HIDE DEF v, w
<1>11. \A j \in 1..n : /\ after[j] \in Recorded /\ after[j].key = tab[j].key
                       /\ after[j].startedAt = tab[j].startedAt
  BY <1>2, <1>8, <1>9, <1>10 DEF w
<1>12. after \in [1..n -> Recorded]
  BY <1>6, <1>11
<1>13. after \in Seq(Recorded)
  BY <1>2, <1>12, SeqDef
<1>14. Len(after) = n
  <2> DEFINE m == Len(after)
  <2>1. DOMAIN after = 1..m /\ m \in Nat
    BY <1>13, LenProperties
  <2>2. 1..m = 1..n
    BY <1>12, <2>1
  <2> HIDE DEF m, n
  <2>3. ~(m < n)
    <3>1. m < n => n \in 1..n /\ n \notin 1..m
      BY <1>2, <2>1
    <3> QED  BY <2>2, <3>1
  <2>4. ~(n < m)
    <3>1. n < m => m \in 1..m /\ m \notin 1..n
      BY <1>2, <2>1
    <3> QED  BY <2>2, <3>1
  <2>5. m = n
    BY <1>2, <2>1, <2>3, <2>4
  <2> QED  BY <2>5 DEF m
<1>15. OneEach(after) /\ OldestFirst(after)
  BY <1>1, <1>11, <1>14 DEF OneEach, OldestFirst
<1>16. \A i \in 1..n : after[i].startedAt <= now
  BY <1>11 DEF Remembers
<1>17. \A i \in 1..n : after[i].key # c => \E k \in 1..n : after[i] = tab[k]
  BY <1>8, <1>10, <1>11 DEF w
<1>18. q \in 1..n /\ after[q].key = c
  BY <1>3, <1>11
<1>19. /\ later \in [Clients -> Seq(Time)]
       /\ \A d \in Clients : d # c => later[d] = Remembered(after, d, times[d])
       /\ later[c] = IF Allows(tab, c, now, Limit, LocalWindow) THEN Append(times[c], now)
                      ELSE Remembered(after, c, times[c])
  <2>1. later \in [Clients -> Seq(Time)]
    BY <1>1, LaterType
  <2>2. \A d \in Clients : d # c => later[d] = Remembered(after, d, times[d])
    BY LaterOfOthers
  <2>3. later[c] = IF Allows(tab, c, now, Limit, LocalWindow) THEN Append(times[c], now)
                   ELSE Remembered(after, c, times[c])
    BY LaterOfOwn
  <2> HIDE DEF later
  <2> QED  BY <2>1, <2>2, <2>3
<1> HIDE DEF later
<1>20. Follows(after[q], later[c]) /\ Spread(later[c])
  <2>1. Follows(w, times[c]) /\ Spread(times[c]) /\ times[c] \in Seq(Time) /\ w.startedAt <= now
    BY <1>1, <1>3 DEF Remembers, w
  <2>2. CASE w.count < Limit
    <3>1. later[c] = Append(times[c], now)
      BY <1>7, <1>19, <2>2 DEF w
    <3>2. Follows(v, Append(times[c], now)) /\ Spread(Append(times[c], now))
      BY <1>8, <2>1, <2>2, WindowCounts DEF v
    <3> QED  BY <1>10, <1>3, <2>2, <3>1, <3>2
  <2>3. CASE ~(w.count < Limit)
    <3>1. later[c] = Remembered(after, c, times[c])
      BY <1>7, <1>19, <2>3 DEF w
    <3>2. later[c] = times[c]
      BY <1>12, <1>18, <3>1 DEF Remembered
    <3>3. after[q] = w
      BY <1>10, <1>3, <2>3 DEF w
    <3> QED  BY <2>1, <3>2, <3>3
  <2> QED  BY <2>2, <2>3
<1>21. \A i \in 1..n : after[i].key = c => i = q
  BY <1>4, <1>11
<1> HIDE DEF n
<1>22. /\ \A i \in 1..Len(after) : after[i].startedAt <= now
       /\ \A i \in 1..Len(after) : after[i].key # c => \E k \in 1..n : after[i] = tab[k]
       /\ \A i \in 1..Len(after) : after[i].key = c => Follows(after[i], later[c])
       /\ \E i \in 1..Len(after) : after[i].key = c
       /\ Len(after) <= MaxTracked
  BY <1>1, <1>14, <1>16, <1>17, <1>18, <1>20, <1>21
<1>23. Remembers(after, later, now)
  <2>1. TableOK(after, now)
    BY <1>13, <1>15, <1>22 DEF TableOK
  <2>2. OnlyOwn(tab, after, c)
    BY <1>22 DEF OnlyOwn, n
  <2>3. OthersAsKept(after, c, times, later)
    BY <1>19 DEF OthersAsKept
  <2>4. OwnFollows(after, c, later[c])
    BY <1>20, <1>22 DEF OwnFollows
  <2> QED  BY <2>1, <2>2, <2>3, <2>4, OthersKept
<1> QED  BY <1>23 DEF later

LEMMA PageKeeps ==
  ASSUME NEW tab, NEW times, NEW now \in Time, Remembers(tab, times, now), NEW c \in Clients,
         NEW after, after = Check(tab, c, now, Limit, LocalWindow, MaxTracked)
  PROVE  Remembers(after, Later(tab, after, times, c, now), now)
<1>1. CASE OpenAt(tab, c, now, LocalWindow) = {}
  <2>1. after = StartWindow(tab, c, now, MaxTracked)
    BY <1>1 DEF Check
  <2> QED  BY <1>1, <2>1, PageBegins
<1>2. CASE OpenAt(tab, c, now, LocalWindow) # {}
  BY <1>2, PageCounts
<1> QED  BY <1>1, <1>2

\* A process that starts anew remembers nobody.
LEMMA NobodyRemembered ==
  ASSUME NEW now
  PROVE  Remembers(<<>>, [c \in Clients |-> <<>>], now)
<1>1. <<>> \in Seq(Recorded) /\ <<>> \in Seq(Time) /\ Len(<<>>) = 0
  BY EmptySeq
<1>2. 0 <= MaxTracked /\ 1..0 = {}
  BY RecordedAre
<1> QED  BY <1>1, <1>2, NothingSpread DEF Remembers, OneEach, OldestFirst

LEMMA LaterStill ==
  ASSUME NEW tab, NEW times, NEW now \in Nat, NEW then \in Nat, now <= then,
         Remembers(tab, times, now)
  PROVE  Remembers(tab, times, then)
<1>1. \A i \in 1..Len(tab) : tab[i] \in Recorded
  BY ElementOfSeq DEF Remembers
<1>2. \A i \in 1..Len(tab) : tab[i].startedAt <= then
  BY <1>1, RecordedAre DEF Remembers
<1> QED  BY <1>2 DEF Remembers

LEMMA RememberInit == Init => AllRemember
<1> SUFFICES ASSUME Init PROVE AllRemember
  OBVIOUS
<1>1. clock \in Time
  BY LimitsAssumption DEF Init, Time
<1>2. <<>> \in Seq(Recorded) /\ <<>> \in Seq(Time)
  BY EmptySeq
<1>3. \A p \in Processes : table[p] = <<>> /\ letIn[p] = [c \in Clients |-> <<>>]
  BY DEF Init
<1>4. \A p \in Processes : Remembers(table[p], letIn[p], clock)
  BY <1>3, NobodyRemembered
<1> QED  BY <1>1, <1>2, <1>4 DEF AllRemember, Init

LEMMA RememberStep == AllRemember /\ [Next]_vars => AllRemember'
<1> SUFFICES ASSUME AllRemember, [Next]_vars PROVE AllRemember'
  OBVIOUS
<1>1. CASE \E p \in Processes, c \in Clients : AskPage(p, c)
  <2> PICK p \in Processes, c \in Clients : AskPage(p, c)
    BY <1>1
  <2> DEFINE after == Check(table[p], c, clock, Limit, LocalWindow, MaxTracked)
             later == Later(table[p], after, letIn[p], c, clock)
  <2>1. /\ table' = [table EXCEPT ![p] = after]
        /\ letIn' = [letIn EXCEPT ![p] = later]
        /\ clock' = clock
    BY DEF AskPage, Later
  <2>2. Remembers(after, later, clock)
    BY PageKeeps DEF AllRemember
  <2> HIDE DEF after, later
  <2>3. after \in Seq(Recorded) /\ later \in [Clients -> Seq(Time)]
    BY <2>2 DEF Remembers
  <2>4. /\ table' \in [Processes -> Seq(Recorded)]
        /\ letIn' \in [Processes -> [Clients -> Seq(Time)]]
    BY <2>1, <2>3 DEF AllRemember
  <2>5. ASSUME NEW o \in Processes PROVE Remembers(table'[o], letIn'[o], clock)
    <3>1. CASE o = p
      <4>1. table'[o] = after /\ letIn'[o] = later
        BY <2>1, <3>1 DEF AllRemember
      <4> QED  BY <2>2, <4>1
    <3>2. CASE o # p
      <4>1. table'[o] = table[o] /\ letIn'[o] = letIn[o]
        BY <2>1, <3>2 DEF AllRemember
      <4> QED  BY <4>1 DEF AllRemember
    <3> QED  BY <3>1, <3>2
  <2> QED  BY <2>1, <2>4, <2>5 DEF AllRemember
<1>2. CASE \E p \in Processes : Restart(p)
  <2> PICK p \in Processes : Restart(p)
    BY <1>2
  <2>1. /\ table' = [table EXCEPT ![p] = <<>>]
        /\ letIn' = [letIn EXCEPT ![p] = [c \in Clients |-> <<>>]]
        /\ clock' = clock
    BY DEF Restart
  <2>2. <<>> \in Seq(Recorded) /\ [c \in Clients |-> <<>>] \in [Clients -> Seq(Time)]
    BY EmptySeq
  <2>3. /\ table' \in [Processes -> Seq(Recorded)]
        /\ letIn' \in [Processes -> [Clients -> Seq(Time)]]
    BY <2>1, <2>2 DEF AllRemember
  <2>4. ASSUME NEW o \in Processes PROVE Remembers(table'[o], letIn'[o], clock)
    <3>1. CASE o = p
      <4>1. table'[o] = <<>> /\ letIn'[o] = [c \in Clients |-> <<>>]
        BY <2>1, <3>1 DEF AllRemember
      <4> QED  BY <4>1, NobodyRemembered
    <3>2. CASE o # p
      <4>1. table'[o] = table[o] /\ letIn'[o] = letIn[o]
        BY <2>1, <3>2 DEF AllRemember
      <4> QED  BY <4>1 DEF AllRemember
    <3> QED  BY <3>1, <3>2
  <2> QED  BY <2>1, <2>3, <2>4 DEF AllRemember
<1>3. CASE Tick
  <2>1. clock \in Nat /\ clock' \in Nat /\ clock <= clock' /\ clock' \in Time
    BY <1>3, LimitsAssumption DEF AllRemember, Tick, Time
  <2>2. UNCHANGED <<table, letIn>>
    BY <1>3 DEF Tick
  <2>3. \A p \in Processes : Remembers(table[p], letIn[p], clock')
    BY <2>1, LaterStill DEF AllRemember
  <2> QED  BY <2>1, <2>2, <2>3 DEF AllRemember
<1>4. CASE UNCHANGED <<clock, table, letIn>>
  BY <1>4 DEF AllRemember
<1>5. CASE \E c \in Clients : AskAction(c)
  BY <1>4, <1>5 DEF AskAction
<1>6. CASE \E r \in Requests : CountClient(r) \/ CountEverybody(r)
  BY <1>4, <1>6 DEF CountClient, CountEverybody
<1>7. CASE UNCHANGED vars
  BY <1>4, <1>7 DEF vars
<1> QED  BY <1>1, <1>2, <1>3, <1>5, <1>6, <1>7 DEF Next

-----------------------------------------------------------------------------
(***************************************************************************)
(* The theorems.                                                           *)
(***************************************************************************)
\* The invariant holds of every behaviour.
LEMMA Invariant == Spec => []IInv
BY InitOK, StepOK, PTL DEF Spec

\* What the store keeps, and what is asked of it, keeps its type.
THEOREM StoreTypeCorrect == Spec => []StoreTypeOK
<1>1. IInv => StoreTypeOK
  BY DEF IInv
<1> QED  BY <1>1, Invariant, PTL

\* No window lets through more than its share: a counter that lives two windows
\* outlives every command about it (actionBudget.ts:75-76).
THEOREM BudgetKept == Spec => []BudgetHolds
<1>1. IInv => BudgetHolds
  BY DEF IInv
<1> QED  BY <1>1, Invariant, PTL

\* A client over its own share spends nothing of everybody's: each count of
\* everybody's was paid for by a grant of a client's own (actionBudget.ts:26-28).
THEOREM EverybodysPaidFor == Spec => []NothingOfEverybodys
<1>1. Init => IInv /\ PaidFor
  BY InitOK, PaidInit
<1>2. IInv /\ PaidFor /\ [Next]_vars => (IInv /\ PaidFor)'
  BY StepOK, PaidStep
<1>3. IInv /\ PaidFor => NothingOfEverybodys
  BY PaidForIsEnough
<1> QED  BY <1>1, <1>2, <1>3, PTL DEF Spec

LEMMA Remembering == Spec => []AllRemember
BY RememberInit, RememberStep, PTL DEF Spec

\* Every variable keeps its type: no table outgrows its bound, and no window
\* counts beyond the limit (fixedWindowLimiter.ts:36-45).
THEOREM TypeCorrect == Spec => []TypeOK
<1>1. AllRemember => LocalTypeOK
  <2> SUFFICES ASSUME AllRemember PROVE LocalTypeOK
    OBVIOUS
  <2>1. ASSUME NEW p \in Processes PROVE table[p] \in Tables(Time, Clients, Limit, MaxTracked)
    <3> DEFINE n == Len(table[p])
    <3>1. table[p] \in Seq(Recorded) /\ n <= MaxTracked
      BY DEF AllRemember, Remembers
    <3>2. n \in Nat /\ table[p] \in [1..n -> Recorded] /\ MaxTracked \in Nat
      BY <3>1, LenProperties, RecordedAre
    <3> HIDE DEF n
    <3>3. n \in 0..MaxTracked
      BY <3>1, <3>2
    <3> QED  BY <3>2, <3>3 DEF Tables, Recorded
  <2>2. ASSUME NEW p \in Processes, NEW c \in Clients PROVE letIn[p][c] \in Seq(Time)
    BY DEF AllRemember
  <2> QED  BY <2>1, <2>2 DEF LocalTypeOK
<1> QED  BY <1>1, Remembering, StoreTypeCorrect, PTL DEF TypeOK

\* A process that remembers a client lets it in less than twice its limit in any
\* time shorter than a window, the price its comment names for a fixed window
\* (fixedWindowLimiter.ts:9-12).
THEOREM BurstKept == Spec => []BurstBounded
<1>1. AllRemember => BurstBounded
  <2> SUFFICES ASSUME AllRemember, NEW p \in Processes, NEW c \in Clients,
                      NEW i \in 1..(Len(letIn[p][c]) + 1 - 2 * Limit)
               PROVE  letIn[p][c][i] + LocalWindow <= letIn[p][c][i + 2 * Limit - 1]
    BY DEF BurstBounded
  <2> DEFINE times == letIn[p][c]
             n == Len(times)
             j == i + 2 * Limit - 1
  <2>1. times \in Seq(Time) /\ Spread(times)
    BY DEF AllRemember, Remembers
  <2>2. n \in Nat /\ Limit \in Nat /\ Limit > 0
    BY <2>1, LenProperties, RecordedAre
  <2>3. i \in 1..(n + 1 - 2 * Limit)
    OBVIOUS
  <2> HIDE DEF n, times
  <2>4. i \in 1..n /\ j \in 1..n /\ j + 1 = i + 2 * Limit
    BY <2>2, <2>3
  <2> HIDE DEF j
  <2>5. times[i] + LocalWindow <= times[j]
    BY <2>1, <2>4 DEF Spread, n
  <2> QED  BY <2>5 DEF times, j
<1> QED  BY <1>1, Remembering, PTL

\* No client has two windows, and the first of a table is always the one that
\* began longest ago, so the one evicted is (fixedWindowLimiter.ts:51-56).
THEOREM OldestGiveWay ==
  Spec => [](\A p \in Processes : OneEach(table[p]) /\ OldestFirst(table[p]))
<1>1. AllRemember => \A p \in Processes : OneEach(table[p]) /\ OldestFirst(table[p])
  BY DEF AllRemember, Remembers
<1> QED  BY <1>1, Remembering, PTL

-----------------------------------------------------------------------------
(***************************************************************************)
(* How many at once (ConcurrencyLimit).                                    *)
(***************************************************************************)
(***************************************************************************)
(* The invariant.                                                          *)
(***************************************************************************)
\* The two counters count what they stand for, and nobody waits beside a free
\* place.
Counters ==
  /\ running = Cardinality(Placed)
  /\ admitted = Cardinality(InBudget)
  /\ running <= AtOnce
  /\ admitted <= AtOnce + MaxWaiting
  /\ waiting # <<>> => running = AtOnce

\* Whoever waits is in the queue, once.
Queue ==
  /\ \A i \in 1..Len(waiting) : at[waiting[i]] = "waiting"
  /\ \A i, j \in 1..Len(waiting) : waiting[i] = waiting[j] => i = j
  /\ \A c \in Callers : at[c] = "waiting" => \E i \in 1..Len(waiting) : waiting[i] = c

AheadOf(i) == {waiting[j] : j \in 1..(i-1)}

\* Those that came before one with a place have places too, and those that came
\* before one that waits have places or wait in front of it.
Order ==
  /\ \A c \in Placed : before[c] \subseteq Placed \ {c}
  /\ \A i \in 1..Len(waiting) : before[waiting[i]] \subseteq Placed \cup AheadOf(i)

LimitInv == LimitTypeOK /\ Counters /\ Queue /\ Order

-----------------------------------------------------------------------------
LEMMA PopulationsFinite ==
  /\ IsFiniteSet(InLine)  /\ Cardinality(InLine) \in Nat
  /\ IsFiniteSet(Placed)  /\ Cardinality(Placed) \in Nat
  /\ IsFiniteSet(InBudget) /\ Cardinality(InBudget) \in Nat
  /\ IsFiniteSet(Placed') /\ IsFiniteSet(InBudget')
<1>1. /\ InLine \in SUBSET Callers /\ Placed \in SUBSET Callers /\ InBudget \in SUBSET Callers
      /\ Placed' \in SUBSET Callers /\ InBudget' \in SUBSET Callers
  BY DEF InLine, Placed, InBudget
<1> QED  BY <1>1, LimitAssumption, FS_Subset, FS_CardinalityType

\* Adding an element one does not have makes one more, and so back.
LEMMA OneMore ==
  ASSUME NEW S, NEW c, IsFiniteSet(S), c \notin S
  PROVE  Cardinality(S \cup {c}) = Cardinality(S) + 1
BY FS_AddElement

LEMMA OneLess ==
  ASSUME NEW S, NEW c, IsFiniteSet(S), c \in S
  PROVE  Cardinality(S \ {c}) = Cardinality(S) - 1
BY FS_RemoveElement

LEMMA LimitInvInit == LimitInit => LimitInv
<1> SUFFICES ASSUME LimitInit PROVE LimitInv
  OBVIOUS
<1>1. Placed = {} /\ InBudget = {}
  BY DEF LimitInit, Placed, InBudget
<1>2. Cardinality(Placed) = 0 /\ Cardinality(InBudget) = 0
  BY <1>1, FS_EmptySet
<1>3. LimitTypeOK
  BY DEF LimitInit, LimitTypeOK, Places
<1>4. Counters
  BY <1>2, LimitAssumption DEF LimitInit, Counters
<1> QED  BY <1>1, <1>3, <1>4 DEF LimitInit, LimitInv, Queue, Order

-----------------------------------------------------------------------------
LEMMA AskOK ==
  ASSUME LimitInv, NEW c \in Callers, Ask(c) PROVE LimitInv'
<1> USE LimitAssumption
<1>0. /\ LimitTypeOK /\ at[c] = "outside" /\ c \notin Placed /\ c \notin InBudget
      /\ admitted < AtOnce + MaxWaiting
  BY DEF LimitInv, Ask, Placed, InBudget
<1>1. CASE running < AtOnce
  <2>1. /\ at' = [at EXCEPT ![c] = "working"] /\ running' = running + 1
        /\ UNCHANGED waiting /\ admitted' = admitted + 1
        /\ before' = [before EXCEPT ![c] = InLine]
    BY <1>0, <1>1 DEF Ask, LimitTypeOK
  <2>2. Placed' = Placed \cup {c} /\ InBudget' = InBudget \cup {c}
    BY <1>0, <2>1 DEF LimitTypeOK, Placed, InBudget
  <2>3. waiting = <<>>
    BY <1>0, <1>1 DEF LimitInv, Counters, LimitTypeOK
  <2>4. InLine \subseteq Placed
    BY <2>3 DEF LimitInv, Queue, InLine, Placed
  <2>5. Counters'
    BY <1>0, <1>1, <2>1, <2>2, <2>3, PopulationsFinite, OneMore DEF LimitInv, Counters, LimitTypeOK
  <2>6. LimitTypeOK'
    BY <1>0, <2>1 DEF LimitTypeOK, Places, InLine
  <2>7. Queue'
    BY <1>0, <2>1, <2>3 DEF LimitInv, Queue, LimitTypeOK
  <2>8. Order'
    BY <1>0, <2>1, <2>2, <2>3, <2>4 DEF LimitInv, Order, LimitTypeOK, Placed
  <2> QED  BY <2>5, <2>6, <2>7, <2>8 DEF LimitInv
<1>2. CASE running >= AtOnce
  <2>1. /\ at' = [at EXCEPT ![c] = "waiting"] /\ UNCHANGED running
        /\ waiting' = Append(waiting, c) /\ admitted' = admitted + 1
        /\ before' = [before EXCEPT ![c] = InLine]
    BY <1>0, <1>2 DEF Ask, LimitTypeOK
  <2>2. Placed' = Placed /\ InBudget' = InBudget \cup {c}
    BY <1>0, <2>1 DEF LimitTypeOK, Placed, InBudget
  <2>3. running = AtOnce
    BY <1>0, <1>2 DEF LimitInv, Counters, LimitTypeOK
  <2>5. Counters'
    BY <1>0, <2>1, <2>2, <2>3, PopulationsFinite, OneMore DEF LimitInv, Counters, LimitTypeOK
  <2>6. LimitTypeOK'
    BY <1>0, <2>1 DEF LimitTypeOK, Places, InLine
  <2>7. /\ Len(waiting') = Len(waiting) + 1 /\ Len(waiting) \in Nat
        /\ \A i \in 1..Len(waiting) : waiting'[i] = waiting[i] /\ waiting[i] \in Callers
        /\ waiting'[Len(waiting) + 1] = c
    BY <1>0, <2>1 DEF LimitTypeOK
  <2>8. \A i \in 1..Len(waiting) : waiting[i] # c /\ at'[waiting[i]] = at[waiting[i]]
    BY <1>0, <2>1, <2>7 DEF LimitInv, Queue, LimitTypeOK
  <2>9. Queue'
    <3>1. \A i \in 1..Len(waiting') : at'[waiting'[i]] = "waiting"
      BY <1>0, <2>1, <2>7, <2>8 DEF LimitInv, Queue, LimitTypeOK
    <3>2. \A i, j \in 1..Len(waiting') : waiting'[i] = waiting'[j] => i = j
      BY <2>7, <2>8 DEF LimitInv, Queue
    <3>3. ASSUME NEW d \in Callers, at'[d] = "waiting"
          PROVE  \E i \in 1..Len(waiting') : waiting'[i] = d
      <4>1. CASE d = c
        BY <4>1, <2>7
      <4>2. CASE d # c
        <5>1. at[d] = "waiting"
          BY <4>2, <3>3, <2>1, <1>0 DEF LimitTypeOK
        <5>2. PICK i \in 1..Len(waiting) : waiting[i] = d
          BY <5>1 DEF LimitInv, Queue
        <5> QED  BY <5>2, <2>7
      <4> QED  BY <4>1, <4>2
    <3> QED  BY <3>1, <3>2, <3>3 DEF Queue
  <2>10. Order'
    <3>1. ASSUME NEW d \in Placed' PROVE before'[d] \subseteq Placed' \ {d}
      BY <3>1, <1>0, <2>1, <2>2 DEF LimitInv, Order, LimitTypeOK, Placed
    <3>2. ASSUME NEW i \in 1..Len(waiting')
          PROVE  before'[waiting'[i]] \subseteq Placed' \cup AheadOf(i)'
      <4>1. CASE i \in 1..Len(waiting)
        <5>1. before'[waiting'[i]] = before[waiting[i]]
          BY <4>1, <1>0, <2>1, <2>7, <2>8 DEF LimitTypeOK
        <5>2. AheadOf(i) = AheadOf(i)'
          BY <4>1, <2>7 DEF AheadOf
        <5> QED  BY <4>1, <5>1, <5>2, <2>2 DEF LimitInv, Order
      <4>2. CASE i = Len(waiting) + 1
        <5>1. before'[waiting'[i]] = InLine
          BY <4>2, <1>0, <2>1, <2>7 DEF LimitTypeOK
        <5>2. ASSUME NEW d \in InLine, d \notin Placed PROVE d \in AheadOf(i)'
          <6>1. at[d] = "waiting" /\ d \in Callers
            BY <5>2 DEF InLine, Placed
          <6>2. PICK j \in 1..Len(waiting) : waiting[j] = d
            BY <6>1 DEF LimitInv, Queue
          <6> QED  BY <6>2, <4>2, <2>7 DEF AheadOf
        <5> QED  BY <5>1, <5>2, <2>2
      <4> QED  BY <4>1, <4>2, <2>7, <3>2
    <3> QED  BY <3>1, <3>2 DEF Order
  <2> QED  BY <2>5, <2>6, <2>9, <2>10 DEF LimitInv
<1> QED  BY <1>0, <1>1, <1>2 DEF LimitTypeOK

\* A step that moves one caller, and neither to nor from a place in line or in
\* the budget.
LEMMA MoveOK ==
  ASSUME LimitInv, NEW c \in Callers, NEW p \in Places, at' = [at EXCEPT ![c] = p],
         UNCHANGED <<running, waiting, admitted, before>>,
         (at[c] = "woken" /\ p = "working")
           \/ (at[c] = "outside" /\ p = "refused") \/ (at[c] = "refused" /\ p = "outside")
  PROVE  LimitInv' /\ InLine' = InLine
<1>0. LimitTypeOK
  BY DEF LimitInv
<1>1. Placed' = Placed /\ InBudget' = InBudget /\ InLine' = InLine
  BY <1>0 DEF LimitTypeOK, Placed, InBudget, InLine
<1>2. LimitTypeOK'
  BY <1>0 DEF LimitTypeOK
<1>3. Counters'
  BY <1>1 DEF LimitInv, Counters
<1>4. Queue'
  BY <1>0 DEF LimitInv, Queue, LimitTypeOK
<1>5. Order'
  BY <1>1 DEF LimitInv, Order, AheadOf
<1> QED  BY <1>1, <1>2, <1>3, <1>4, <1>5 DEF LimitInv

LEMMA LeaveOK ==
  ASSUME LimitInv, NEW c \in Callers, Leave(c) PROVE LimitInv' /\ InLine' = InLine
<1>0. LimitTypeOK /\ c \in InBudget
  BY DEF LimitInv, Leave, InBudget
<1>1. Placed' = Placed /\ InBudget' = InBudget \ {c} /\ InLine' = InLine
  BY <1>0 DEF Leave, LimitTypeOK, Placed, InBudget, InLine
<1>2. Cardinality(InBudget') = Cardinality(InBudget) - 1 /\ Cardinality(InBudget') \in Nat
  BY <1>0, <1>1, PopulationsFinite, OneLess, FS_CardinalityType
<1>3. LimitTypeOK'
  BY <1>0, <1>2 DEF Leave, LimitTypeOK, Places, LimitInv, Counters
<1>4. Counters'
  BY <1>0, <1>1, <1>2, LimitAssumption DEF Leave, LimitInv, Counters, LimitTypeOK
<1>5. Queue'
  BY <1>0 DEF Leave, LimitInv, Queue, LimitTypeOK
<1>6. Order'
  BY <1>1 DEF Leave, LimitInv, Order, AheadOf
<1> QED  BY <1>1, <1>3, <1>4, <1>5, <1>6 DEF LimitInv

LEMMA EndOK ==
  ASSUME LimitInv, NEW c \in Callers, End(c) PROVE LimitInv'
<1>0. LimitTypeOK /\ at[c] = "working" /\ c \in Placed /\ before' = Forgotten(c) /\ admitted' = admitted
  BY DEF LimitInv, End, Placed
<1>1. CASE waiting = <<>>
  <2>1. running' = running - 1 /\ at' = [at EXCEPT ![c] = "leaving"] /\ waiting' = waiting
    BY <1>1 DEF End
  <2>2. Placed' = Placed \ {c} /\ InBudget' = InBudget
    BY <1>0, <2>1 DEF LimitTypeOK, Placed, InBudget
  <2>3. Cardinality(Placed') = Cardinality(Placed) - 1 /\ Cardinality(Placed') \in Nat
    BY <1>0, <2>2, PopulationsFinite, OneLess, FS_CardinalityType
  <2>4. LimitTypeOK'
    BY <1>0, <2>1, <2>3 DEF LimitTypeOK, Places, Forgotten, LimitInv, Counters
  <2>5. Counters'
    BY <1>0, <1>1, <2>1, <2>2, <2>3, LimitAssumption DEF LimitInv, Counters, LimitTypeOK
  <2>6. Queue'
    BY <1>0, <1>1, <2>1 DEF LimitInv, Queue, LimitTypeOK
  <2>7. Order'
    BY <1>0, <1>1, <2>1, <2>2 DEF LimitInv, Order, LimitTypeOK, Forgotten, Placed
  <2> QED  BY <2>4, <2>5, <2>6, <2>7 DEF LimitInv
<1>2. CASE waiting # <<>>
  <2> DEFINE h == Head(waiting)
  <2>1. running' = running /\ waiting' = Tail(waiting)
        /\ at' = [at EXCEPT ![c] = "leaving", ![h] = "woken"]
    BY <1>2 DEF End
  <2>2. /\ Len(waiting) \in Nat \ {0} /\ Len(waiting') = Len(waiting) - 1
        /\ waiting' \in Seq(Callers) /\ h = waiting[1] /\ h \in Callers
        /\ \A i \in 1..Len(waiting') : waiting'[i] = waiting[i+1] /\ i+1 \in 1..Len(waiting)
        /\ \A i \in 1..Len(waiting) : waiting[i] \in Callers
    BY <1>0, <1>2, <2>1 DEF LimitTypeOK
  <2>3. at[h] = "waiting" /\ h # c /\ h \notin Placed
    BY <1>0, <2>2 DEF LimitInv, Queue, Placed
  <2>4. /\ Placed' = (Placed \ {c}) \cup {h} /\ InBudget' = InBudget
        /\ \A d \in Callers : d # c /\ d # h => at'[d] = at[d]
        /\ at'[c] = "leaving" /\ at'[h] = "woken"
    <3>1. /\ \A d \in Callers : d # c /\ d # h => at'[d] = at[d]
          /\ at'[c] = "leaving" /\ at'[h] = "woken"
      BY <1>0, <2>1, <2>2, <2>3 DEF LimitTypeOK
    <3> QED  BY <3>1, <1>0, <2>2, <2>3 DEF Placed, InBudget
  <2>5. Cardinality(Placed') = Cardinality(Placed)
    <3>1. IsFiniteSet(Placed \ {c}) /\ Cardinality(Placed \ {c}) = Cardinality(Placed) - 1
      BY <1>0, PopulationsFinite, FS_RemoveElement
    <3>2. Cardinality(Placed') = Cardinality(Placed \ {c}) + 1
      BY <2>3, <2>4, <3>1, OneMore
    <3> QED  BY <3>1, <3>2, PopulationsFinite
  <2>6. LimitTypeOK'
    BY <1>0, <2>1, <2>2 DEF LimitTypeOK, Places, Forgotten
  <2>7. Counters'
    BY <1>0, <1>2, <2>1, <2>4, <2>5 DEF LimitInv, Counters
  <2>8. ASSUME NEW i \in 1..Len(waiting') PROVE waiting'[i] # h /\ waiting'[i] # c
    <3>1. waiting'[i] = waiting[i+1] /\ i+1 \in 1..Len(waiting) /\ 1 \in 1..Len(waiting)
          /\ i+1 # 1
      BY <2>2
    <3> QED  BY <3>1, <1>0, <2>2 DEF LimitInv, Queue
  <2>9. Queue'
    <3>1. \A i \in 1..Len(waiting') : at'[waiting'[i]] = "waiting"
      BY <2>2, <2>4, <2>8 DEF LimitInv, Queue
    <3>2. \A i, j \in 1..Len(waiting') : waiting'[i] = waiting'[j] => i = j
      BY <2>2 DEF LimitInv, Queue
    <3>3. ASSUME NEW d \in Callers, at'[d] = "waiting"
          PROVE  \E i \in 1..Len(waiting') : waiting'[i] = d
      <4>1. at[d] = "waiting" /\ d # h
        BY <3>3, <2>4, <1>0
      <4>2. PICK i \in 1..Len(waiting) : waiting[i] = d
        BY <4>1 DEF LimitInv, Queue
      <4>3. i-1 \in 1..Len(waiting') /\ waiting'[i-1] = d
        BY <4>1, <4>2, <2>2
      <4> QED  BY <4>3
    <3> QED  BY <3>1, <3>2, <3>3 DEF Queue
  <2>10. Order'
    <3>0. \A d \in Callers : d # c => before'[d] = before[d] \ {c}
      BY <1>0 DEF Forgotten, LimitTypeOK
    <3>1. ASSUME NEW d \in Placed' PROVE before'[d] \subseteq Placed' \ {d}
      <4>1. CASE d = h
        <5>1. before[h] \subseteq Placed \cup AheadOf(1)
          BY <2>2 DEF LimitInv, Order
        <5>2. AheadOf(1) = {}
          BY DEF AheadOf
        <5> QED  BY <4>1, <5>1, <5>2, <3>0, <2>2, <2>3, <2>4
      <4>2. CASE d # h
        BY <4>2, <3>1, <3>0, <2>4 DEF LimitInv, Order, Placed
      <4> QED  BY <4>1, <4>2
    <3>2. ASSUME NEW i \in 1..Len(waiting')
          PROVE  before'[waiting'[i]] \subseteq Placed' \cup AheadOf(i)'
      <4>1. waiting'[i] = waiting[i+1] /\ i+1 \in 1..Len(waiting) /\ waiting[i+1] \in Callers
        BY <2>2
      <4>2. before'[waiting'[i]] \subseteq (Placed \cup AheadOf(i+1)) \ {c}
        BY <4>1, <3>0, <2>8 DEF LimitInv, Order
      <4>3. ASSUME NEW d \in AheadOf(i+1) PROVE d = h \/ d \in AheadOf(i)'
        <5>1. PICK j \in 1..i : waiting[j] = d
          BY <4>3, <4>1 DEF AheadOf
        <5>2. CASE j = 1
          BY <5>1, <5>2, <2>2
        <5>3. CASE j # 1
          <6>1. j-1 \in 1..(i-1) /\ j-1 \in 1..Len(waiting') /\ waiting'[j-1] = d
            BY <5>1, <5>3, <2>2, <4>1
          <6> QED  BY <6>1 DEF AheadOf
        <5> QED  BY <5>2, <5>3
      <4> QED  BY <4>2, <4>3, <2>4
    <3> QED  BY <3>1, <3>2 DEF Order
  <2> QED  BY <2>6, <2>7, <2>9, <2>10 DEF LimitInv
<1> QED  BY <1>1, <1>2

-----------------------------------------------------------------------------
LEMMA LimitInvStep == LimitInv /\ [LimitNext]_limitVars => LimitInv'
<1> SUFFICES ASSUME LimitInv, [LimitNext]_limitVars PROVE LimitInv'
  OBVIOUS
<1>1. CASE UNCHANGED limitVars
  BY <1>1 DEF limitVars, LimitInv, LimitTypeOK, Counters, Queue, Order, AheadOf, Placed, InBudget, InLine
<1>2. ASSUME NEW c \in Callers, Refuse(c) \/ Wake(c) \/ TurnedAway(c) PROVE LimitInv'
  BY <1>2, MoveOK DEF Refuse, Wake, TurnedAway, Places
<1>3. ASSUME NEW c \in Callers, Ask(c) \/ End(c) \/ Leave(c) PROVE LimitInv'
  BY <1>3, AskOK, EndOK, LeaveOK
<1> QED  BY <1>1, <1>2, <1>3 DEF LimitNext

\* Every variable of the limit keeps its type: no place is given back twice.
THEOREM LimitTypeCorrect == LimitSpec => []LimitTypeOK
<1>1. LimitInv => LimitTypeOK  BY DEF LimitInv
<1> QED  BY LimitInvInit, LimitInvStep, <1>1, PTL DEF LimitSpec

LEMMA LimitInvAlways == LimitSpec => []LimitInv
BY LimitInvInit, LimitInvStep, PTL DEF LimitSpec

-----------------------------------------------------------------------------
\* The two modules count alike.
LEMMA SameCount == ASSUME NEW S PROVE Promise!Cardinality(S) = Cardinality(S)
BY DEF Cardinality, Promise!Cardinality

LEMMA LineInit == LimitInit => Promise!Init
BY DEF LimitInit, Promise!Init, InLine, Working

LEMMA LineStep == LimitInv /\ [LimitNext]_limitVars => [Promise!Next]_(Promise!vars)
<1> SUFFICES ASSUME LimitInv, [LimitNext]_limitVars PROVE [Promise!Next]_(Promise!vars)
  OBVIOUS
<1>0. LimitTypeOK
  BY DEF LimitInv
<1>1. CASE UNCHANGED limitVars
  BY <1>1 DEF limitVars, Promise!vars, InLine, Working
<1>2. ASSUME NEW c \in Callers, Refuse(c) \/ TurnedAway(c) \/ Leave(c)
      PROVE  UNCHANGED Promise!vars
  BY <1>0, <1>2 DEF Refuse, TurnedAway, Leave, LimitTypeOK, Promise!vars, InLine, Working
<1>3. ASSUME NEW c \in Callers, Ask(c) PROVE Promise!Enter(c)
  <2>1. c \notin InLine /\ InLine' = InLine \cup {c} /\ before' = [before EXCEPT ![c] = InLine]
    BY <1>0, <1>3 DEF Ask, LimitTypeOK, InLine
  <2>2. Cardinality(InLine) < AtOnce + MaxWaiting
    <3>1. InLine \in SUBSET InBudget
      BY DEF InLine, InBudget
    <3> QED  BY <1>3, <3>1, PopulationsFinite, FS_Subset, LimitAssumption
             DEF Ask, LimitInv, Counters
  <2>3. CASE running < AtOnce
    <3>1. InLine = Placed
      BY <1>0, <2>3, LimitAssumption DEF LimitInv, Counters, Queue, LimitTypeOK, InLine, Placed
    <3>2. Working' = Working \cup {c}
      BY <1>0, <1>3, <2>3, LimitAssumption DEF Ask, LimitTypeOK, Working
    <3>3. Cardinality(InLine) < AtOnce
      BY <2>3, <3>1 DEF LimitInv, Counters
    <3> QED  BY <2>1, <2>2, <3>2, <3>3, SameCount DEF Promise!Enter
  <2>4. CASE running >= AtOnce
    <3>1. Cardinality(InLine) >= AtOnce
      <4>1. Placed \in SUBSET InLine
        BY DEF InLine, Placed
      <4> QED  BY <2>4, <4>1, PopulationsFinite, FS_Subset, LimitAssumption DEF LimitInv, Counters
    <3>2. Working' = Working
      BY <1>0, <1>3, <2>4 DEF Ask, LimitTypeOK, Working
    <3>3. ~(Cardinality(InLine) < AtOnce)
      BY <3>1, PopulationsFinite, LimitAssumption
    <3> QED  BY <2>1, <2>2, <3>2, <3>3, SameCount DEF Promise!Enter
  <2> QED  BY <1>0, <2>3, <2>4, LimitAssumption DEF LimitTypeOK
<1>4. ASSUME NEW c \in Callers, Wake(c) PROVE Promise!Begin(c)
  <2>1. c \in InLine \ Working /\ c \in Placed
    BY <1>4 DEF Wake, InLine, Working, Placed
  <2>2. before[c] \in SUBSET (Placed \ {c})
    BY <2>1 DEF LimitInv, Order
  <2>3. IsFiniteSet(Placed \ {c}) /\ Cardinality(Placed \ {c}) = running - 1
    BY <2>1, PopulationsFinite, FS_RemoveElement DEF LimitInv, Counters
  <2>4. Cardinality(before[c]) <= running - 1 /\ Cardinality(before[c]) \in Nat
    BY <2>2, <2>3, FS_Subset, FS_CardinalityType
  <2>5. Working' = Working \cup {c} /\ UNCHANGED <<InLine, before>>
    BY <1>0, <1>4 DEF Wake, LimitTypeOK, Working, InLine
  <2>6. Cardinality(before[c]) < AtOnce
    BY <1>0, <2>4, LimitAssumption DEF LimitInv, Counters, LimitTypeOK
  <2> QED  BY <2>1, <2>5, <2>6, SameCount DEF Promise!Begin
<1>5. ASSUME NEW c \in Callers, End(c) PROVE Promise!End(c)
  <2>1. c \in Working /\ before' = Forgotten(c)
    BY <1>5 DEF End, Working
  <2>2. InLine' = InLine \ {c} /\ Working' = Working \ {c}
    <3>1. CASE waiting = <<>>
      BY <1>0, <1>5, <3>1 DEF End, LimitTypeOK, InLine, Working
    <3>2. CASE waiting # <<>>
      <4> DEFINE h == Head(waiting)
      <4>1. h = waiting[1] /\ 1 \in 1..Len(waiting) /\ h \in Callers
        BY <1>0, <3>2 DEF LimitTypeOK
      <4>2. at[h] = "waiting" /\ at[c] = "working"
        BY <1>5, <4>1 DEF LimitInv, Queue, End
      <4>3. /\ \A d \in Callers : d # c /\ d # h => at'[d] = at[d]
            /\ at'[c] = "leaving" /\ at'[h] = "woken"
        BY <1>0, <1>5, <3>2, <4>1, <4>2 DEF End, LimitTypeOK
      <4> QED  BY <4>1, <4>2, <4>3 DEF InLine, Working
    <3> QED  BY <3>1, <3>2
  <2> QED  BY <2>1, <2>2 DEF Promise!End, Forgotten
<1> QED  BY <1>1, <1>2, <1>3, <1>4, <1>5 DEF LimitNext, Promise!Next

\* The limit implements the line: nobody begins while as many as have places
\* came before it and are not over, and no more than MaxWaiting wait.
THEOREM LimitIsALine == LimitSpec => IsALine
<1>1. LimitSpec => Promise!Init /\ [][Promise!Next]_(Promise!vars)
  BY LineInit, LineStep, LimitInvAlways, PTL DEF LimitSpec
<1> QED  BY <1>1 DEF IsALine, Promise!Spec

\* Whoever is turned away is turned away by a budget that is full of others: no
\* place is lost to work that threw, or to a caller that is gone.
THEOREM NobodyTurnedAwayForNothing == LimitSpec => TurnedAwayWhenFull
<1> DEFINE A == \A c \in Callers : at'[c] = "refused" /\ at[c] # "refused"
                          => Cardinality(InBudget) = AtOnce + MaxWaiting
<1>1. ASSUME LimitInv, [LimitNext]_limitVars, NEW c \in Callers, at'[c] = "refused", at[c] # "refused"
      PROVE  admitted >= AtOnce + MaxWaiting
  <2>0. LimitTypeOK
    BY <1>1 DEF LimitInv
  <2>1. CASE UNCHANGED limitVars
    BY <1>1, <2>1 DEF limitVars
  <2>2. ASSUME NEW d \in Callers, Refuse(d) PROVE admitted >= AtOnce + MaxWaiting
    BY <2>2 DEF Refuse
  <2>3. ASSUME NEW d \in Callers, Ask(d) \/ Wake(d) \/ Leave(d) \/ TurnedAway(d) PROVE FALSE
    BY <1>1, <2>0, <2>3 DEF Ask, Wake, Leave, TurnedAway, LimitTypeOK
  <2>4. ASSUME NEW d \in Callers, End(d) PROVE FALSE
    <3>1. CASE waiting = <<>>
      BY <1>1, <2>0, <2>4, <3>1 DEF End, LimitTypeOK
    <3>2. CASE waiting # <<>>
      <4>1. Head(waiting) \in Callers
        BY <2>0, <3>2 DEF LimitTypeOK
      <4> QED  BY <1>1, <2>0, <2>4, <3>2, <4>1 DEF End, LimitTypeOK
    <3> QED  BY <3>1, <3>2
  <2> QED  BY <1>1, <2>1, <2>2, <2>3, <2>4 DEF LimitNext
<1>2. LimitInv /\ [LimitNext]_limitVars => A
  <2> SUFFICES ASSUME LimitInv, [LimitNext]_limitVars, NEW c \in Callers, at'[c] = "refused", at[c] # "refused"
               PROVE  Cardinality(InBudget) = AtOnce + MaxWaiting
    OBVIOUS
  <2>1. admitted >= AtOnce + MaxWaiting
    BY <1>1
  <2> QED  BY <2>1, LimitAssumption DEF LimitInv, Counters, LimitTypeOK
<1>3. LimitInv /\ [LimitNext]_limitVars => [A]_limitVars
  BY <1>2
<1> QED  BY <1>3, LimitInvAlways, PTL DEF LimitSpec, TurnedAwayWhenFull
=============================================================================
