--------------------------- MODULE PoolWatchesProofs ---------------------------
(***************************************************************************)
(* What a chat was told, and what is kept of it, for any number of chats,   *)
(* pools, requests and passes: where nothing overlapped and nothing was cut *)
(* off, the two agree, and no pool is told of twice within a day.  The first *)
(* half is types, and what each step leaves of the process that takes it.   *)
(***************************************************************************)
EXTENDS PoolWatches, TLAPS

-----------------------------------------------------------------------------
(***************************************************************************)
(* Records.                                                                *)
(***************************************************************************)
LEMMA EmptyIsRecord == Empty \in Record /\ Watched(Empty) = {}
  BY NullAssumption DEF Empty, Record, Watched

LEMMA EmptyIsIt == \A r \in Record : Watched(r) = {} => r = Empty
  BY DEF Record, Watched, Empty

LEMMA AddWatch ==
  ASSUME NEW r \in Record, NEW w \in Pools, NEW t \in Time
  PROVE  /\ [r EXCEPT ![w] = t] \in Record
         /\ Watched([r EXCEPT ![w] = t]) = Watched(r) \cup {w}
         /\ [r EXCEPT ![w] = t][w] = t
         /\ \A v \in Pools \ {w} : [r EXCEPT ![w] = t][v] = r[v]
  <1>1. t # None
    BY NullAssumption, BoundsAssumption DEF Time
  <1> QED
    BY <1>1 DEF Record, Watched

LEMMA DropWatch ==
  ASSUME NEW r \in Record, NEW w \in Pools
  PROVE  /\ [r EXCEPT ![w] = None] \in Record
         /\ Watched([r EXCEPT ![w] = None]) = Watched(r) \ {w}
         /\ \A v \in Pools \ {w} : [r EXCEPT ![w] = None][v] = r[v]
  BY DEF Record, Watched

-----------------------------------------------------------------------------
(***************************************************************************)
(* Types.                                                                  *)
(***************************************************************************)
HandlerSteps == {"idle", "count", "write", "enter", "delete", "leave"}
PassSteps    == {"idle", "list", "drop", "tell", "write", "enter"}

\* What a request and a pass know at each step.
HandlerShape(s) ==
  /\ s.at \in HandlerSteps
  /\ s.listed = [c \in Chats |-> Empty]
  /\ IF s.at = "idle" THEN s.chat = None ELSE s.chat \in Chats
  /\ s.at = "count" => s.ask = "watch"
  /\ s.at \in {"count", "write", "enter"} =>
       s.ask \in {"watch", "unwatch"} /\ s.pool \in Pools
  /\ s.at \in {"delete", "leave"} =>
       (s.ask = "unwatch" /\ s.pool \in Pools) \/ s.ask = "stop"

PassShape(s) ==
  /\ s.at \in PassSteps
  /\ s.at \in {"idle", "list"} => s.chat = None
  /\ s.at \in {"idle", "list", "drop"} => s.rest = {}
  /\ s.at \in {"drop", "write", "enter"} => s.chat \in Chats
  /\ s.at = "tell" /\ s.rest # {} => s.chat \in Chats
  /\ s.rest \subseteq Watched(s.held)

Shape == /\ \A h \in Handlers : HandlerShape(proc[h])
         /\ \A p \in Passes : PassShape(proc[p])

Typed == TypeOK /\ Shape

\* A step that leaves the other processes alone.
Others(q) == \A r \in Processes \ {q} : proc'[r] = proc[r]

IdleFields ==
  /\ Idle.at = "idle" /\ Idle.ask = "none" /\ Idle.chat = None /\ Idle.pool = None
  /\ Idle.when = 0 /\ Idle.held = Empty /\ Idle.rest = {} /\ Idle.todo = {}
  /\ Idle.listed = [c \in Chats |-> Empty] /\ Idle.last = 0

LEMMA IdleIsIdle == Idle \in ProcessState /\ IdleFields
  BY EmptyIsRecord, BoundsAssumption DEF Idle, ProcessState, Steps, Time, IdleFields

\* What is written to a process field by field keeps its type.
LEMMA KindAt ==
  ASSUME NEW s \in ProcessState, NEW at \in Steps
  PROVE  [s EXCEPT !.at = at] \in ProcessState
  <1> DEFINE T == Time  N == Nat
  <1>1. ProcessState = [at : Steps, ask : {"none", "watch", "unwatch", "stop"},
          chat : Chats \cup {None}, pool : Pools \cup {None}, when : T, held : Record,
          rest : SUBSET Pools, listed : [Chats -> Record], todo : SUBSET Chats, last : N]
    BY DEF ProcessState
  <1> HIDE DEF T, N
  <1> QED
    BY <1>1

LEMMA KindAtChat ==
  ASSUME NEW s \in ProcessState, NEW at \in Steps, NEW chat \in Chats \cup {None}
  PROVE  [s EXCEPT !.at = at, !.chat = chat] \in ProcessState
  <1> DEFINE T == Time  N == Nat
  <1>1. ProcessState = [at : Steps, ask : {"none", "watch", "unwatch", "stop"},
          chat : Chats \cup {None}, pool : Pools \cup {None}, when : T, held : Record,
          rest : SUBSET Pools, listed : [Chats -> Record], todo : SUBSET Chats, last : N]
    BY DEF ProcessState
  <1> HIDE DEF T, N
  <1> QED
    BY <1>1

LEMMA KindStop ==
  ASSUME NEW s \in ProcessState, NEW at \in Steps,
         NEW ask \in {"none", "watch", "unwatch", "stop"},
         NEW chat \in Chats \cup {None}
  PROVE  [s EXCEPT !.at = at, !.ask = ask, !.chat = chat] \in ProcessState
  <1> DEFINE T == Time  N == Nat
  <1>1. ProcessState = [at : Steps, ask : {"none", "watch", "unwatch", "stop"},
          chat : Chats \cup {None}, pool : Pools \cup {None}, when : T, held : Record,
          rest : SUBSET Pools, listed : [Chats -> Record], todo : SUBSET Chats, last : N]
    BY DEF ProcessState
  <1> HIDE DEF T, N
  <1> QED
    BY <1>1

LEMMA KindUnwatch ==
  ASSUME NEW s \in ProcessState, NEW at \in Steps,
         NEW ask \in {"none", "watch", "unwatch", "stop"},
         NEW chat \in Chats \cup {None}, NEW pool \in Pools \cup {None},
         NEW held \in Record
  PROVE  [s EXCEPT !.at = at, !.ask = ask, !.chat = chat, !.pool = pool, !.held = held] \in ProcessState
  <1> DEFINE T == Time  N == Nat
  <1>1. ProcessState = [at : Steps, ask : {"none", "watch", "unwatch", "stop"},
          chat : Chats \cup {None}, pool : Pools \cup {None}, when : T, held : Record,
          rest : SUBSET Pools, listed : [Chats -> Record], todo : SUBSET Chats, last : N]
    BY DEF ProcessState
  <1> HIDE DEF T, N
  <1> QED
    BY <1>1

LEMMA KindWatch ==
  ASSUME NEW s \in ProcessState, NEW at \in Steps,
         NEW ask \in {"none", "watch", "unwatch", "stop"},
         NEW chat \in Chats \cup {None}, NEW pool \in Pools \cup {None},
         NEW when \in Time, NEW held \in Record
  PROVE  [s EXCEPT !.at = at, !.ask = ask, !.chat = chat, !.pool = pool, !.when = when, !.held = held] \in ProcessState
  <1> DEFINE T == Time  N == Nat
  <1>1. ProcessState = [at : Steps, ask : {"none", "watch", "unwatch", "stop"},
          chat : Chats \cup {None}, pool : Pools \cup {None}, when : T, held : Record,
          rest : SUBSET Pools, listed : [Chats -> Record], todo : SUBSET Chats, last : N]
    BY DEF ProcessState
  <1>2. when \in T
    OBVIOUS
  <1> HIDE DEF T, N
  <1> QED
    BY <1>1, <1>2

LEMMA KindList ==
  ASSUME NEW s \in ProcessState, NEW at \in Steps, NEW todo \in SUBSET Chats,
         NEW last \in Nat
  PROVE  [s EXCEPT !.at = at, !.todo = todo, !.last = last] \in ProcessState
  <1> DEFINE T == Time  N == Nat
  <1>1. ProcessState = [at : Steps, ask : {"none", "watch", "unwatch", "stop"},
          chat : Chats \cup {None}, pool : Pools \cup {None}, when : T, held : Record,
          rest : SUBSET Pools, listed : [Chats -> Record], todo : SUBSET Chats, last : N]
    BY DEF ProcessState
  <1>2. last \in N
    OBVIOUS
  <1> HIDE DEF T, N
  <1> QED
    BY <1>1, <1>2

LEMMA KindRead ==
  ASSUME NEW s \in ProcessState, NEW todo \in SUBSET Chats, NEW last \in Nat
  PROVE  [s EXCEPT !.todo = todo, !.last = last] \in ProcessState
  <1> DEFINE T == Time  N == Nat
  <1>1. ProcessState = [at : Steps, ask : {"none", "watch", "unwatch", "stop"},
          chat : Chats \cup {None}, pool : Pools \cup {None}, when : T, held : Record,
          rest : SUBSET Pools, listed : [Chats -> Record], todo : SUBSET Chats, last : N]
    BY DEF ProcessState
  <1>2. last \in N
    OBVIOUS
  <1> HIDE DEF T, N
  <1> QED
    BY <1>1, <1>2

LEMMA KindTodo ==
  ASSUME NEW s \in ProcessState, NEW todo \in SUBSET Chats
  PROVE  [s EXCEPT !.todo = todo] \in ProcessState
  <1> DEFINE T == Time  N == Nat
  <1>1. ProcessState = [at : Steps, ask : {"none", "watch", "unwatch", "stop"},
          chat : Chats \cup {None}, pool : Pools \cup {None}, when : T, held : Record,
          rest : SUBSET Pools, listed : [Chats -> Record], todo : SUBSET Chats, last : N]
    BY DEF ProcessState
  <1> HIDE DEF T, N
  <1> QED
    BY <1>1

LEMMA KindRest ==
  ASSUME NEW s \in ProcessState, NEW rest \in SUBSET Pools
  PROVE  [s EXCEPT !.rest = rest] \in ProcessState
  <1> DEFINE T == Time  N == Nat
  <1>1. ProcessState = [at : Steps, ask : {"none", "watch", "unwatch", "stop"},
          chat : Chats \cup {None}, pool : Pools \cup {None}, when : T, held : Record,
          rest : SUBSET Pools, listed : [Chats -> Record], todo : SUBSET Chats, last : N]
    BY DEF ProcessState
  <1> HIDE DEF T, N
  <1> QED
    BY <1>1

LEMMA KindTell ==
  ASSUME NEW s \in ProcessState, NEW rest \in SUBSET Pools, NEW held \in Record,
         NEW at \in Steps
  PROVE  [s EXCEPT !.rest = rest, !.held = held, !.at = at] \in ProcessState
  <1> DEFINE T == Time  N == Nat
  <1>1. ProcessState = [at : Steps, ask : {"none", "watch", "unwatch", "stop"},
          chat : Chats \cup {None}, pool : Pools \cup {None}, when : T, held : Record,
          rest : SUBSET Pools, listed : [Chats -> Record], todo : SUBSET Chats, last : N]
    BY DEF ProcessState
  <1> HIDE DEF T, N
  <1> QED
    BY <1>1

\* Idle is a state of either.
LEMMA IdleShapes == HandlerShape(Idle) /\ PassShape(Idle)
  BY IdleIsIdle DEF IdleFields, HandlerShape, PassShape, HandlerSteps, PassSteps

\* One process goes on to state s.
Goes(q, s) ==
  /\ s \in ProcessState
  /\ q \in Handlers => HandlerShape(s)
  /\ q \in Passes => PassShape(s)
  /\ proc' = [proc EXCEPT ![q] = s]

LEMMA GoesTyped ==
  ASSUME Typed, NEW q \in Processes, NEW s, Goes(q, s)
  PROVE  proc' \in [Processes -> ProcessState] /\ Shape' /\ proc'[q] = s /\ Others(q)
  <1>1. proc \in [Processes -> ProcessState]
    BY DEF Typed, TypeOK
  <1>2. proc' \in [Processes -> ProcessState] /\ proc'[q] = s /\ Others(q)
    BY <1>1 DEF Goes, Others
  <1>3. Handlers \subseteq Processes /\ Passes \subseteq Processes
    BY DEF Processes
  <1>4. ASSUME NEW h \in Handlers PROVE HandlerShape(proc'[h])
    <2>1. CASE h = q
      BY <1>2, <2>1 DEF Goes
    <2>2. CASE h # q
      BY <1>2, <1>3, <2>2 DEF Typed, Shape, Others
    <2> QED
      BY <2>1, <2>2
  <1>5. ASSUME NEW p \in Passes PROVE PassShape(proc'[p])
    <2>1. CASE p = q
      BY <1>2, <2>1 DEF Goes
    <2>2. CASE p # q
      BY <1>2, <1>3, <2>2 DEF Typed, Shape, Others
    <2> QED
      BY <2>1, <2>2
  <1> QED
    BY <1>2, <1>4, <1>5 DEF Shape

LEMMA TypedInit == Init => Typed
  <1> SUFFICES ASSUME Init PROVE Typed
    OBVIOUS
  <1>1. \A q \in Processes : proc[q] = Idle
    BY DEF Init
  <1>2. \A c \in Chats : Empty \in Record
    BY EmptyIsRecord
  <1>3. TypeOK
    BY <1>2, IdleIsIdle, BoundsAssumption DEF Init, TypeOK, Time
  <1>4. Shape
    BY <1>1, IdleShapes DEF Shape, Processes
  <1> QED
    BY <1>3, <1>4 DEF Typed

\* A command about a chat, answered or not.
LEMMA ReplyTyped ==
  ASSUME TypeOK, NEW r, NEW c \in Chats, Reply(r, c)
  PROVE  /\ spent' \in [requests : Nat, faults : Nat] /\ crossed' \subseteq Chats
         /\ crossed \subseteq crossed'
         /\ Answered(r) => crossed' = crossed
         /\ ~Answered(r) => c \in crossed'
         /\ \A d \in Chats \ {c} : d \in crossed' <=> d \in crossed
  BY DEF TypeOK, Reply

LEMMA MeetTyped ==
  ASSUME TypeOK, NEW p \in Processes, NEW c \in Chats, Meet(p, c)
  PROVE  /\ crossed' \subseteq Chats /\ crossed \subseteq crossed'
         /\ c \notin crossed' => \A q \in Processes \ {p} : ~Holds(q, c)
         /\ \A d \in Chats \ {c} : d \in crossed' <=> d \in crossed
  BY DEF TypeOK, Meet

-----------------------------------------------------------------------------
(***************************************************************************)
(* What each step leaves of the process that takes it, and that types hold. *)
(***************************************************************************)
\* All but the processes.
Globals ==
  /\ record \in [Chats -> Record]
  /\ watchers \subseteq Chats
  /\ cursor \in Nat \cup {None}
  /\ clock \in Time
  /\ promised \in [Chats -> SUBSET Pools]
  /\ stopped \subseteq Chats
  /\ heard \in [Chats -> Record]
  /\ soon \subseteq Chats
  /\ crossed \subseteq Chats
  /\ spent \in [requests : Nat, faults : Nat]

LEMMA TypedParts ==
  TypeOK <=> Globals /\ proc \in [Processes -> ProcessState]
  BY DEF TypeOK, Globals

\* What a step of one process has to show.
LEMMA TypedStep ==
  ASSUME Typed, Globals', NEW q \in Processes, NEW s, Goes(q, s)
  PROVE  Typed' /\ Others(q) /\ proc'[q] = s
  BY GoesTyped DEF Typed, TypeOK, Globals

LEMMA Kinds == Handlers \subseteq Processes /\ Passes \subseteq Processes
               /\ Handlers \cap Passes = {}
  BY ProcessAssumption DEF Processes

LEMMA FieldKinds ==
  ASSUME NEW s \in ProcessState
  PROVE  /\ s.at \in Steps /\ s.ask \in {"none", "watch", "unwatch", "stop"}
         /\ s.chat \in Chats \cup {None} /\ s.pool \in Pools \cup {None}
         /\ s.when \in Time /\ s.held \in Record /\ s.rest \subseteq Pools
         /\ s.listed \in [Chats -> Record] /\ s.todo \subseteq Chats /\ s.last \in Nat
  BY DEF ProcessState

\* A step that leaves of a process what it is about.
Keeps(q) ==
  /\ proc'[q].ask = proc[q].ask /\ proc'[q].chat = proc[q].chat
  /\ proc'[q].pool = proc[q].pool /\ proc'[q].when = proc[q].when
  /\ proc'[q].held = proc[q].held /\ proc'[q].listed = proc[q].listed

\* A step of a process of which only the place changes.
LEMMA OnGoes ==
  ASSUME Typed, Globals', NEW q \in Processes, NEW a \in Steps,
         proc' = [proc EXCEPT ![q] = [proc[q] EXCEPT !.at = a]],
         q \in Handlers => HandlerShape([proc[q] EXCEPT !.at = a]),
         q \in Passes => PassShape([proc[q] EXCEPT !.at = a])
  PROVE  Typed' /\ Others(q) /\ Keeps(q) /\ proc'[q].at = a
  <1> DEFINE s == [proc[q] EXCEPT !.at = a]
  <1>1. proc[q] \in ProcessState
    BY DEF Typed, TypeOK
  <1>2. s \in ProcessState
    BY <1>1, KindAt
  <1>3. /\ s.at = a /\ s.ask = proc[q].ask /\ s.chat = proc[q].chat /\ s.pool = proc[q].pool
        /\ s.when = proc[q].when /\ s.held = proc[q].held /\ s.listed = proc[q].listed
    BY <1>1 DEF ProcessState
  <1>4. Goes(q, s)
    BY <1>2 DEF Goes
  <1> HIDE DEF s
  <1> QED
    BY <1>3, <1>4, TypedStep DEF Keeps

\* A step with which a process ends.
LEMMA EndGoes ==
  ASSUME Typed, Globals', NEW q \in Processes, proc' = [proc EXCEPT ![q] = Idle]
  PROVE  Typed' /\ Others(q) /\ proc'[q] = Idle
  BY IdleIsIdle, IdleShapes, TypedStep DEF Goes

\* The shape of a request, and of a pass, that only goes on.
LEMMA HandlerOn ==
  ASSUME Typed, NEW h \in Handlers, NEW a \in HandlerSteps,
         \/ proc[h].at \in {"count", "write", "enter"} /\ a \in {"write", "enter"}
         \/ proc[h].at = "delete" /\ a = "leave"
  PROVE  HandlerShape([proc[h] EXCEPT !.at = a])
  <1> DEFINE s == [proc[h] EXCEPT !.at = a]
  <1>1. proc[h] \in ProcessState /\ HandlerShape(proc[h])
    BY Kinds DEF Typed, TypeOK, Shape
  <1>2. /\ s.at = a /\ s.ask = proc[h].ask /\ s.chat = proc[h].chat /\ s.pool = proc[h].pool
        /\ s.listed = proc[h].listed
    BY <1>1 DEF ProcessState
  <1> HIDE DEF s
  <1>3. HandlerShape(s)
    BY <1>1, <1>2 DEF HandlerShape, HandlerSteps
  <1> QED
    BY <1>3 DEF s

LEMMA PassOn ==
  ASSUME Typed, NEW p \in Passes, NEW a \in PassSteps,
         \/ proc[p].at \in {"write", "enter"} /\ a \in {"enter", "tell"}
         \/ proc[p].at = "list" /\ a = "tell"
  PROVE  PassShape([proc[p] EXCEPT !.at = a])
  <1> DEFINE s == [proc[p] EXCEPT !.at = a]
  <1>1. proc[p] \in ProcessState /\ PassShape(proc[p])
    BY Kinds DEF Typed, TypeOK, Shape
  <1>2. /\ s.at = a /\ s.chat = proc[p].chat /\ s.rest = proc[p].rest
        /\ s.held = proc[p].held
    BY <1>1 DEF ProcessState
  <1> HIDE DEF s
  <1>3. PassShape(s)
    BY <1>1, <1>2 DEF PassShape, PassSteps
  <1> QED
    BY <1>3 DEF s

\* A command about a chat, and what is told a chat, keep their types.
LEMMA TellTyped ==
  ASSUME Typed, NEW h \in Handlers, proc[h].at \in {"enter", "leave"}, Tell(h)
  PROVE  /\ promised' \in [Chats -> SUBSET Pools] /\ stopped' \subseteq Chats
         /\ heard' \in [Chats -> Record]
  <1>1. /\ HandlerShape(proc[h]) /\ proc[h] \in ProcessState
        /\ promised \in [Chats -> SUBSET Pools] /\ stopped \subseteq Chats
        /\ heard \in [Chats -> Record]
    BY Kinds DEF Typed, TypeOK, Shape
  <1>2. proc[h].chat \in Chats /\ proc[h].when \in Time
    BY <1>1, FieldKinds DEF HandlerShape
  <1>3. /\ proc[h].ask \in {"watch", "unwatch", "stop"}
        /\ proc[h].ask # "stop" => proc[h].pool \in Pools
    BY <1>1 DEF HandlerShape
  <1>4. stopped' \subseteq Chats
    BY <1>1, <1>2 DEF Tell
  <1>5. promised' \in [Chats -> SUBSET Pools]
    <2>1. CASE proc[h].ask = "watch"
      BY <1>1, <1>2, <1>3, <2>1 DEF Tell
    <2>2. CASE proc[h].ask = "unwatch"
      BY <1>1, <1>2, <1>3, <2>2 DEF Tell
    <2>3. CASE proc[h].ask = "stop"
      BY <1>1, <1>2, <1>3, <2>3 DEF Tell
    <2> QED
      BY <1>3, <2>1, <2>2, <2>3
  <1>6. heard' \in [Chats -> Record]
    <2>1. CASE proc[h].ask = "watch"
      <3>1. heard' = [heard EXCEPT ![proc[h].chat] = [heard[proc[h].chat] EXCEPT
                                                       ![proc[h].pool] = proc[h].when]]
        BY <2>1 DEF Tell
      <3>2. [heard[proc[h].chat] EXCEPT ![proc[h].pool] = proc[h].when] \in Record
        BY <1>1, <1>2, <1>3, <2>1, AddWatch
      <3> QED
        BY <1>1, <3>1, <3>2
    <2>2. CASE proc[h].ask # "watch"
      BY <1>1, <2>2 DEF Tell
    <2> QED
      BY <2>1, <2>2
  <1> QED
    BY <1>4, <1>5, <1>6

LEMMA WatchGoes ==
  ASSUME Typed, NEW h \in Handlers, NEW c \in Chats, NEW w \in Pools, Watch(h, c, w)
  PROVE  /\ Typed' /\ Others(h)
         /\ proc'[h].at = IF Watched(record[c]) = {} THEN "count" ELSE "write"
         /\ proc'[h].ask = "watch" /\ proc'[h].chat = c /\ proc'[h].pool = w
         /\ proc'[h].when = clock /\ proc'[h].held = [record[c] EXCEPT ![w] = clock]
         /\ proc'[h].listed = [d \in Chats |-> Empty]
  <1> DEFINE a == IF Watched(record[c]) = {} THEN "count" ELSE "write"
             r == [record[c] EXCEPT ![w] = clock]
             s == [Idle EXCEPT !.at = a, !.ask = "watch", !.chat = c, !.pool = w,
                               !.when = clock, !.held = r]
  <1>1. record[c] \in Record /\ clock \in Time
    BY DEF Typed, TypeOK
  <1>2. r \in Record
    BY <1>1, AddWatch
  <1>3. proc' = [proc EXCEPT ![h] = s]
    BY DEF Watch
  <1>4. a \in {"count", "write"}
    OBVIOUS
  <1> HIDE DEF a, r
  <1>5. s \in ProcessState
    <2> DEFINE i == Idle
    <2>1. i \in ProcessState /\ a \in Steps
      BY <1>4, IdleIsIdle DEF Steps
    <2> HIDE DEF i
    <2>2. [i EXCEPT !.at = a, !.ask = "watch", !.chat = c, !.pool = w, !.when = clock,
                    !.held = r] \in ProcessState
      BY <1>1, <1>2, <2>1, KindWatch
    <2> QED
      BY <2>2 DEF i
  <1>6. /\ s.at = a /\ s.ask = "watch" /\ s.chat = c /\ s.pool = w /\ s.when = clock
        /\ s.held = r /\ s.listed = [d \in Chats |-> Empty]
    BY DEF Idle
  <1> HIDE DEF s
  <1>7. HandlerShape(s)
    BY <1>4, <1>6 DEF HandlerShape, HandlerSteps
  <1>8. Goes(h, s)
    BY <1>3, <1>5, <1>7, Kinds DEF Goes
  <1>9. Globals'
    BY MeetTyped, Kinds DEF Watch, Begin, stored, Typed, TypeOK, Globals
  <1> QED
    BY <1>6, <1>8, <1>9, TypedStep, Kinds DEF a, r

LEMMA UnwatchGoes ==
  ASSUME Typed, NEW h \in Handlers, NEW c \in Chats, NEW w \in Pools, Unwatch(h, c, w)
  PROVE  /\ Typed' /\ Others(h)
         /\ LET kept == [record[c] EXCEPT ![w] = None] IN
            /\ proc'[h].at = IF kept = Empty THEN "delete" ELSE "write"
            /\ proc'[h].ask = "unwatch" /\ proc'[h].chat = c /\ proc'[h].pool = w
            /\ proc'[h].held = kept
            /\ proc'[h].listed = [d \in Chats |-> Empty]
  <1> DEFINE r == [record[c] EXCEPT ![w] = None]
             a == IF r = Empty THEN "delete" ELSE "write"
             s == [Idle EXCEPT !.at = a, !.ask = "unwatch", !.chat = c, !.pool = w, !.held = r]
  <1>1. record[c] \in Record
    BY DEF Typed, TypeOK
  <1>2. r \in Record
    BY <1>1, DropWatch
  <1>3. proc' = [proc EXCEPT ![h] = s]
    BY DEF Unwatch
  <1>4. a \in {"delete", "write"}
    OBVIOUS
  <1> HIDE DEF a, r
  <1>5. s \in ProcessState
    BY <1>2, <1>4, KindUnwatch, IdleIsIdle DEF Steps
  <1>6. /\ s.at = a /\ s.ask = "unwatch" /\ s.chat = c /\ s.pool = w
        /\ s.held = r /\ s.listed = [d \in Chats |-> Empty]
    BY DEF Idle
  <1> HIDE DEF s
  <1>7. HandlerShape(s)
    BY <1>4, <1>6 DEF HandlerShape, HandlerSteps
  <1>8. Goes(h, s)
    BY <1>3, <1>5, <1>7, Kinds DEF Goes
  <1>9. Globals'
    BY MeetTyped, Kinds DEF Unwatch, Begin, stored, Typed, TypeOK, Globals
  <1> QED
    BY <1>6, <1>8, <1>9, TypedStep, Kinds DEF a, r

LEMMA StopGoes ==
  ASSUME Typed, NEW h \in Handlers, NEW c \in Chats, Stop(h, c)
  PROVE  /\ Typed' /\ Others(h)
         /\ proc'[h].at = "delete" /\ proc'[h].ask = "stop" /\ proc'[h].chat = c
         /\ proc'[h].listed = [d \in Chats |-> Empty]
  <1> DEFINE s == [Idle EXCEPT !.at = "delete", !.ask = "stop", !.chat = c]
  <1>1. proc' = [proc EXCEPT ![h] = s]
    BY DEF Stop
  <1>2. s \in ProcessState
    BY KindStop, IdleIsIdle DEF Steps
  <1>3. /\ s.at = "delete" /\ s.ask = "stop" /\ s.chat = c
        /\ s.listed = [d \in Chats |-> Empty]
    BY DEF Idle
  <1> HIDE DEF s
  <1>4. HandlerShape(s)
    BY <1>3 DEF HandlerShape, HandlerSteps
  <1>5. Goes(h, s)
    BY <1>1, <1>2, <1>4, Kinds DEF Goes
  <1>6. Globals'
    BY MeetTyped, Kinds DEF Stop, Begin, stored, Typed, TypeOK, Globals
  <1> QED
    BY <1>3, <1>5, <1>6, TypedStep, Kinds

LEMMA CountGoes ==
  ASSUME Typed, NEW h \in Handlers, Count(h)
  PROVE  /\ Typed' /\ Others(h)
         /\ proc'[h] = Idle \/ (Keeps(h) /\ proc'[h].at = "write")
  <1>1. Globals'
    BY DEF Count, stored, history, Typed, TypeOK, Globals
  <1>2. CASE proc' = [proc EXCEPT ![h] = Idle]
    BY <1>1, <1>2, EndGoes, Kinds
  <1>3. CASE proc' = [proc EXCEPT ![h] = [proc[h] EXCEPT !.at = "write"]]
    <2>1. HandlerShape([proc[h] EXCEPT !.at = "write"])
      BY HandlerOn DEF Count, HandlerSteps
    <2> QED
      BY <1>1, <1>3, <2>1, OnGoes, Kinds DEF Steps
  <1> QED
    BY <1>2, <1>3 DEF Count

LEMMA CountUnansweredGoes ==
  ASSUME Typed, NEW h \in Handlers, CountUnanswered(h)
  PROVE  Typed' /\ Others(h) /\ proc'[h] = Idle
  <1>1. proc[h].chat \in Chats
    BY DEF Typed, Shape, HandlerShape, CountUnanswered
  <1>2. Globals'
    BY <1>1, ReplyTyped DEF CountUnanswered, stored, Typed, TypeOK, Globals
  <1>3. proc' = [proc EXCEPT ![h] = Idle]
    BY DEF CountUnanswered
  <1> QED
    BY <1>2, <1>3, EndGoes, Kinds

\* Of a process that is to write, enter, delete or leave, the chat is known.
LEMMA ChatKnown ==
  ASSUME Typed, NEW q \in Processes,
         proc[q].at \in {"write", "enter", "delete", "leave", "drop", "count"}
  PROVE  proc[q].chat \in Chats /\ proc[q].held \in Record
  <1>1. proc[q] \in ProcessState /\ (HandlerShape(proc[q]) \/ PassShape(proc[q]))
    BY DEF Typed, TypeOK, Shape, Processes
  <1> QED
    BY <1>1, FieldKinds DEF HandlerShape, PassShape, PassSteps

LEMMA WriteGoes ==
  ASSUME Typed, NEW q \in Processes, Write(q)
  PROVE  /\ Typed' /\ Others(q)
         /\ \E r \in Replies :
              /\ Reply(r, proc[q].chat)
              /\ record' = IF Applied(r) THEN [record EXCEPT ![proc[q].chat] = proc[q].held]
                           ELSE record
              /\ Answered(r) => Keeps(q) /\ proc'[q].at = "enter"
              /\ ~Answered(r) /\ q \in Passes => Keeps(q) /\ proc'[q].at = "tell"
              /\ ~Answered(r) /\ q \in Handlers => proc'[q] = Idle
  <1>1. PICK r \in Replies :
          /\ Reply(r, proc[q].chat)
          /\ record' = IF Applied(r) THEN [record EXCEPT ![proc[q].chat] = proc[q].held]
                       ELSE record
          /\ proc' = [proc EXCEPT ![q] =
               IF Answered(r) THEN [proc[q] EXCEPT !.at = "enter"]
               ELSE IF q \in Passes THEN [proc[q] EXCEPT !.at = "tell"] ELSE Idle]
    BY DEF Write
  <1>2. proc[q].chat \in Chats /\ proc[q].held \in Record
    BY ChatKnown DEF Write
  <1>3. record' \in [Chats -> Record]
    BY <1>1, <1>2 DEF Typed, TypeOK
  <1>4. Globals'
    BY <1>1, <1>2, <1>3, ReplyTyped DEF Write, Typed, TypeOK, Globals
  <1>5. CASE Answered(r)
    <2>1. proc' = [proc EXCEPT ![q] = [proc[q] EXCEPT !.at = "enter"]]
      BY <1>1, <1>5
    <2>2. q \in Handlers => HandlerShape([proc[q] EXCEPT !.at = "enter"])
      BY HandlerOn DEF Write, HandlerSteps
    <2>3. q \in Passes => PassShape([proc[q] EXCEPT !.at = "enter"])
      BY PassOn DEF Write, PassSteps
    <2>4. Typed' /\ Others(q) /\ Keeps(q) /\ proc'[q].at = "enter"
      BY <1>4, <2>1, <2>2, <2>3, OnGoes DEF Steps
    <2> QED
      BY <1>1, <1>5, <2>4
  <1>6. CASE ~Answered(r) /\ q \in Passes
    <2>1. proc' = [proc EXCEPT ![q] = [proc[q] EXCEPT !.at = "tell"]]
      BY <1>1, <1>6
    <2>2. PassShape([proc[q] EXCEPT !.at = "tell"])
      BY <1>6, PassOn DEF Write, PassSteps
    <2>3. Typed' /\ Others(q) /\ Keeps(q) /\ proc'[q].at = "tell"
      BY <1>4, <1>6, <2>1, <2>2, OnGoes, Kinds DEF Steps
    <2> QED
      BY <1>1, <1>6, <2>3, Kinds
  <1>7. CASE ~Answered(r) /\ q \notin Passes
    <2>1. Typed' /\ Others(q) /\ proc'[q] = Idle
      BY <1>1, <1>4, <1>7, EndGoes
    <2> QED
      BY <1>1, <1>7, <2>1
  <1> QED
    BY <1>5, <1>6, <1>7

LEMMA EnterGoes ==
  ASSUME Typed, NEW q \in Processes, Enter(q)
  PROVE  /\ Typed' /\ Others(q)
         /\ \E r \in Replies :
              /\ Reply(r, proc[q].chat)
              /\ watchers' = IF Applied(r) THEN watchers \cup {proc[q].chat} ELSE watchers
         /\ q \in Passes => Keeps(q) /\ proc'[q].at = "tell" /\ UNCHANGED <<promised, stopped, heard>>
         /\ q \in Handlers => proc'[q] = Idle /\ Tell(q)
  <1>1. PICK r \in Replies :
          /\ Reply(r, proc[q].chat)
          /\ watchers' = IF Applied(r) THEN watchers \cup {proc[q].chat} ELSE watchers
    BY DEF Enter
  <1>2. proc[q].chat \in Chats
    BY ChatKnown DEF Enter
  <1>3. CASE q \in Passes
    <2>1. proc' = [proc EXCEPT ![q] = [proc[q] EXCEPT !.at = "tell"]]
      BY <1>3 DEF Enter
    <2>2. UNCHANGED <<promised, stopped, heard>>
      BY <1>3 DEF Enter
    <2>3. Globals'
      BY <1>1, <1>2, <2>2, ReplyTyped DEF Enter, Typed, TypeOK, Globals
    <2>4. PassShape([proc[q] EXCEPT !.at = "tell"])
      BY <1>3, PassOn DEF Enter, PassSteps
    <2>5. Typed' /\ Others(q) /\ Keeps(q) /\ proc'[q].at = "tell"
      BY <1>3, <2>1, <2>3, <2>4, OnGoes, Kinds DEF Steps
    <2> QED
      BY <1>1, <1>3, <2>2, <2>5, Kinds
  <1>4. CASE q \notin Passes
    <2>1. q \in Handlers
      BY <1>4 DEF Processes
    <2>2. Tell(q) /\ proc' = [proc EXCEPT ![q] = Idle]
      BY <1>4 DEF Enter
    <2>3. Globals'
      BY <1>1, <1>2, <2>1, <2>2, ReplyTyped, TellTyped DEF Enter, Typed, TypeOK, Globals
    <2>4. Typed' /\ Others(q) /\ proc'[q] = Idle
      BY <2>2, <2>3, EndGoes
    <2> QED
      BY <1>1, <1>4, <2>2, <2>4
  <1> QED
    BY <1>3, <1>4

LEMMA DeleteGoes ==
  ASSUME Typed, NEW h \in Handlers, Delete(h)
  PROVE  /\ Typed' /\ Others(h) /\ Keeps(h) /\ proc'[h].at = "leave"
         /\ \E r \in Replies :
              /\ Reply(r, proc[h].chat)
              /\ record' = IF Applied(r) THEN [record EXCEPT ![proc[h].chat] = Empty] ELSE record
  <1>1. PICK r \in Replies :
          /\ Reply(r, proc[h].chat)
          /\ record' = IF Applied(r) THEN [record EXCEPT ![proc[h].chat] = Empty] ELSE record
    BY DEF Delete
  <1>2. proc[h].chat \in Chats /\ h \in Processes
    BY ChatKnown, Kinds DEF Delete
  <1>3. record' \in [Chats -> Record]
    BY <1>1, EmptyIsRecord DEF Typed, TypeOK
  <1>4. Globals'
    BY <1>1, <1>2, <1>3, ReplyTyped DEF Delete, Typed, TypeOK, Globals
  <1>5. proc' = [proc EXCEPT ![h] = [proc[h] EXCEPT !.at = "leave"]]
    BY <1>2 DEF Delete, Typed, TypeOK
  <1>6. HandlerShape([proc[h] EXCEPT !.at = "leave"])
    BY HandlerOn DEF Delete, HandlerSteps
  <1>7. Typed' /\ Others(h) /\ Keeps(h) /\ proc'[h].at = "leave"
    BY <1>2, <1>4, <1>5, <1>6, OnGoes, Kinds DEF Steps
  <1> QED
    BY <1>1, <1>7

LEMMA LeaveGoes ==
  ASSUME Typed, NEW h \in Handlers, Leave(h)
  PROVE  Typed' /\ Others(h) /\ proc'[h] = Idle
  <1>1. PICK r \in Replies :
          /\ Reply(r, proc[h].chat)
          /\ watchers' = IF Applied(r) THEN watchers \ {proc[h].chat} ELSE watchers
    BY DEF Leave
  <1>2. proc[h].chat \in Chats /\ h \in Processes
    BY ChatKnown, Kinds DEF Leave
  <1>3. proc' = [proc EXCEPT ![h] = Idle] /\ Tell(h)
    BY DEF Leave
  <1>4. Globals'
    BY <1>1, <1>2, <1>3, ReplyTyped, TellTyped DEF Leave, Typed, TypeOK, Globals
  <1> QED
    BY <1>2, <1>3, <1>4, EndGoes

LEMMA PassStartGoes ==
  ASSUME Typed, NEW p \in Passes, PassStart(p)
  PROVE  /\ Typed' /\ Others(p)
         /\ proc'[p].at = "list" /\ proc'[p].chat = None
         /\ proc'[p].listed = [d \in Chats |-> Empty]
  <1>1. PICK c \in watchers :
          LET after == IF cursor = None THEN c - 1 ELSE cursor IN
          proc' = [proc EXCEPT ![p] = [Idle EXCEPT
            !.at = "list", !.todo = Taken(watchers, after), !.last = after]]
    BY DEF PassStart
  <1> DEFINE after == IF cursor = None THEN c - 1 ELSE cursor
             S == Taken(watchers, after)
             s == [Idle EXCEPT !.at = "list", !.todo = S, !.last = after]
  <1>2. after \in Nat
    BY ChatsAssumption DEF Typed, TypeOK
  <1>3. S \subseteq Chats
    BY DEF Taken, Typed, TypeOK
  <1>4. proc' = [proc EXCEPT ![p] = s]
    BY <1>1
  <1> HIDE DEF after, S
  <1>5. s \in ProcessState
    BY <1>2, <1>3, KindList, IdleIsIdle DEF Steps
  <1>6. /\ s.at = "list" /\ s.chat = None /\ s.rest = {}
        /\ s.listed = [d \in Chats |-> Empty]
    BY DEF Idle
  <1> HIDE DEF s
  <1>7. PassShape(s)
    BY <1>6 DEF PassShape, PassSteps
  <1>8. Goes(p, s)
    BY <1>4, <1>5, <1>7, Kinds DEF Goes
  <1>9. Globals'
    BY DEF PassStart, stored, history, Typed, TypeOK, Globals
  <1> QED
    BY <1>6, <1>8, <1>9, TypedStep, Kinds

LEMMA PassListedGoes ==
  ASSUME Typed, NEW p \in Passes, PassListed(p)
  PROVE  Typed' /\ Others(p) /\ Keeps(p) /\ proc'[p].at = "tell"
  <1>1. proc \in [Processes -> ProcessState] /\ p \in Processes
    BY Kinds DEF Typed, TypeOK
  <1>2. proc' = [proc EXCEPT ![p] = [proc[p] EXCEPT !.at = "tell"]]
    BY <1>1 DEF PassListed
  <1>3. proc[p].last \in Nat
    BY <1>1, FieldKinds
  <1>4. Globals'
    BY <1>3 DEF PassListed, stored, history, Typed, TypeOK, Globals
  <1>5. PassShape([proc[p] EXCEPT !.at = "tell"])
    BY PassOn DEF PassListed, PassSteps
  <1> QED
    BY <1>1, <1>2, <1>4, <1>5, OnGoes, Kinds DEF Steps

LEMMA PassDropGoes ==
  ASSUME Typed, NEW p \in Passes, PassDrop(p)
  PROVE  /\ Typed' /\ Others(p)
         /\ proc'[p].at = "list" /\ proc'[p].chat = None /\ proc'[p].listed = proc[p].listed
  <1> DEFINE s == [proc[p] EXCEPT !.at = "list", !.chat = None]
  <1>1. /\ proc \in [Processes -> ProcessState] /\ p \in Processes /\ PassShape(proc[p])
        /\ proc[p].chat \in Chats
    BY Kinds, ChatKnown DEF Typed, TypeOK, Shape, PassDrop
  <1>2. proc' = [proc EXCEPT ![p] = s]
    BY <1>1 DEF PassDrop
  <1>3. s \in ProcessState
    BY <1>1, KindAtChat DEF Steps
  <1>4. s.at = "list" /\ s.chat = None /\ s.rest = proc[p].rest /\ s.listed = proc[p].listed
    BY <1>1 DEF ProcessState
  <1> HIDE DEF s
  <1>5. PassShape(s)
    BY <1>1, <1>4 DEF PassShape, PassSteps, PassDrop
  <1>6. Goes(p, s)
    BY <1>2, <1>3, <1>5, Kinds DEF Goes
  <1>7. PICK r \in Replies :
          /\ Reply(r, proc[p].chat)
          /\ watchers' = IF Applied(r) THEN watchers \ {proc[p].chat} ELSE watchers
    BY DEF PassDrop
  <1>8. Globals'
    BY <1>1, <1>7, ReplyTyped DEF PassDrop, Typed, TypeOK, Globals
  <1> QED
    BY <1>1, <1>4, <1>6, <1>8, TypedStep

\* What is set aside of a chat keeps its type.
LEMMA KindListed ==
  ASSUME NEW s \in ProcessState, NEW c \in Chats, NEW r \in Record
  PROVE  /\ [s EXCEPT !.listed[c] = r] \in ProcessState
         /\ [s EXCEPT !.listed[c] = r].listed = [s.listed EXCEPT ![c] = r]
         /\ [s EXCEPT !.listed[c] = r].at = s.at /\ [s EXCEPT !.listed[c] = r].chat = s.chat
         /\ [s EXCEPT !.listed[c] = r].rest = s.rest /\ [s EXCEPT !.listed[c] = r].held = s.held
  <1> DEFINE T == Time  N == Nat  l == [s.listed EXCEPT ![c] = r]
  <1>1. ProcessState = [at : Steps, ask : {"none", "watch", "unwatch", "stop"},
          chat : Chats \cup {None}, pool : Pools \cup {None}, when : T, held : Record,
          rest : SUBSET Pools, listed : [Chats -> Record], todo : SUBSET Chats, last : N]
    BY DEF ProcessState
  <1>2. l \in [Chats -> Record]
    BY FieldKinds
  <1>3. [s EXCEPT !.listed[c] = r] = [s EXCEPT !.listed = l]
    BY <1>1
  <1> HIDE DEF T, N, l
  <1>4. [s EXCEPT !.listed = l] \in ProcessState
    BY <1>1, <1>2
  <1>5. /\ [s EXCEPT !.listed = l].listed = l /\ [s EXCEPT !.listed = l].at = s.at
        /\ [s EXCEPT !.listed = l].chat = s.chat /\ [s EXCEPT !.listed = l].rest = s.rest
        /\ [s EXCEPT !.listed = l].held = s.held
    BY <1>1
  <1> QED
    BY <1>3, <1>4, <1>5 DEF l

LEMMA PassReadGoes ==
  ASSUME Typed, NEW p \in Passes, PassRead(p)
  PROVE  /\ Typed' /\ Others(p)
         /\ \/ /\ proc'[p].at = "list" /\ proc'[p].chat = None
               /\ proc'[p].listed = proc[p].listed
            \/ \E c \in Chats : /\ Meet(p, c) /\ record[c] = Empty
                                /\ proc'[p].at = "drop" /\ proc'[p].chat = c
                                /\ proc'[p].listed = proc[p].listed
            \/ \E c \in Chats : /\ Meet(p, c)
                                /\ proc'[p].at = "list" /\ proc'[p].chat = None
                                /\ proc'[p].listed = [proc[p].listed EXCEPT ![c] = record[c]]
         /\ \A d \in Chats : d \notin crossed' => d \notin crossed
  <1>1. PICK c \in proc[p].todo :
          LET r == record[c]
              read == [proc[p] EXCEPT !.todo = @ \ {c}, !.last = c] IN
          \/ /\ Reply("lost", c)
             /\ proc' = [proc EXCEPT ![p] = read]
          \/ /\ Meet(p, c) /\ UNCHANGED spent
             /\ proc' = [proc EXCEPT ![p] =
                  IF r = Empty THEN [read EXCEPT !.at = "drop", !.chat = c]
                  ELSE IF Fits(p, r) THEN [read EXCEPT !.listed[c] = r]
                  ELSE [proc[p] EXCEPT !.todo = {}]]
    BY DEF PassRead
  <1> DEFINE gone == proc[p].todo \ {c}
             read == [proc[p] EXCEPT !.todo = gone, !.last = c]
  <1>2. /\ proc[p] \in ProcessState /\ PassShape(proc[p]) /\ p \in Processes
        /\ proc[p].at = "list" /\ proc[p].chat = None /\ proc[p].rest = {}
    BY Kinds DEF Typed, TypeOK, Shape, PassShape, PassRead
  <1>3. gone \in SUBSET Chats /\ c \in Chats /\ c \in Nat
    BY <1>2, FieldKinds, ChatsAssumption
  <1> HIDE DEF gone
  <1>4. read \in ProcessState
    BY <1>2, <1>3, KindRead
  <1>5. /\ read.at = "list" /\ read.chat = None /\ read.rest = {}
        /\ read.listed = proc[p].listed
    BY <1>2 DEF ProcessState
  <1>6. record[c] \in Record
    BY <1>3 DEF Typed, TypeOK
  <1>7. \/ Reply("lost", c) /\ proc' = [proc EXCEPT ![p] = read]
        \/ /\ Meet(p, c) /\ UNCHANGED spent
           /\ proc' = [proc EXCEPT ![p] =
                IF record[c] = Empty THEN [read EXCEPT !.at = "drop", !.chat = c]
                ELSE IF Fits(p, record[c]) THEN [read EXCEPT !.listed[c] = record[c]]
                ELSE [proc[p] EXCEPT !.todo = {}]]
    BY <1>1 DEF gone
  <1> HIDE DEF read
  <1>8. Globals' /\ \A d \in Chats : d \notin crossed' => d \notin crossed
    <2>1. CASE Reply("lost", c)
      BY <1>3, <2>1, ReplyTyped DEF PassRead, stored, Typed, TypeOK, Globals
    <2>2. CASE Meet(p, c) /\ UNCHANGED spent
      BY <1>2, <1>3, <2>2, MeetTyped DEF PassRead, stored, Typed, TypeOK, Globals
    <2> QED
      BY <1>7, <2>1, <2>2
  <1>9. CASE Reply("lost", c) /\ proc' = [proc EXCEPT ![p] = read]
    <2>1. PassShape(read)
      BY <1>5 DEF PassShape, PassSteps
    <2>2. Goes(p, read)
      BY <1>4, <1>9, <2>1, Kinds DEF Goes
    <2> QED
      BY <1>2, <1>5, <1>8, <2>2, TypedStep
  <1>10. CASE /\ Meet(p, c) /\ record[c] = Empty
              /\ proc' = [proc EXCEPT ![p] = [read EXCEPT !.at = "drop", !.chat = c]]
    <2> DEFINE s == [read EXCEPT !.at = "drop", !.chat = c]
    <2>1. s \in ProcessState
      BY <1>3, <1>4, KindAtChat DEF Steps
    <2>2. s.at = "drop" /\ s.chat = c /\ s.rest = {} /\ s.listed = proc[p].listed
      BY <1>4, <1>5 DEF ProcessState
    <2>3. proc' = [proc EXCEPT ![p] = s]
      BY <1>10
    <2> HIDE DEF s
    <2>4. PassShape(s)
      BY <1>3, <2>2 DEF PassShape, PassSteps
    <2>5. Goes(p, s)
      BY <2>1, <2>3, <2>4, Kinds DEF Goes
    <2> QED
      BY <1>2, <1>3, <1>8, <1>10, <2>2, <2>5, TypedStep
  <1>11. CASE /\ Meet(p, c)
              /\ proc' = [proc EXCEPT ![p] = [read EXCEPT !.listed[c] = record[c]]]
    <2> DEFINE s == [read EXCEPT !.listed[c] = record[c]]
    <2>1. /\ s \in ProcessState /\ s.at = "list" /\ s.chat = None /\ s.rest = {}
          /\ s.listed = [proc[p].listed EXCEPT ![c] = record[c]]
      BY <1>3, <1>4, <1>5, <1>6, KindListed
    <2>3. proc' = [proc EXCEPT ![p] = s]
      BY <1>11
    <2> HIDE DEF s
    <2>4. PassShape(s)
      BY <2>1 DEF PassShape, PassSteps
    <2>5. Goes(p, s)
      BY <2>1, <2>3, <2>4, Kinds DEF Goes
    <2> QED
      BY <1>2, <1>3, <1>8, <1>11, <2>1, <2>5, TypedStep
  <1>12. CASE Meet(p, c) /\ proc' = [proc EXCEPT ![p] = [proc[p] EXCEPT !.todo = {}]]
    <2> DEFINE s == [proc[p] EXCEPT !.todo = {}]
    <2>1. s \in ProcessState
      BY <1>2, KindTodo
    <2>2. s.at = "list" /\ s.chat = None /\ s.rest = {} /\ s.listed = proc[p].listed
      BY <1>2 DEF ProcessState
    <2>3. proc' = [proc EXCEPT ![p] = s]
      BY <1>12
    <2> HIDE DEF s
    <2>4. PassShape(s)
      BY <2>2 DEF PassShape, PassSteps
    <2>5. Goes(p, s)
      BY <2>1, <2>3, <2>4, Kinds DEF Goes
    <2> QED
      BY <1>2, <1>8, <2>2, <2>5, TypedStep
  <1> QED
    BY <1>7, <1>9, <1>10, <1>11, <1>12

LEMMA PassChatGoes ==
  ASSUME Typed, NEW p \in Passes, PassChat(p)
  PROVE  /\ Typed' /\ Others(p)
         /\ \/ proc'[p] = Idle
            \/ \E c \in Listed(p) :
                 /\ proc'[p].at = "tell" /\ proc'[p].chat = c
                 /\ proc'[p].held = proc[p].listed[c]
                 /\ proc'[p].listed = [proc[p].listed EXCEPT ![c] = Empty]
  <1>1. proc \in [Processes -> ProcessState] /\ p \in Processes /\ proc[p].at = "tell"
    BY Kinds DEF Typed, TypeOK, PassChat
  <1>2. Globals'
    BY DEF PassChat, stored, history, Typed, TypeOK, Globals
  <1>3. CASE proc' = [proc EXCEPT ![p] = Idle]
    BY <1>1, <1>2, <1>3, EndGoes
  <1>4. CASE \E c \in Listed(p) :
          LET r == proc[p].listed[c]
              next == [proc[p] EXCEPT !.chat = c, !.held = r, !.rest = Watched(r),
                                      !.listed[c] = Empty] IN
          proc' = [proc EXCEPT ![p] = next]
    <2>1. PICK c \in Listed(p) :
          LET r == proc[p].listed[c]
              next == [proc[p] EXCEPT !.chat = c, !.held = r, !.rest = Watched(r),
                                      !.listed[c] = Empty] IN
          proc' = [proc EXCEPT ![p] = next]
      BY <1>4
    <2> DEFINE s == [proc[p] EXCEPT !.chat = c, !.held = proc[p].listed[c],
                               !.rest = Watched(proc[p].listed[c]),
                               !.listed = [proc[p].listed EXCEPT ![c] = Empty]]
    <2>2. c \in Chats /\ proc[p].listed[c] \in Record
      BY <1>1, FieldKinds DEF Listed
    <2>3. proc' = [proc EXCEPT ![p] = s]
      BY <2>1
    <2>4. /\ s \in ProcessState /\ s.at = "tell" /\ s.chat = c
          /\ s.held = proc[p].listed[c] /\ s.rest = Watched(proc[p].listed[c])
          /\ s.listed = [proc[p].listed EXCEPT ![c] = Empty]
      <3> DEFINE T == Time  N == Nat  u == proc[p]  r == u.listed[c]
                 l == [u.listed EXCEPT ![c] = Empty]  w == Watched(r)
      <3>1. ProcessState = [at : Steps, ask : {"none", "watch", "unwatch", "stop"},
              chat : Chats \cup {None}, pool : Pools \cup {None}, when : T, held : Record,
              rest : SUBSET Pools, listed : [Chats -> Record], todo : SUBSET Chats, last : N]
        BY DEF ProcessState
      <3>2. u \in ProcessState /\ r \in Record /\ w \in SUBSET Pools /\ u.at = "tell"
        BY <1>1, <2>2 DEF Watched
      <3>3. l \in [Chats -> Record]
        BY <3>2, FieldKinds, EmptyIsRecord
      <3>4. s = [u EXCEPT !.chat = c, !.held = r, !.rest = w, !.listed = l]
        OBVIOUS
      <3> HIDE DEF s, T, N, u, r, l, w
      <3>5. s \in ProcessState
        BY <2>2, <3>1, <3>2, <3>3, <3>4
      <3>6. s.at = "tell" /\ s.chat = c /\ s.held = r /\ s.rest = w /\ s.listed = l
        BY <3>1, <3>2, <3>4
      <3> QED
        BY <3>5, <3>6 DEF u, r, l, w
    <2> HIDE DEF s
    <2>5. PassShape(s)
      BY <2>2, <2>4 DEF PassShape, PassSteps
    <2>6. Goes(p, s)
      BY <2>3, <2>4, <2>5, Kinds DEF Goes
    <2>7. Typed' /\ Others(p) /\ proc'[p] = s
      BY <1>1, <1>2, <2>6, TypedStep
    <2> QED
      BY <2>1, <2>4, <2>7
  <1> QED
    BY <1>3, <1>4 DEF PassChat

LEMMA PassSkipGoes ==
  ASSUME Typed, NEW p \in Passes, PassSkip(p)
  PROVE  Typed' /\ Others(p) /\ Keeps(p) /\ proc'[p].at = "tell"
  <1>1. /\ proc \in [Processes -> ProcessState] /\ p \in Processes /\ PassShape(proc[p])
        /\ proc[p].at = "tell"
    BY Kinds DEF Typed, TypeOK, Shape, PassSkip
  <1>2. PICK w \in proc[p].rest : proc' = [proc EXCEPT ![p].rest = @ \ {w}]
    BY DEF PassSkip
  <1> DEFINE r == proc[p].rest \ {w}
             s == [proc[p] EXCEPT !.rest = r]
  <1>3. proc' = [proc EXCEPT ![p] = s]
    BY <1>1, <1>2
  <1>4. r \in SUBSET Pools
    BY <1>1, FieldKinds
  <1>5. r \subseteq Watched(proc[p].held) /\ proc[p].chat \in Chats
    BY <1>1 DEF PassShape
  <1> HIDE DEF r
  <1>6. s \in ProcessState
    BY <1>1, <1>4, KindRest
  <1>7. /\ s.at = proc[p].at /\ s.rest = r
        /\ s.ask = proc[p].ask /\ s.chat = proc[p].chat /\ s.pool = proc[p].pool
        /\ s.when = proc[p].when /\ s.held = proc[p].held /\ s.listed = proc[p].listed
    BY <1>1 DEF ProcessState
  <1> HIDE DEF s
  <1>8. PassShape(s)
    BY <1>1, <1>5, <1>7 DEF PassShape, PassSteps
  <1>9. Goes(p, s)
    BY <1>3, <1>6, <1>8, Kinds DEF Goes
  <1>10. Globals'
    BY DEF PassSkip, stored, history, Typed, TypeOK, Globals
  <1> QED
    BY <1>1, <1>7, <1>9, <1>10, TypedStep DEF Keeps

LEMMA PassTellGoes ==
  ASSUME Typed, NEW p \in Passes, PassTell(p)
  PROVE  /\ Typed' /\ Others(p)
         /\ proc[p].chat \in Chats
         /\ \E w \in Watched(proc[p].held), r \in {"done", "unheard"} :
              LET c == proc[p].chat IN
              /\ proc[p].held[w] \in Time
              /\ MayRetell(proc[p].held[w])
              /\ Reply(r, c)
              /\ soon' = IF heard[c][w] # None /\ clock < heard[c][w] + RetellAfter
                         THEN soon \cup {c} ELSE soon
              /\ heard' = [heard EXCEPT ![c] = [heard[c] EXCEPT ![w] = clock]]
              /\ proc'[p].chat = c /\ proc'[p].listed = proc[p].listed
              /\ Answered(r) => /\ proc'[p].at = "write"
                                /\ proc'[p].held = [proc[p].held EXCEPT ![w] = clock]
              /\ ~Answered(r) => proc'[p].at = "tell" /\ proc'[p].held = proc[p].held
  <1>1. /\ proc \in [Processes -> ProcessState] /\ p \in Processes /\ PassShape(proc[p])
        /\ proc[p].at = "tell" /\ clock \in Time
    BY Kinds DEF Typed, TypeOK, Shape, PassTell
  <1>2. PICK w \in proc[p].rest, r \in {"done", "unheard"} :
       LET c == proc[p].chat
           told == [proc[p] EXCEPT !.rest = @ \ {w},
             !.held = IF Answered(r) THEN Recorded(@, w) ELSE @,
             !.at = IF Answered(r) THEN "write" ELSE "tell"] IN
       /\ MayRetell(proc[p].held[w])
       /\ Reply(r, c)
       /\ proc' = [proc EXCEPT ![p] = told]
       /\ soon' = IF heard[c][w] # None /\ clock < heard[c][w] + RetellAfter
                  THEN soon \cup {c} ELSE soon
       /\ heard' = [heard EXCEPT ![c][w] = clock]
    BY DEF PassTell
  <1> DEFINE c == proc[p].chat
             rest == proc[p].rest \ {w}
             held == IF Answered(r) THEN [proc[p].held EXCEPT ![w] = clock] ELSE proc[p].held
             a == IF Answered(r) THEN "write" ELSE "tell"
             s == [proc[p] EXCEPT !.rest = rest, !.held = held, !.at = a]
  <1>3. proc' = [proc EXCEPT ![p] = s]
    BY <1>2 DEF Recorded
  <1>4. c \in Chats /\ w \in Pools /\ w \in Watched(proc[p].held) /\ proc[p].held \in Record
    BY <1>1, FieldKinds DEF PassShape
  <1>5. rest \in SUBSET Pools /\ rest \subseteq Watched(proc[p].held)
    BY <1>1, FieldKinds DEF PassShape
  <1>6. held \in Record /\ rest \subseteq Watched(held)
    BY <1>1, <1>4, <1>5, AddWatch
  <1>7. proc[p].held[w] \in Time
    BY <1>4 DEF Record, Watched
  <1>8. a \in {"write", "tell"}
    OBVIOUS
  <1> HIDE DEF rest, held, a
  <1>9. s \in ProcessState
    BY <1>1, <1>5, <1>6, <1>8, KindTell DEF Steps
  <1>10. /\ s.at = a /\ s.rest = rest /\ s.held = held /\ s.chat = c
         /\ s.listed = proc[p].listed
    BY <1>1 DEF ProcessState
  <1> HIDE DEF s
  <1>11. PassShape(s)
    BY <1>4, <1>6, <1>8, <1>10 DEF PassShape, PassSteps
  <1>12. Goes(p, s)
    BY <1>3, <1>9, <1>11, Kinds DEF Goes
  <1>13. heard' = [heard EXCEPT ![c] = [heard[c] EXCEPT ![w] = clock]]
    BY <1>2
  <1>14. heard' \in [Chats -> Record]
    <2>1. heard \in [Chats -> Record]
      BY DEF Typed, TypeOK
    <2>2. [heard[c] EXCEPT ![w] = clock] \in Record
      BY <1>1, <1>4, <2>1, AddWatch
    <2> QED
      BY <1>13, <2>1, <2>2
  <1>15. Reply(r, c) /\ TypeOK
    BY <1>2 DEF Typed
  <1>16. spent' \in [requests : Nat, faults : Nat] /\ crossed' \subseteq Chats
    BY <1>4, <1>15, ReplyTyped
  <1>17. soon' \subseteq Chats
    BY <1>2, <1>4 DEF Typed, TypeOK
  <1>18. Globals'
    BY <1>14, <1>16, <1>17 DEF PassTell, stored, Typed, TypeOK, Globals
  <1>19. Typed' /\ Others(p) /\ proc'[p] = s
    BY <1>1, <1>12, <1>18, TypedStep
  <1>20. /\ Answered(r) => s.at = "write" /\ s.held = [proc[p].held EXCEPT ![w] = clock]
         /\ ~Answered(r) => s.at = "tell" /\ s.held = proc[p].held
    BY <1>10 DEF a, held
  <1> QED
    BY <1>2, <1>4, <1>7, <1>10, <1>13, <1>19, <1>20

LEMMA TickTyped == Typed /\ Tick => Typed' /\ proc' = proc
  <1> SUFFICES ASSUME Typed, Tick PROVE Typed' /\ proc' = proc
    OBVIOUS
  <1>1. clock' \in Time
    BY BoundsAssumption DEF Tick, Time, Typed, TypeOK
  <1> QED
    BY <1>1 DEF Tick, stored, history, Typed, TypeOK, Shape, HandlerShape, PassShape

LEMMA CrashTyped == Typed /\ Crash => Typed' /\ \A q \in Processes : proc'[q] = Idle
  <1> SUFFICES ASSUME Typed, Crash PROVE Typed' /\ \A q \in Processes : proc'[q] = Idle
    OBVIOUS
  <1>1. proc' \in [Processes -> ProcessState] /\ \A q \in Processes : proc'[q] = Idle
    BY IdleIsIdle DEF Crash
  <1>2. spent' \in [requests : Nat, faults : Nat]
    BY DEF Crash, Typed, TypeOK
  <1>3. TypeOK'
    BY <1>1, <1>2 DEF Crash, stored, Typed, TypeOK
  <1>4. Shape'
    BY <1>1, IdleShapes, Kinds DEF Shape
  <1> QED
    BY <1>1, <1>3, <1>4 DEF Typed

LEMMA TypedNext == Typed /\ [Next]_vars => Typed'
  <1> SUFFICES ASSUME Typed, [Next]_vars PROVE Typed'
    OBVIOUS
  <1>1. ASSUME NEW h \in Handlers, NEW c \in Chats, Stop(h, c) PROVE Typed'
    BY <1>1, StopGoes
  <1>2. ASSUME NEW h \in Handlers, NEW c \in Chats, NEW w \in Pools, Watch(h, c, w)
        PROVE Typed'
    BY <1>2, WatchGoes
  <1>3. ASSUME NEW h \in Handlers, NEW c \in Chats, NEW w \in Pools, Unwatch(h, c, w)
        PROVE Typed'
    BY <1>3, UnwatchGoes
  <1>4. ASSUME NEW h \in Handlers, Serve(h) PROVE Typed'
    BY <1>4, CountGoes, CountUnansweredGoes, WriteGoes, EnterGoes, DeleteGoes, LeaveGoes, Kinds
       DEF Serve
  <1>5. ASSUME NEW p \in Passes, Walk(p) PROVE Typed'
    BY <1>5, PassStartGoes, PassReadGoes, PassDropGoes, PassListedGoes, PassChatGoes,
       PassSkipGoes, PassTellGoes, WriteGoes, EnterGoes, Kinds DEF Walk
  <1>6. CASE UNCHANGED vars
    BY <1>6 DEF vars, stored, history, Typed, TypeOK, Shape, HandlerShape, PassShape
  <1> QED
    BY <1>1, <1>2, <1>3, <1>4, <1>5, <1>6, TickTyped, CrashTyped DEF Next

LEMMA TypedAlways == Spec => []Typed
  BY TypedInit, TypedNext, PTL DEF Spec

\* Whatever is asked, and whatever is lost, every variable keeps its type.
THEOREM TypeCorrect == Spec => []TypeOK
  <1>1. Typed => TypeOK
    BY DEF Typed
  <1> QED
    BY <1>1, TypedAlways, PTL

-----------------------------------------------------------------------------
(***************************************************************************)
(* What is known of a chat of which nothing was done at once, or by half.   *)
(***************************************************************************)
\* A record names the pools the chat was told it follows, and when it was last
\* told of each.
AsTold(r, c) ==
  Watched(r) = promised[c] /\ \A w \in promised[c] : r[w] = heard[c][w]

Kept(c) == Watched(record[c]) = promised[c] /\ (c \in watchers <=> promised[c] # {})

\* One process at most is at something that concerns it.
Alone(c) == \A q, r \in Processes : Holds(q, c) /\ Holds(r, c) => q = r

\* Between its requests its record is kept, and is as told but while a pass is
\* about to write what it has just told.
Quiet(c) ==
  (\A h \in Handlers : proc[h].chat # c) =>
    /\ Kept(c)
    /\ (\A p \in Passes : ~(proc[p].chat = c /\ proc[p].at = "write")) => AsTold(record[c], c)

\* What a request of the chat holds, of the pools it leaves as they were.
OtherTimes(h, c) == \A v \in promised[c] \ {proc[h].pool} : proc[h].held[v] = heard[c][v]

Asked(h, c) ==
  LET s == proc[h] IN
  /\ s.at = "count" => Kept(c) /\ AsTold(record[c], c)
  /\ s.at \in {"count", "write", "enter"} =>
       /\ OtherTimes(h, c)
       /\ s.ask = "watch" => /\ Watched(s.held) = promised[c] \cup {s.pool}
                             /\ s.held[s.pool] = s.when
       /\ s.ask = "unwatch" => /\ Watched(s.held) = promised[c] \ {s.pool}
                               /\ promised[c] \ {s.pool} # {}
  /\ s.at \in {"delete", "leave"} /\ s.ask = "unwatch" => promised[c] \ {s.pool} = {}
  /\ s.at = "enter" => record[c] = s.held
  /\ s.at = "leave" => record[c] = Empty

\* What a pass has read of the chat, and what it holds.
Seen(p, c) ==
  LET s == proc[p] IN
  /\ Watched(s.listed[c]) # {} => AsTold(s.listed[c], c)
  /\ s.chat = c /\ s.at = "drop" => promised[c] = {}
  /\ s.chat = c /\ s.at \in {"tell", "write", "enter"} =>
       AsTold(s.held, c) /\ promised[c] # {} /\ Watched(s.listed[c]) = {}

About(c) ==
  /\ Alone(c)
  /\ Quiet(c)
  /\ \A h \in Handlers : proc[h].chat = c => Asked(h, c)
  /\ \A p \in Passes : Seen(p, c)
  /\ c \notin soon

InOrder == \A c \in Chats \ crossed : About(c)

-----------------------------------------------------------------------------
(***************************************************************************)
(* What of a step concerns a chat.                                         *)
(***************************************************************************)
\* A step that leaves what is kept of a chat, and what it was told.
Same(d) ==
  /\ record'[d] = record[d] /\ (d \in watchers' <=> d \in watchers)
  /\ promised'[d] = promised[d] /\ heard'[d] = heard[d]
  /\ d \in soon' => d \in soon

Settled(c) == Kept(c) /\ AsTold(record[c], c)

Free(q, c) == \A r \in Processes \ {q} : ~Holds(r, c)

LEMMA SameIsKept ==
  ASSUME NEW d, Same(d)
  PROVE  /\ Kept(d)' <=> Kept(d)
         /\ \A r : AsTold(r, d) <=> (Watched(r) = promised'[d]
                                      /\ \A w \in promised'[d] : r[w] = heard'[d][w])
         /\ AsTold(record[d], d)' <=> AsTold(record[d], d)
  BY DEF Same, Kept, AsTold, Watched

\* A step of another process leaves what one holds.
LEMMA OthersHold ==
  ASSUME NEW q, Others(q), NEW r \in Processes \ {q}, NEW c
  PROVE  /\ proc'[r] = proc[r]
         /\ Holds(r, c)' <=> Holds(r, c)
  BY DEF Others, Holds, Watched

LEMMA FreeAfter ==
  ASSUME NEW q, NEW c, Others(q), Free(q, c)
  PROVE  \A r \in Processes \ {q} : ~Holds(r, c)'
  BY OthersHold DEF Free

\* What a process that takes no part knows of a chat that is left as it was.
LEMMA AskedSame ==
  ASSUME NEW h, NEW c, Same(c), proc'[h] = proc[h], Asked(h, c)
  PROVE  Asked(h, c)'
  BY SameIsKept DEF Asked, OtherTimes, Same

LEMMA SeenSame ==
  ASSUME NEW p, NEW c, Same(c), proc'[p] = proc[p], Seen(p, c)
  PROVE  Seen(p, c)'
  BY DEF Seen, AsTold, Same, Watched

\* A request that only one process is about: what is left to show of the chat.
LEMMA OwnRequest ==
  ASSUME Typed', NEW h \in Handlers, NEW c \in Chats, Others(h), Free(h, c), c \notin soon',
         \/ proc'[h].chat = c /\ Asked(h, c)'
         \/ proc'[h].chat # c /\ Settled(c)'
  PROVE  About(c)'
  <1>1. \A r \in Processes \ {h} : ~Holds(r, c)'
    BY FreeAfter
  <1>2. Alone(c)'
    BY <1>1 DEF Alone
  <1>3. \A g \in Handlers : proc'[g].chat = c => Asked(g, c)'
    BY <1>1, Kinds DEF Holds
  <1>4. \A p \in Passes : ~Holds(p, c)' /\ proc'[p].chat # c /\ Seen(p, c)'
    BY <1>1, Kinds DEF Holds, Seen
  <1>5. Quiet(c)'
    BY <1>1, Kinds DEF Quiet, Settled
  <1> QED
    BY <1>2, <1>3, <1>4, <1>5 DEF About

LEMMA OwnPass ==
  ASSUME Typed', NEW p \in Passes, NEW c \in Chats, Others(p), Free(p, c), c \notin soon',
         Seen(p, c)', Kept(c)',
         ~(proc'[p].chat = c /\ proc'[p].at = "write") => AsTold(record[c], c)'
  PROVE  About(c)'
  <1>1. \A r \in Processes \ {p} : ~Holds(r, c)'
    BY FreeAfter
  <1>2. Alone(c)'
    BY <1>1 DEF Alone
  <1>3. \A h \in Handlers : proc'[h].chat # c
    BY <1>1, Kinds DEF Holds
  <1>4. \A r \in Passes : Seen(r, c)'
    BY <1>1, Kinds DEF Holds, Seen
  <1>5. Quiet(c)'
    BY Kinds DEF Quiet
  <1> QED
    BY <1>2, <1>3, <1>4, <1>5 DEF About

\* Requests of other chats.
LEMMA OtherRequest ==
  ASSUME Typed, Typed', NEW h \in Handlers, NEW d \in Chats, Others(h), Same(d), About(d),
         proc[h].chat # d, proc'[h].chat # d
  PROVE  About(d)'
  <1>1. ~Holds(h, d) /\ ~Holds(h, d)'
    BY Kinds, EmptyIsRecord DEF Typed, Shape, HandlerShape, Holds, Watched
  <1>2. Alone(d)'
    BY <1>1, OthersHold DEF Alone, About
  <1>3. \A g \in Handlers : proc'[g].chat = d => Asked(g, d)'
    BY OthersHold, AskedSame, Kinds DEF About
  <1>4. \A p \in Passes : Seen(p, d)' /\ proc'[p] = proc[p]
    BY OthersHold, SeenSame, Kinds DEF About
  <1>5. \A g \in Handlers : proc'[g].chat = d <=> proc[g].chat = d
    BY OthersHold, Kinds
  <1>6. Quiet(d)'
    BY <1>4, <1>5, SameIsKept DEF Quiet, About
  <1> QED
    BY <1>2, <1>3, <1>4, <1>6 DEF About, Same

\* Passes, and a chat of which nothing is written.
LEMMA PassMoves ==
  ASSUME Typed, Typed', NEW p \in Passes, NEW d \in Chats, Others(p), Same(d), About(d),
         Seen(p, d)', Holds(p, d)' => Holds(p, d) \/ Free(p, d),
         proc[p].chat = d /\ proc[p].at = "write" => proc'[p].chat = d /\ proc'[p].at = "write"
  PROVE  About(d)'
  <1>1. Alone(d)'
    BY OthersHold DEF Alone, About, Free
  <1>2. \A g \in Handlers : proc'[g] = proc[g]
    BY OthersHold, Kinds
  <1>3. \A g \in Handlers : proc'[g].chat = d => Asked(g, d)'
    BY <1>2, AskedSame DEF About
  <1>4. \A r \in Passes : Seen(r, d)'
    BY OthersHold, SeenSame, Kinds DEF About
  <1>5. \A r \in Passes : proc[r].chat = d /\ proc[r].at = "write"
                           => proc'[r].chat = d /\ proc'[r].at = "write"
    BY OthersHold, Kinds
  <1>6. Quiet(d)'
    BY <1>2, <1>5, SameIsKept DEF Quiet, About
  <1> QED
    BY <1>1, <1>3, <1>4, <1>6 DEF About, Same

-----------------------------------------------------------------------------
(***************************************************************************)
(* Each step keeps it.                                                     *)
(***************************************************************************)
\* Of a chat nothing was done at once of, it was not before.
LEMMA AboutBefore ==
  ASSUME InOrder, NEW d \in Chats, d \notin crossed
  PROVE  About(d) /\ d \notin soon
  BY DEF InOrder, About

\* A request that ends, or begins, with a chat it alone is about.
LEMMA SettledAlone ==
  ASSUME Typed, NEW h \in Handlers, NEW c \in Chats, About(c), Free(h, c), proc[h].chat # c
  PROVE  Settled(c)
  <1>1. \A g \in Handlers : proc[g].chat # c
    BY Kinds DEF Free, Holds
  <1>2. \A p \in Passes : proc[p].chat # c
    BY Kinds DEF Free, Holds
  <1> QED
    BY <1>1, <1>2 DEF About, Quiet, Settled

\* The process that holds a chat is alone about it.
LEMMA HolderFree ==
  ASSUME NEW q \in Processes, NEW c, Alone(c), Holds(q, c)
  PROVE  Free(q, c)
  BY DEF Alone, Free

LEMMA BeginKeeps ==
  ASSUME Typed, InOrder, NEW h \in Handlers, NEW c \in Chats, Begin(h, c), NEW d \in Chats,
         d \notin crossed'
  PROVE  /\ About(d) /\ Same(d) /\ d \notin soon' /\ proc[h].chat \notin Chats
         /\ d = c => Free(h, c) /\ Settled(c)
  <1>1. crossed \subseteq crossed' /\ (d = c => Free(h, c))
    BY MeetTyped, Kinds DEF Begin, Typed, Free
  <1>2. About(d) /\ d \notin soon
    BY <1>1, AboutBefore
  <1>3. Same(d)
    BY DEF Begin, Same, stored
  <1>4. proc[h].chat \notin Chats
    BY NullAssumption, ChatsAssumption DEF Begin, Typed, Shape, HandlerShape
  <1> QED
    BY <1>1, <1>2, <1>3, <1>4, SettledAlone DEF Same

LEMMA WatchKeeps ==
  ASSUME Typed, InOrder, NEW h \in Handlers, NEW c \in Chats, NEW w \in Pools, Watch(h, c, w),
         NEW d \in Chats, d \notin crossed'
  PROVE  About(d)'
  <1>1. Typed' /\ Others(h) /\ proc'[h].chat = c
    BY WatchGoes
  <1>2. Begin(h, c)
    BY DEF Watch
  <1>3. CASE d # c
    BY <1>1, <1>2, <1>3, BeginKeeps, OtherRequest
  <1>4. CASE d = c
    <2>1. Free(h, c) /\ Settled(c) /\ Same(c) /\ c \notin soon'
      BY <1>2, <1>4, BeginKeeps
    <2>2. record[c] \in Record /\ clock \in Time
      BY DEF Typed, TypeOK
    <2> DEFINE r == [record[c] EXCEPT ![w] = clock]
    <2>3. Watched(r) = Watched(record[c]) \cup {w} /\ r[w] = clock
          /\ \A v \in Pools \ {w} : r[v] = record[c][v]
      BY <2>2, AddWatch
    <2>4. /\ proc'[h].at \in {"count", "write"}
          /\ proc'[h].ask = "watch" /\ proc'[h].pool = w /\ proc'[h].when = clock
          /\ proc'[h].held = r
      BY WatchGoes
    <2> HIDE DEF r
    <2>5. promised'[c] \subseteq Pools /\ promised'[c] = promised[c] /\ heard'[c] = heard[c]
      BY <2>1 DEF Same, Typed, TypeOK
    <2>6. Kept(c)' /\ AsTold(record[c], c)'
      BY <2>1, SameIsKept DEF Settled
    <2>7. promised[c] \subseteq Pools /\ \A v \in promised[c] : record[c][v] = heard[c][v]
      BY <2>1, <2>5 DEF Settled, AsTold
    <2>8. /\ \A v \in promised[c] \ {w} : r[v] = heard[c][v]
          /\ Watched(r) = promised[c] \cup {w}
      BY <2>1, <2>3, <2>7 DEF Settled, Kept
    <2>9. Asked(h, c)'
      BY <2>3, <2>4, <2>5, <2>6, <2>8 DEF Asked, OtherTimes, Watched
    <2> QED
      BY <1>1, <1>4, <2>1, <2>9, OwnRequest
  <1> QED
    BY <1>3, <1>4

LEMMA UnwatchKeeps ==
  ASSUME Typed, InOrder, NEW h \in Handlers, NEW c \in Chats, NEW w \in Pools,
         Unwatch(h, c, w), NEW d \in Chats, d \notin crossed'
  PROVE  About(d)'
  <1>1. Typed' /\ Others(h) /\ proc'[h].chat = c
    BY UnwatchGoes
  <1>2. Begin(h, c)
    BY DEF Unwatch
  <1>3. CASE d # c
    BY <1>1, <1>2, <1>3, BeginKeeps, OtherRequest
  <1>4. CASE d = c
    <2>1. Free(h, c) /\ Settled(c) /\ Same(c) /\ c \notin soon'
      BY <1>2, <1>4, BeginKeeps
    <2>2. record[c] \in Record
      BY DEF Typed, TypeOK
    <2> DEFINE r == [record[c] EXCEPT ![w] = None]
    <2>3. /\ r \in Record /\ Watched(r) = Watched(record[c]) \ {w}
          /\ \A v \in Pools \ {w} : r[v] = record[c][v]
      BY <2>2, DropWatch
    <2>4. /\ proc'[h].at = IF r = Empty THEN "delete" ELSE "write"
          /\ proc'[h].ask = "unwatch" /\ proc'[h].pool = w /\ proc'[h].held = r
      BY UnwatchGoes
    <2> HIDE DEF r
    <2>5. promised'[c] \subseteq Pools /\ promised'[c] = promised[c] /\ heard'[c] = heard[c]
      BY <2>1 DEF Same, Typed, TypeOK
    <2>6. promised[c] \subseteq Pools /\ \A v \in promised[c] : record[c][v] = heard[c][v]
      BY <2>1, <2>5 DEF Settled, AsTold
    <2>7. /\ \A v \in promised[c] \ {w} : r[v] = heard[c][v]
          /\ Watched(r) = promised[c] \ {w}
      BY <2>1, <2>3, <2>6 DEF Settled, Kept
    <2>8. r = Empty <=> Watched(r) = {}
      BY <2>3, EmptyIsRecord, EmptyIsIt
    <2>9. Asked(h, c)'
      BY <2>4, <2>5, <2>7, <2>8 DEF Asked, OtherTimes, Watched
    <2> QED
      BY <1>1, <1>4, <2>1, <2>9, OwnRequest
  <1> QED
    BY <1>3, <1>4

LEMMA StopKeeps ==
  ASSUME Typed, InOrder, NEW h \in Handlers, NEW c \in Chats, Stop(h, c),
         NEW d \in Chats, d \notin crossed'
  PROVE  About(d)'
  <1>1. Typed' /\ Others(h) /\ proc'[h].chat = c
    BY StopGoes
  <1>2. Begin(h, c)
    BY DEF Stop
  <1>3. CASE d # c
    BY <1>1, <1>2, <1>3, BeginKeeps, OtherRequest
  <1>4. CASE d = c
    <2>1. Asked(h, c)'
      BY StopGoes DEF Asked
    <2> QED
      BY <1>1, <1>2, <1>4, <2>1, BeginKeeps, OwnRequest
  <1> QED
    BY <1>3, <1>4

LEMMA ServeOther ==
  ASSUME Typed, Typed', InOrder, NEW h \in Handlers, Others(h), NEW d \in Chats,
         d # proc[h].chat, d \notin crossed, Same(d),
         proc'[h] = Idle \/ proc'[h].chat = proc[h].chat
  PROVE  About(d)'
  <1>1. d # None
    BY NullAssumption, ChatsAssumption
  <1>2. proc'[h].chat # d
    BY <1>1, IdleIsIdle DEF IdleFields
  <1> QED
    BY <1>2, AboutBefore, OtherRequest

LEMMA ServeOwn ==
  ASSUME Typed, InOrder, NEW h \in Handlers, proc[h].chat \in Chats, proc[h].chat \notin crossed
  PROVE  /\ Free(h, proc[h].chat) /\ Asked(h, proc[h].chat) /\ proc[h].chat \notin soon
  <1>1. Holds(h, proc[h].chat) /\ h \in Processes
    BY Kinds DEF Holds
  <1>2. About(proc[h].chat) /\ proc[h].chat \notin soon
    BY AboutBefore
  <1> QED
    BY <1>1, <1>2, HolderFree DEF About

\* A request that ends leaves its chat settled.
LEMMA EndsOwn ==
  ASSUME Typed', NEW h \in Handlers, NEW c \in Chats, Others(h), Free(h, c), c \notin soon',
         proc'[h] = Idle, Settled(c)'
  PROVE  About(c)'
  <1>1. proc'[h].chat # c
    BY NullAssumption, ChatsAssumption, IdleIsIdle DEF IdleFields
  <1> QED
    BY <1>1, OwnRequest

LEMMA CountKeeps ==
  ASSUME Typed, InOrder, NEW h \in Handlers, Count(h), NEW d \in Chats, d \notin crossed'
  PROVE  About(d)'
  <1>1. Typed' /\ Others(h) /\ (proc'[h] = Idle \/ (Keeps(h) /\ proc'[h].at = "write"))
    BY CountGoes
  <1>2. Same(d) /\ d \notin crossed
    BY DEF Count, stored, history, Same
  <1>3. CASE d # proc[h].chat
    BY <1>1, <1>2, <1>3, ServeOther DEF Keeps
  <1>4. CASE d = proc[h].chat
    <2>1. Free(h, d) /\ Asked(h, d) /\ d \notin soon'
      BY <1>2, <1>4, ServeOwn DEF Same
    <2>2. Settled(d)'
      BY <1>2, <2>1, SameIsKept DEF Count, Asked, Settled
    <2>3. CASE proc'[h] = Idle
      BY <1>1, <2>1, <2>2, <2>3, EndsOwn
    <2>4. CASE Keeps(h) /\ proc'[h].at = "write"
      <3>1. Asked(h, d)'
        BY <1>2, <2>1, <2>4 DEF Count, Asked, OtherTimes, Keeps, Same, Watched
      <3> QED
        BY <1>1, <1>4, <2>1, <2>4, <3>1, OwnRequest DEF Keeps
    <2> QED
      BY <1>1, <2>3, <2>4
  <1> QED
    BY <1>3, <1>4

LEMMA CountUnansweredKeeps ==
  ASSUME Typed, InOrder, NEW h \in Handlers, CountUnanswered(h), NEW d \in Chats,
         d \notin crossed'
  PROVE  About(d)'
  <1>1. Typed' /\ Others(h) /\ proc'[h] = Idle
    BY CountUnansweredGoes
  <1>2. crossed' = crossed \cup {proc[h].chat}
    BY DEF CountUnanswered, Reply, Answered
  <1>3. Same(d)
    BY DEF CountUnanswered, stored, Same
  <1> QED
    BY <1>1, <1>2, <1>3, ServeOther

\* A command about the chat of a process, if the chat is not among the crossed
\* after it, is answered and done.
LEMMA ReplyOwn ==
  ASSUME NEW r \in Replies, NEW c, Reply(r, c)
  PROVE  /\ crossed \subseteq crossed'
         /\ c \notin crossed' => r = "done" /\ Answered(r) /\ Applied(r)
  BY DEF Replies, Reply, Answered, Applied

LEMMA WriteKeeps ==
  ASSUME Typed, InOrder, NEW h \in Handlers, Write(h), NEW d \in Chats, d \notin crossed'
  PROVE  About(d)'
  <1> DEFINE c == proc[h].chat
  <1>1. h \in Processes /\ h \notin Passes
    BY Kinds
  <1>2. Typed' /\ Others(h)
    BY <1>1, WriteGoes
  <1>3. PICK r \in Replies :
              /\ Reply(r, c)
              /\ record' = IF Applied(r) THEN [record EXCEPT ![c] = proc[h].held] ELSE record
              /\ Answered(r) => Keeps(h) /\ proc'[h].at = "enter"
              /\ ~Answered(r) => proc'[h] = Idle
    BY <1>1, WriteGoes
  <1>4. c \in Chats /\ proc[h].held \in Record /\ record \in [Chats -> Record]
    BY <1>1, ChatKnown DEF Write, Typed, TypeOK
  <1>5. d \notin crossed
    BY <1>3, ReplyOwn
  <1>6. UNCHANGED <<watchers, promised, heard, soon>>
    BY DEF Write
  <1>7. CASE d # c
    <2>1. record'[d] = record[d]
      BY <1>3, <1>4, <1>7
    <2> QED
      BY <1>2, <1>3, <1>5, <1>6, <1>7, <2>1, ServeOther DEF Same, Keeps
  <1>8. CASE d = c
    <2>1. Free(h, d) /\ Asked(h, d) /\ d \notin soon'
      BY <1>5, <1>6, <1>8, ServeOwn
    <2>2. record'[d] = proc[h].held /\ Keeps(h) /\ proc'[h].at = "enter"
      BY <1>3, <1>4, <1>8, ReplyOwn
    <2>3. Asked(h, d)'
      BY <1>6, <2>1, <2>2 DEF Write, Asked, OtherTimes, Keeps, Watched
    <2> QED
      BY <1>2, <1>8, <2>1, <2>2, <2>3, OwnRequest DEF Keeps
  <1> QED
    BY <1>7, <1>8

LEMMA EnterKeeps ==
  ASSUME Typed, InOrder, NEW h \in Handlers, Enter(h), NEW d \in Chats, d \notin crossed'
  PROVE  About(d)'
  <1> DEFINE c == proc[h].chat  s == proc[h]
  <1>1. h \in Processes /\ HandlerShape(s) /\ s.at = "enter"
    BY Kinds DEF Typed, Shape, Enter
  <1>2. Typed' /\ Others(h) /\ proc'[h] = Idle /\ Tell(h)
    BY <1>1, EnterGoes
  <1>3. PICK r \in Replies :
              /\ Reply(r, c)
              /\ watchers' = IF Applied(r) THEN watchers \cup {c} ELSE watchers
    BY <1>1, EnterGoes
  <1>4. /\ c \in Chats /\ s.held \in Record /\ s.pool \in Pools /\ s.ask \in {"watch", "unwatch"}
        /\ promised \in [Chats -> SUBSET Pools] /\ heard \in [Chats -> Record]
    BY <1>1, ChatKnown DEF HandlerShape, Typed, TypeOK
  <1>5. d \notin crossed
    BY <1>3, ReplyOwn
  <1>6. UNCHANGED <<record, soon>>
    BY DEF Enter
  <1>7. CASE d # c
    <2>1. promised'[d] = promised[d] /\ heard'[d] = heard[d]
      BY <1>2, <1>4, <1>7 DEF Tell
    <2> QED
      BY <1>2, <1>3, <1>5, <1>6, <1>7, <2>1, ServeOther DEF Same
  <1>8. CASE d = c
    <2>1. Free(h, d) /\ Asked(h, d) /\ d \notin soon'
      BY <1>5, <1>6, <1>8, ServeOwn
    <2>2. watchers' = watchers \cup {d}
      BY <1>3, <1>8, ReplyOwn
    <2>3. record'[d] = s.held /\ \A v \in promised[d] \ {s.pool} : s.held[v] = heard[d][v]
      BY <1>1, <1>6, <2>1 DEF Asked, OtherTimes
    <2>4. CASE s.ask = "watch"
      <3>1. promised'[d] = promised[d] \cup {s.pool}
        BY <1>2, <1>4, <1>8, <2>4 DEF Tell
      <3>2. heard' = [heard EXCEPT ![d][s.pool] = s.when]
        BY <1>2, <1>8, <2>4 DEF Tell
      <3>3. heard'[d][s.pool] = s.when
            /\ \A v \in Pools \ {s.pool} : heard'[d][v] = heard[d][v]
        BY <1>4, <1>8, <3>2 DEF Record
      <3>4. Watched(s.held) = promised[d] \cup {s.pool} /\ s.held[s.pool] = s.when
        BY <1>1, <2>1, <2>4 DEF Asked
      <3>5. promised[d] \subseteq Pools
        BY <1>4
      <3>6. \A v \in promised'[d] : s.held[v] = heard'[d][v]
        BY <2>3, <3>1, <3>3, <3>4, <3>5
      <3>7. Watched(record[d])' = promised'[d]
        BY <2>3, <3>1, <3>4 DEF Watched
      <3>8. Settled(d)'
        BY <2>2, <2>3, <3>1, <3>6, <3>7 DEF Settled, Kept, AsTold
      <3> QED
        BY <1>2, <2>1, <3>8, EndsOwn
    <2>5. CASE s.ask = "unwatch"
      <3>1. promised'[d] = promised[d] \ {s.pool} /\ heard' = heard
        BY <1>2, <1>4, <1>8, <2>5 DEF Tell
      <3>2. Watched(s.held) = promised[d] \ {s.pool} /\ promised[d] \ {s.pool} # {}
        BY <1>1, <2>1, <2>5 DEF Asked
      <3>3. Watched(record[d])' = promised'[d]
        BY <2>3, <3>1, <3>2 DEF Watched
      <3>4. Settled(d)'
        BY <2>2, <2>3, <3>1, <3>2, <3>3 DEF Settled, Kept, AsTold
      <3> QED
        BY <1>2, <2>1, <3>4, EndsOwn
    <2> QED
      BY <1>4, <2>4, <2>5
  <1> QED
    BY <1>7, <1>8

LEMMA DeleteKeeps ==
  ASSUME Typed, InOrder, NEW h \in Handlers, Delete(h), NEW d \in Chats, d \notin crossed'
  PROVE  About(d)'
  <1> DEFINE c == proc[h].chat
  <1>1. Typed' /\ Others(h) /\ Keeps(h) /\ proc'[h].at = "leave"
    BY DeleteGoes
  <1>2. PICK r \in Replies :
              /\ Reply(r, c)
              /\ record' = IF Applied(r) THEN [record EXCEPT ![c] = Empty] ELSE record
    BY DeleteGoes
  <1>3. c \in Chats /\ record \in [Chats -> Record]
    BY ChatKnown, Kinds DEF Delete, Typed, TypeOK
  <1>4. d \notin crossed
    BY <1>2, ReplyOwn
  <1>5. UNCHANGED <<watchers, promised, heard, soon>>
    BY DEF Delete
  <1>6. CASE d # c
    <2>1. record'[d] = record[d]
      BY <1>2, <1>3, <1>6
    <2> QED
      BY <1>1, <1>4, <1>5, <1>6, <2>1, ServeOther DEF Same, Keeps
  <1>7. CASE d = c
    <2>1. Free(h, d) /\ Asked(h, d) /\ d \notin soon'
      BY <1>4, <1>5, <1>7, ServeOwn
    <2>2. record'[d] = Empty
      BY <1>2, <1>3, <1>7, ReplyOwn
    <2>3. Asked(h, d)'
      BY <1>1, <1>5, <2>1, <2>2 DEF Delete, Asked, Keeps, Empty
    <2> QED
      BY <1>1, <1>7, <2>1, <2>3, OwnRequest DEF Keeps
  <1> QED
    BY <1>6, <1>7

LEMMA LeaveKeeps ==
  ASSUME Typed, InOrder, NEW h \in Handlers, Leave(h), NEW d \in Chats, d \notin crossed'
  PROVE  About(d)'
  <1> DEFINE c == proc[h].chat  s == proc[h]
  <1>1. HandlerShape(s) /\ s.at = "leave"
    BY DEF Typed, Shape, Leave
  <1>2. Typed' /\ Others(h) /\ proc'[h] = Idle /\ Tell(h)
    BY LeaveGoes DEF Leave
  <1>3. PICK r \in Replies :
              /\ Reply(r, c)
              /\ watchers' = IF Applied(r) THEN watchers \ {c} ELSE watchers
    BY DEF Leave
  <1>4. /\ c \in Chats /\ (s.ask = "stop" \/ (s.ask = "unwatch" /\ s.pool \in Pools))
        /\ promised \in [Chats -> SUBSET Pools] /\ heard \in [Chats -> Record]
    BY <1>1, ChatKnown, Kinds DEF HandlerShape, Typed, TypeOK
  <1>5. d \notin crossed
    BY <1>3, ReplyOwn
  <1>6. UNCHANGED <<record, soon>> /\ heard' = heard
    BY <1>2, <1>4 DEF Leave, Tell
  <1>7. CASE d # c
    <2>1. promised'[d] = promised[d]
      BY <1>2, <1>4, <1>7 DEF Tell
    <2> QED
      BY <1>2, <1>3, <1>5, <1>6, <1>7, <2>1, ServeOther DEF Same
  <1>8. CASE d = c
    <2>1. Free(h, d) /\ Asked(h, d) /\ d \notin soon'
      BY <1>5, <1>6, <1>8, ServeOwn
    <2>2. d \notin watchers'
      BY <1>3, <1>8, ReplyOwn
    <2>3. record'[d] = Empty
      BY <1>1, <1>6, <2>1 DEF Asked
    <2>4. promised'[d] = {}
      <3>1. CASE s.ask = "stop"
        BY <1>2, <1>4, <1>8, <3>1 DEF Tell
      <3>2. CASE s.ask = "unwatch"
        <4>1. promised'[d] = promised[d] \ {s.pool}
          BY <1>2, <1>4, <1>8, <3>2 DEF Tell
        <4> QED
          BY <1>1, <2>1, <3>2, <4>1 DEF Asked
      <3> QED
        BY <1>4, <3>1, <3>2
    <2>5. Watched(record[d])' = {}
      BY <2>3, NullAssumption DEF Watched, Empty
    <2>6. Settled(d)'
      BY <2>2, <2>4, <2>5 DEF Settled, Kept, AsTold
    <2> QED
      BY <1>2, <2>1, <2>6, EndsOwn
  <1> QED
    BY <1>7, <1>8

-----------------------------------------------------------------------------
\* A chat that one pass alone is at.
LEMMA PassOwn ==
  ASSUME Typed, InOrder, NEW p \in Passes, NEW c \in Chats, Holds(p, c), c \notin crossed
  PROVE  /\ About(c) /\ Free(p, c) /\ Seen(p, c) /\ Kept(c) /\ c \notin soon
         /\ ~(proc[p].chat = c /\ proc[p].at = "write") => AsTold(record[c], c)
  <1>1. About(c) /\ c \notin soon /\ p \in Processes
    BY AboutBefore, Kinds
  <1>2. Free(p, c)
    BY <1>1, HolderFree DEF About
  <1>3. \A r \in Processes \ {p} : proc[r].chat # c
    BY <1>2 DEF Free, Holds
  <1> QED
    BY <1>1, <1>2, <1>3, Kinds DEF About, Quiet

\* A chat that a pass begins with while no other process is at it.
LEMMA PassMeets ==
  ASSUME Typed, InOrder, NEW p \in Passes, NEW c \in Chats, Meet(p, c), c \notin crossed',
         proc[p].chat # c
  PROVE  Free(p, c) /\ Settled(c)
  <1>1. Free(p, c) /\ c \notin crossed
    BY MeetTyped, Kinds DEF Typed, Free
  <1>2. \A r \in Processes : proc[r].chat # c
    BY <1>1 DEF Free, Holds
  <1> QED
    BY <1>1, <1>2, AboutBefore, Kinds DEF About, Quiet, Settled

LEMMA NotNone == \A d \in Chats : d # None
  BY NullAssumption, ChatsAssumption

\* A pass that holds nothing of a chat knows nothing of it.
LEMMA SeenNothing ==
  ASSUME NEW p, NEW d, proc'[p].chat # d, Watched(proc'[p].listed[d]) = {}
  PROVE  Seen(p, d)' /\ ~Holds(p, d)'
  BY DEF Seen, Holds, Watched

LEMMA PassStartKeeps ==
  ASSUME Typed, InOrder, NEW p \in Passes, PassStart(p), NEW d \in Chats, d \notin crossed'
  PROVE  About(d)'
  <1>1. /\ Typed' /\ Others(p) /\ proc'[p].at = "list" /\ proc'[p].chat = None
        /\ proc'[p].listed = [c \in Chats |-> Empty]
    BY PassStartGoes
  <1>2. Same(d) /\ d \notin crossed
    BY DEF PassStart, stored, history, Same
  <1>3. Seen(p, d)' /\ ~Holds(p, d)'
    BY <1>1, NotNone, EmptyIsRecord, SeenNothing
  <1> QED
    BY <1>1, <1>2, <1>3, AboutBefore, PassMoves DEF PassStart

LEMMA PassReadKeeps ==
  ASSUME Typed, InOrder, NEW p \in Passes, PassRead(p), NEW d \in Chats, d \notin crossed'
  PROVE  About(d)'
  <1>1. /\ Typed' /\ Others(p)
        /\ \/ /\ proc'[p].at = "list" /\ proc'[p].chat = None
              /\ proc'[p].listed = proc[p].listed
           \/ \E c \in Chats : /\ Meet(p, c) /\ record[c] = Empty
                               /\ proc'[p].at = "drop" /\ proc'[p].chat = c
                               /\ proc'[p].listed = proc[p].listed
           \/ \E c \in Chats : /\ Meet(p, c)
                               /\ proc'[p].at = "list" /\ proc'[p].chat = None
                               /\ proc'[p].listed = [proc[p].listed EXCEPT ![c] = record[c]]
        /\ d \notin crossed
    BY PassReadGoes
  <1>2. Same(d)
    BY DEF PassRead, stored, Same
  <1>3. /\ proc[p].at = "list" /\ proc[p].chat # d /\ p \in Processes
        /\ proc[p].listed \in [Chats -> Record]
    BY NotNone, Kinds, FieldKinds DEF PassRead, Typed, TypeOK, Shape, PassShape
  <1>4. About(d) /\ Seen(p, d)
    BY <1>1, AboutBefore DEF About
  <1>5. CASE /\ proc'[p].at \in {"list", "drop"} /\ proc'[p].listed[d] = proc[p].listed[d]
             /\ proc'[p].chat # d
    <2>1. Seen(p, d)'
      BY <1>2, <1>4, <1>5 DEF Seen, AsTold, Same, Watched
    <2>2. Holds(p, d)' <=> Holds(p, d)
      BY <1>3, <1>5 DEF Holds, Watched
    <2> QED
      BY <1>1, <1>2, <1>3, <1>4, <2>1, <2>2, PassMoves
  <1>6. CASE /\ Meet(p, d) /\ record[d] = Empty
             /\ proc'[p].at = "drop" /\ proc'[p].chat = d /\ proc'[p].listed = proc[p].listed
    <2>1. Free(p, d) /\ Settled(d)
      BY <1>3, <1>6, PassMeets
    <2>2. promised[d] = {}
      BY <1>6, <2>1, EmptyIsRecord DEF Settled, Kept
    <2>3. Seen(p, d)'
      BY <1>2, <1>4, <1>6, <2>2 DEF Seen, AsTold, Same, Watched
    <2> QED
      BY <1>1, <1>2, <1>3, <1>4, <2>1, <2>3, PassMoves
  <1>7. CASE /\ Meet(p, d)
             /\ proc'[p].at = "list" /\ proc'[p].chat = None /\ proc'[p].listed[d] = record[d]
    <2>1. Free(p, d) /\ Settled(d)
      BY <1>3, <1>7, PassMeets
    <2>2. AsTold(record[d], d)'
      BY <1>2, <2>1, SameIsKept DEF Settled
    <2>3. Seen(p, d)'
      BY <1>2, <1>7, <2>2, NotNone DEF Seen, Same, AsTold, Watched
    <2> QED
      BY <1>1, <1>2, <1>3, <1>4, <2>1, <2>3, PassMoves
  <1> QED
    <2>1. CASE /\ proc'[p].at = "list" /\ proc'[p].chat = None
               /\ proc'[p].listed = proc[p].listed
      BY <1>5, <2>1, NotNone
    <2>2. ASSUME NEW c \in Chats, Meet(p, c), record[c] = Empty, proc'[p].at = "drop",
                 proc'[p].chat = c, proc'[p].listed = proc[p].listed
          PROVE  About(d)'
      BY <1>5, <1>6, <2>2
    <2>3. ASSUME NEW c \in Chats, Meet(p, c), proc'[p].at = "list", proc'[p].chat = None,
                 proc'[p].listed = [proc[p].listed EXCEPT ![c] = record[c]]
          PROVE  About(d)'
      BY <1>3, <1>5, <1>7, <2>3, NotNone
    <2> QED
      BY <1>1, <2>1, <2>2, <2>3

LEMMA PassDropKeeps ==
  ASSUME Typed, InOrder, NEW p \in Passes, PassDrop(p), NEW d \in Chats, d \notin crossed'
  PROVE  About(d)'
  <1>1. /\ Typed' /\ Others(p) /\ proc'[p].at = "list" /\ proc'[p].chat = None
        /\ proc'[p].listed = proc[p].listed
    BY PassDropGoes
  <1>2. PICK r \in Replies :
          /\ Reply(r, proc[p].chat)
          /\ watchers' = IF Applied(r) THEN watchers \ {proc[p].chat} ELSE watchers
    BY DEF PassDrop
  <1>3. UNCHANGED <<record, promised, heard, soon>> /\ proc[p].at = "drop"
    BY DEF PassDrop
  <1>4. d \notin crossed
    BY <1>2, ReplyOwn
  <1>5. About(d) /\ Seen(p, d) /\ d \notin soon
    BY <1>4, AboutBefore DEF About
  <1>6. Seen(p, d)'
    BY <1>1, <1>3, <1>5, NotNone DEF Seen, AsTold, Watched
  <1>7. CASE d # proc[p].chat
    <2>1. Same(d)
      BY <1>2, <1>3, <1>7 DEF Same
    <2>2. Holds(p, d)' => Holds(p, d)
      BY <1>1, NotNone DEF Holds, Watched
    <2> QED
      BY <1>1, <1>3, <1>5, <1>6, <2>1, <2>2, PassMoves
  <1>8. CASE d = proc[p].chat
    <2>1. /\ Free(p, d) /\ Kept(d) /\ AsTold(record[d], d) /\ promised[d] = {}
      BY <1>3, <1>4, <1>5, <1>8, PassOwn DEF Holds, Seen
    <2>2. d \notin watchers'
      BY <1>2, <1>8, ReplyOwn
    <2>3. Kept(d)' /\ AsTold(record[d], d)'
      BY <1>3, <2>1, <2>2 DEF Kept, AsTold, Watched
    <2> QED
      BY <1>1, <1>3, <1>5, <1>6, <2>1, <2>3, OwnPass
  <1> QED
    BY <1>7, <1>8

LEMMA PassListedKeeps ==
  ASSUME Typed, InOrder, NEW p \in Passes, PassListed(p), NEW d \in Chats, d \notin crossed'
  PROVE  About(d)'
  <1>1. Typed' /\ Others(p) /\ Keeps(p) /\ proc'[p].at = "tell"
    BY PassListedGoes
  <1>2. Same(d) /\ d \notin crossed
    BY DEF PassListed, stored, history, Same
  <1>3. proc[p].chat # d /\ proc[p].at = "list"
    BY NotNone DEF PassListed, Typed, Shape, PassShape
  <1>4. About(d) /\ Seen(p, d)
    BY <1>2, AboutBefore DEF About
  <1>5. Seen(p, d)'
    BY <1>1, <1>2, <1>3, <1>4 DEF Seen, AsTold, Same, Keeps, Watched
  <1>6. Holds(p, d)' => Holds(p, d)
    BY <1>1 DEF Holds, Keeps, Watched
  <1> QED
    BY <1>1, <1>2, <1>3, <1>4, <1>5, <1>6, PassMoves

LEMMA PassChatKeeps ==
  ASSUME Typed, InOrder, NEW p \in Passes, PassChat(p), NEW d \in Chats, d \notin crossed'
  PROVE  About(d)'
  <1>1. /\ Typed' /\ Others(p)
        /\ \/ proc'[p] = Idle
           \/ \E c \in Listed(p) :
                /\ proc'[p].at = "tell" /\ proc'[p].chat = c
                /\ proc'[p].held = proc[p].listed[c]
                /\ proc'[p].listed = [proc[p].listed EXCEPT ![c] = Empty]
    BY PassChatGoes
  <1>2. Same(d) /\ d \notin crossed /\ proc[p].at = "tell"
    BY DEF PassChat, stored, history, Same
  <1>3. About(d) /\ Seen(p, d) /\ proc[p].listed \in [Chats -> Record]
    BY <1>2, AboutBefore, Kinds, FieldKinds DEF About, Typed, TypeOK
  <1>4. CASE proc'[p] = Idle
    <2>1. Seen(p, d)' /\ ~Holds(p, d)'
      BY <1>4, NotNone, IdleIsIdle, EmptyIsRecord, SeenNothing DEF IdleFields
    <2> QED
      BY <1>1, <1>2, <1>3, <2>1, PassMoves
  <1>5. ASSUME NEW c \in Listed(p), proc'[p].at = "tell", proc'[p].chat = c,
               proc'[p].held = proc[p].listed[c],
               proc'[p].listed = [proc[p].listed EXCEPT ![c] = Empty]
        PROVE  About(d)'
    <2>1. c \in Chats /\ Watched(proc[p].listed[c]) # {}
      BY DEF Listed
    <2>2. Seen(p, d)' /\ (Holds(p, d)' => Holds(p, d))
      <3>1. CASE d = c
        <4>1. AsTold(proc[p].listed[c], c) /\ promised[c] # {} /\ Holds(p, d)
          BY <1>3, <2>1, <3>1 DEF Seen, AsTold, Holds
        <4>2. Watched(proc'[p].listed[c]) = {}
          BY <1>3, <1>5, <2>1, EmptyIsRecord
        <4>3. proc'[p].held = proc[p].listed[c] /\ proc'[p].at = "tell"
          BY <1>5
        <4> QED
          BY <1>2, <3>1, <4>1, <4>2, <4>3 DEF Seen, AsTold, Same, Watched
      <3>2. CASE d # c
        <4>1. proc'[p].listed[d] = proc[p].listed[d] /\ proc'[p].chat # d
          BY <1>3, <1>5, <3>2
        <4> QED
          BY <1>2, <1>3, <4>1 DEF Seen, AsTold, Same, Watched, Holds
      <3> QED
        BY <3>1, <3>2
    <2> QED
      BY <1>1, <1>2, <1>3, <2>2, PassMoves
  <1> QED
    BY <1>1, <1>4, <1>5

LEMMA PassSkipKeeps ==
  ASSUME Typed, InOrder, NEW p \in Passes, PassSkip(p), NEW d \in Chats, d \notin crossed'
  PROVE  About(d)'
  <1>1. Typed' /\ Others(p) /\ Keeps(p) /\ proc'[p].at = "tell"
    BY PassSkipGoes
  <1>2. Same(d) /\ d \notin crossed /\ proc[p].at = "tell"
    BY DEF PassSkip, stored, history, Same
  <1>3. About(d) /\ Seen(p, d)
    BY <1>2, AboutBefore DEF About
  <1>4. Seen(p, d)' /\ (Holds(p, d)' => Holds(p, d))
    BY <1>1, <1>2, <1>3 DEF Seen, AsTold, Same, Keeps, Watched, Holds
  <1> QED
    BY <1>1, <1>2, <1>3, <1>4, PassMoves

\* Told of one of its pools, a record that was as told still is.
LEMMA ToldNow ==
  ASSUME NEW x \in Record, NEW y \in Record, NEW t \in Time, NEW w \in Watched(x),
         \A v \in Watched(x) : x[v] = y[v]
  PROVE  /\ Watched([x EXCEPT ![w] = t]) = Watched(x)
         /\ \A v \in Watched(x) : [x EXCEPT ![w] = t][v] = [y EXCEPT ![w] = t][v]
  <1>1. w \in Pools /\ Watched(x) \subseteq Pools
    BY DEF Watched
  <1>2. Watched([x EXCEPT ![w] = t]) = Watched(x) \cup {w}
    BY <1>1, AddWatch
  <1> QED
    BY <1>1, <1>2 DEF Record

LEMMA PassTellKeeps ==
  ASSUME Typed, InOrder, NEW p \in Passes, PassTell(p), NEW d \in Chats, d \notin crossed'
  PROVE  About(d)'
  <1> DEFINE c == proc[p].chat  s == proc[p]
  <1>1. Typed' /\ Others(p) /\ c \in Chats
    BY PassTellGoes
  <1>2. PICK w \in Watched(s.held), r \in {"done", "unheard"} :
              /\ s.held[w] \in Time
              /\ MayRetell(s.held[w])
              /\ Reply(r, c)
              /\ soon' = IF heard[c][w] # None /\ clock < heard[c][w] + RetellAfter
                         THEN soon \cup {c} ELSE soon
              /\ heard' = [heard EXCEPT ![c] = [heard[c] EXCEPT ![w] = clock]]
              /\ proc'[p].chat = c /\ proc'[p].listed = s.listed
              /\ Answered(r) => /\ proc'[p].at = "write"
                                /\ proc'[p].held = [s.held EXCEPT ![w] = clock]
              /\ ~Answered(r) => proc'[p].at = "tell" /\ proc'[p].held = s.held
    BY PassTellGoes
  <1>3. UNCHANGED <<record, watchers, promised>> /\ s.at = "tell"
    BY DEF PassTell, stored
  <1>4. d \notin crossed
    BY <1>2, ReplyOwn DEF Replies
  <1>5. About(d) /\ Seen(p, d) /\ d \notin soon
    BY <1>4, AboutBefore DEF About
  <1>6. /\ heard \in [Chats -> Record] /\ clock \in Time /\ s.held \in Record
        /\ RetellAfter \in Nat /\ Time \subseteq Nat /\ w \in Pools
    BY BoundsAssumption, Kinds, FieldKinds DEF Typed, TypeOK, Time, Watched
  <1>7. CASE d # c
    <2>1. Same(d)
      BY <1>1, <1>2, <1>3, <1>6, <1>7 DEF Same
    <2>2. Seen(p, d)'
      BY <1>2, <1>5, <1>7, <2>1 DEF Seen, AsTold, Same, Watched
    <2>3. Holds(p, d)' => Holds(p, d)
      BY <1>2 DEF Holds, Watched
    <2> QED
      BY <1>1, <1>3, <1>5, <2>1, <2>2, <2>3, PassMoves
  <1>8. CASE d = c
    <2>1. Answered(r)
      BY <1>2, <1>8, ReplyOwn DEF Replies
    <2>2. /\ Free(p, d) /\ Kept(d) /\ AsTold(s.held, d) /\ promised[d] # {}
          /\ Watched(s.listed[d]) = {}
      BY <1>3, <1>4, <1>5, <1>8, PassOwn DEF Holds, Seen
    <2>3. heard[d][w] = s.held[w]
      BY <2>2 DEF AsTold
    <2>4. d \notin soon'
      <3>1. clock \in Nat /\ s.held[w] \in Nat /\ clock >= s.held[w] + RetellAfter
        BY <1>2, <1>6 DEF MayRetell
      <3>2. ~(clock < s.held[w] + RetellAfter)
        BY <1>6, <3>1
      <3> QED
        BY <1>2, <1>5, <1>8, <2>3, <3>2
    <2>5. heard'[d] = [heard[d] EXCEPT ![w] = clock] /\ heard[d] \in Record
      BY <1>2, <1>6, <1>8
    <2>6. /\ Watched(proc'[p].held) = promised[d]
          /\ \A v \in promised[d] : proc'[p].held[v] = heard'[d][v]
      <3>1. /\ promised[d] = Watched(s.held) /\ clock \in Time
            /\ \A v \in Watched(s.held) : s.held[v] = heard[d][v]
        BY <1>6, <2>2 DEF AsTold
      <3>2. /\ Watched([s.held EXCEPT ![w] = clock]) = Watched(s.held)
            /\ \A v \in Watched(s.held) :
                 [s.held EXCEPT ![w] = clock][v] = [heard[d] EXCEPT ![w] = clock][v]
        <4> DEFINE x == s.held  y == heard[d]
        <4>1. /\ x \in Record /\ y \in Record /\ w \in Watched(x)
              /\ \A v \in Watched(x) : x[v] = y[v]
          BY <1>6, <2>5, <3>1
        <4> HIDE DEF x, y
        <4>2. /\ Watched([x EXCEPT ![w] = clock]) = Watched(x)
              /\ \A v \in Watched(x) : [x EXCEPT ![w] = clock][v] = [y EXCEPT ![w] = clock][v]
          BY <3>1, <4>1, ToldNow
        <4> QED
          BY <4>2 DEF x, y
      <3>3. proc'[p].held = [s.held EXCEPT ![w] = clock]
        BY <1>2, <2>1
      <3> QED
        BY <2>5, <3>1, <3>2, <3>3
    <2>7. Seen(p, d)' /\ Kept(d)'
      BY <1>2, <1>3, <2>1, <2>2, <2>6 DEF Seen, Kept, AsTold, Watched
    <2>8. proc'[p].chat = d /\ proc'[p].at = "write"
      BY <1>2, <1>8, <2>1
    <2> QED
      BY <1>1, <2>2, <2>4, <2>7, <2>8, OwnPass
  <1> QED
    BY <1>7, <1>8

LEMMA PassWriteKeeps ==
  ASSUME Typed, InOrder, NEW p \in Passes, Write(p), NEW d \in Chats, d \notin crossed'
  PROVE  About(d)'
  <1> DEFINE c == proc[p].chat  s == proc[p]
  <1>1. p \in Processes /\ p \notin Handlers
    BY Kinds
  <1>2. Typed' /\ Others(p)
    BY <1>1, WriteGoes
  <1>3. PICK r \in Replies :
              /\ Reply(r, c)
              /\ record' = IF Applied(r) THEN [record EXCEPT ![c] = s.held] ELSE record
              /\ Answered(r) => Keeps(p) /\ proc'[p].at = "enter"
              /\ ~Answered(r) => Keeps(p) /\ proc'[p].at = "tell"
    BY <1>1, WriteGoes
  <1>4. c \in Chats /\ s.held \in Record /\ record \in [Chats -> Record] /\ s.at = "write"
    BY <1>1, ChatKnown DEF Write, Typed, TypeOK
  <1>5. UNCHANGED <<watchers, promised, heard, soon>>
    BY DEF Write
  <1>6. d \notin crossed
    BY <1>3, ReplyOwn
  <1>7. About(d) /\ Seen(p, d) /\ d \notin soon
    BY <1>6, AboutBefore DEF About
  <1>8. Seen(p, d)' /\ (Holds(p, d)' => Holds(p, d))
    BY <1>3, <1>4, <1>5, <1>7 DEF Seen, AsTold, Keeps, Watched, Holds
  <1>9. CASE d # c
    <2>1. Same(d)
      BY <1>3, <1>4, <1>5, <1>9 DEF Same
    <2> QED
      BY <1>2, <1>7, <1>8, <1>9, <2>1, PassMoves
  <1>10. CASE d = c
    <2>1. record'[d] = s.held
      BY <1>3, <1>4, <1>10, ReplyOwn
    <2>2. Free(p, d) /\ Kept(d) /\ AsTold(s.held, d)
      BY <1>4, <1>6, <1>7, <1>10, PassOwn DEF Holds, Seen
    <2>3. Kept(d)' /\ AsTold(record[d], d)'
      BY <1>5, <2>1, <2>2 DEF Kept, AsTold, Watched
    <2> QED
      BY <1>2, <1>5, <1>7, <1>8, <2>2, <2>3, OwnPass
  <1> QED
    BY <1>9, <1>10

LEMMA PassEnterKeeps ==
  ASSUME Typed, InOrder, NEW p \in Passes, Enter(p), NEW d \in Chats, d \notin crossed'
  PROVE  About(d)'
  <1> DEFINE c == proc[p].chat  s == proc[p]
  <1>1. p \in Processes
    BY Kinds
  <1>2. /\ Typed' /\ Others(p) /\ Keeps(p) /\ proc'[p].at = "tell"
        /\ UNCHANGED <<promised, heard>>
    BY <1>1, EnterGoes
  <1>3. PICK r \in Replies :
              /\ Reply(r, c)
              /\ watchers' = IF Applied(r) THEN watchers \cup {c} ELSE watchers
    BY <1>1, EnterGoes
  <1>4. UNCHANGED <<record, soon>> /\ s.at = "enter"
    BY DEF Enter
  <1>5. d \notin crossed
    BY <1>3, ReplyOwn
  <1>6. About(d) /\ Seen(p, d) /\ d \notin soon
    BY <1>5, AboutBefore DEF About
  <1>7. Seen(p, d)' /\ (Holds(p, d)' => Holds(p, d))
    BY <1>2, <1>4, <1>6 DEF Seen, AsTold, Keeps, Watched, Holds
  <1>8. CASE d # c
    <2>1. Same(d)
      BY <1>2, <1>3, <1>4, <1>8 DEF Same
    <2> QED
      BY <1>2, <1>4, <1>6, <1>7, <2>1, PassMoves
  <1>9. CASE d = c
    <2>1. d \in watchers'
      BY <1>3, <1>9, ReplyOwn
    <2>2. /\ Free(p, d) /\ Kept(d) /\ promised[d] # {} /\ AsTold(record[d], d)
      BY <1>4, <1>5, <1>6, <1>9, PassOwn DEF Holds, Seen
    <2>3. Kept(d)' /\ AsTold(record[d], d)'
      BY <1>2, <1>4, <2>1, <2>2 DEF Kept, AsTold, Watched
    <2> QED
      BY <1>2, <1>4, <1>6, <1>7, <2>2, <2>3, OwnPass
  <1> QED
    BY <1>8, <1>9

LEMMA CrashKeeps ==
  ASSUME Typed, InOrder, Crash, NEW d \in Chats, d \notin crossed'
  PROVE  About(d)'
  <1>1. \A q \in Processes : proc'[q] = Idle
    BY CrashTyped
  <1>2. d \notin crossed /\ \A q \in Processes : ~Holds(q, d)
    BY DEF Crash
  <1>3. About(d) /\ d \notin soon
    BY <1>2, AboutBefore
  <1>4. Same(d)
    BY DEF Crash, stored, Same
  <1>5. Settled(d)
    <2>1. \A q \in Processes : proc[q].chat # d
      BY <1>2 DEF Holds
    <2> QED
      BY <1>3, <2>1, Kinds DEF About, Quiet, Settled
  <1>6. \A q \in Processes : ~Holds(q, d)' /\ Seen(q, d)' /\ proc'[q].chat # d
    BY <1>1, NotNone, IdleIsIdle, EmptyIsRecord, SeenNothing DEF IdleFields
  <1>7. Kept(d)' /\ AsTold(record[d], d)'
    BY <1>4, <1>5, SameIsKept DEF Settled
  <1>8. Alone(d)'
    BY <1>6 DEF Alone
  <1>9. Quiet(d)'
    BY <1>7 DEF Quiet
  <1> QED
    BY <1>3, <1>4, <1>6, <1>8, <1>9, Kinds DEF About, Same

LEMMA StillKeeps ==
  ASSUME InOrder, UNCHANGED <<stored, proc, history>>, NEW d \in Chats, d \notin crossed'
  PROVE  About(d)'
  <1>1. About(d)
    BY DEF InOrder, history
  <1> QED
    BY <1>1 DEF stored, history, About, Alone, Quiet, Kept, AsTold, Asked, OtherTimes, Seen,
                Holds, Watched

-----------------------------------------------------------------------------
LEMMA InOrderInit == Init => InOrder
  <1> SUFFICES ASSUME Init, NEW d \in Chats PROVE About(d)
    BY DEF InOrder
  <1>1. \A q \in Processes : proc[q] = Idle
    BY DEF Init
  <1>2. \A q \in Processes : ~Holds(q, d) /\ Seen(q, d) /\ proc[q].chat # d
    BY <1>1, NotNone, IdleIsIdle, EmptyIsRecord DEF IdleFields, Holds, Seen
  <1>3. Kept(d) /\ AsTold(record[d], d)
    BY EmptyIsRecord DEF Init, Kept, AsTold
  <1>4. d \notin soon
    BY DEF Init
  <1> QED
    BY <1>2, <1>3, <1>4, Kinds DEF About, Alone, Quiet

LEMMA InOrderNext == Typed /\ InOrder /\ [Next]_vars => InOrder'
  <1> SUFFICES ASSUME Typed, InOrder, [Next]_vars, NEW d \in Chats, d \notin crossed'
               PROVE  About(d)'
    BY DEF InOrder
  <1>1. ASSUME NEW h \in Handlers, NEW c \in Chats, Stop(h, c) PROVE About(d)'
    BY <1>1, StopKeeps
  <1>2. ASSUME NEW h \in Handlers, NEW c \in Chats, NEW w \in Pools, Watch(h, c, w)
        PROVE  About(d)'
    BY <1>2, WatchKeeps
  <1>3. ASSUME NEW h \in Handlers, NEW c \in Chats, NEW w \in Pools, Unwatch(h, c, w)
        PROVE  About(d)'
    BY <1>3, UnwatchKeeps
  <1>4. ASSUME NEW h \in Handlers, Serve(h) PROVE About(d)'
    BY <1>4, CountKeeps, CountUnansweredKeeps, WriteKeeps, EnterKeeps, DeleteKeeps, LeaveKeeps
       DEF Serve
  <1>5. ASSUME NEW p \in Passes, Walk(p) PROVE About(d)'
    BY <1>5, PassStartKeeps, PassReadKeeps, PassDropKeeps, PassListedKeeps, PassChatKeeps,
       PassSkipKeeps, PassTellKeeps, PassWriteKeeps, PassEnterKeeps DEF Walk
  <1>6. CASE Tick \/ UNCHANGED vars
    BY <1>6, StillKeeps DEF Tick, vars
  <1>7. CASE Crash
    BY <1>7, CrashKeeps
  <1> QED
    BY <1>1, <1>2, <1>3, <1>4, <1>5, <1>6, <1>7 DEF Next

LEMMA InOrderAlways == Spec => []InOrder
  BY InOrderInit, InOrderNext, TypedAlways, PTL DEF Spec

\* Of a chat of which nothing was done at once, and nothing by half, the record
\* and the set of watchers are as the chat was told, however its requests and
\* the passes before followed each other.
THEOREM KeptIfInOrder == Spec => []InOrderIsKept
  <1>1. InOrder => InOrderIsKept
    BY DEF InOrder, InOrderIsKept, About, Quiet, Kept
  <1> QED
    BY <1>1, InOrderAlways, PTL

\* And no pass tells it of a pool within a day of when it was last told of it.
THEOREM OnceADayIfInOrder == Spec => []InOrderOnceADay
  <1>1. TypeOK /\ InOrder => InOrderOnceADay
    BY DEF TypeOK, InOrder, InOrderOnceADay, About
  <1> QED
    BY <1>1, InOrderAlways, TypeCorrect, PTL
=============================================================================
