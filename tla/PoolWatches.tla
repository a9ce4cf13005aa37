------------------------------ MODULE PoolWatches ------------------------------
(***************************************************************************)
(* The pools a chat of the Telegram bot follows: the store's side           *)
(* (src/lib/telegram/poolWatches.ts), /watch, /unwatch and /stop            *)
(* (handleUpdate.ts), and the pass that tells a chat when a pool's range    *)
(* has moved (checkWatches.ts, poolRangeShift.ts), a few chats at a time    *)
(* and in turn (rotation in links.ts).                                      *)
(*                                                                          *)
(* A chat is two things in the store that no transaction ties together: its *)
(* record and its place in the set of watchers.  One action is one command  *)
(* of the store, or one message.                                            *)
(*                                                                          *)
(* Of a record, which pools it names and when each was told is kept; the    *)
(* range told is not, and whether a range has moved is left open.           *)
(***************************************************************************)
EXTENDS Naturals, FiniteSets

CONSTANTS
  Chats,        \* numbered in the order of their ids
  Pools,
  Handlers,     \* requests the server is answering at one time
  Passes,       \* scheduled passes that may run at one time
  MaxWatches,   \* MAX_POOL_WATCHES
  MaxWatchers,  \* MAX_POOL_WATCHERS
  Budget,       \* POOLS_PER_PASS
  RetellAfter,  \* POOL_RANGE_RETELL_MS
  MaxClock,     \* bound on the clock
  MaxRequests,  \* bound on requests of chats
  MaxFaults,    \* bound on restarts, and commands and messages not answered
  None          \* no chat, no pool, and the time of a pool not followed

ASSUME BoundsAssumption ==
  /\ {MaxWatches, MaxWatchers, Budget, RetellAfter} \subseteq Nat \ {0}
  /\ {MaxClock, MaxRequests, MaxFaults} \subseteq Nat
ASSUME ChatsAssumption == Chats \subseteq Nat \ {0}
ASSUME PoolsAssumption == IsFiniteSet(Pools)
ASSUME NullAssumption == None \notin Nat \cup Pools
ASSUME ProcessAssumption == Handlers \cap Passes = {}

VARIABLES
  record,       \* of each chat, when each pool it follows was last told
  watchers,     \* the set of chats the pass walks
  cursor,       \* the chat the last pass ended with
  proc,         \* what each request and each pass is doing
  clock,
  promised,     \* the pools each chat was told it follows       (history)
  stopped,      \* chats told "stopped", that did not ask since  (history)
  heard,        \* when each chat was last told of each pool     (history)
  soon,         \* chats told of a pool again too soon           (history)
  crossed,      \* chats of which two things were done at once, or half of one (history)
  spent         \* requests and faults so far

stored  == <<record, watchers>>
history == <<promised, stopped, heard, soon, crossed>>
vars    == <<stored, cursor, proc, clock, history, spent>>

Processes == Handlers \cup Passes
Time == 0..MaxClock

-----------------------------------------------------------------------------
\* A record that names no pool is one that is not there.
Record == [Pools -> Time \cup {None}]
Empty  == [w \in Pools |-> None]
Watched(r) == {w \in Pools : r[w] # None}

Steps == {"idle", "count", "write", "enter", "delete", "leave",
          "list", "drop", "tell"}

Idle == [at |-> "idle", ask |-> "none", chat |-> None, pool |-> None, when |-> 0,
         held |-> Empty, rest |-> {}, listed |-> [c \in Chats |-> Empty],
         todo |-> {}, last |-> 0]

ProcessState ==
  [at   : Steps,
   ask  : {"none", "watch", "unwatch", "stop"},
   chat : Chats \cup {None},
   pool : Pools \cup {None},
   when : Time,
   held : Record,                 \* the record to be written
   rest : SUBSET Pools,           \* pools of the chat the pass has still to see
   listed : [Chats -> Record],    \* records the pass has read and not come to
   todo : SUBSET Chats,           \* chats it has still to read
   last : Nat]                    \* the chat it read last

TypeOK ==
  /\ record \in [Chats -> Record]
  /\ watchers \subseteq Chats
  /\ cursor \in Nat \cup {None}
  /\ proc \in [Processes -> ProcessState]
  /\ clock \in Time
  /\ promised \in [Chats -> SUBSET Pools]
  /\ stopped \subseteq Chats
  /\ heard \in [Chats -> Record]
  /\ soon \subseteq Chats
  /\ crossed \subseteq Chats
  /\ spent \in [requests : Nat, faults : Nat]

Init ==
  /\ record = [c \in Chats |-> Empty]
  /\ watchers = {}
  /\ cursor = None
  /\ proc = [q \in Processes |-> Idle]
  /\ clock = 0
  /\ promised = [c \in Chats |-> {}]
  /\ stopped = {}
  /\ heard = [c \in Chats |-> Empty]
  /\ soon = {}
  /\ crossed = {}
  /\ spent = [requests |-> 0, faults |-> 0]

-----------------------------------------------------------------------------
(***************************************************************************)
(* The store, as redisKeyValueStore.ts answers for the Redis behind it     *)
(* (external): a command is answered and done, or not answered,            *)
(* and then it was done or was not.  A read that is not answered is lost.  *)
(***************************************************************************)
Replies == {"done", "lost", "unheard"}

Answered(r) == r = "done"
Applied(r)  == r # "lost"

\* A command about chat c is answered with r; one that is not is set down as
\* half of something done.
Reply(r, c) ==
  IF Answered(r) THEN UNCHANGED <<spent, crossed>>
  ELSE /\ spent.faults < MaxFaults
       /\ spent' = [spent EXCEPT !.faults = @ + 1]
       /\ crossed' = crossed \cup {c}

\* Process q is at something that concerns chat c.
Holds(q, c) == proc[q].chat = c \/ Watched(proc[q].listed[c]) # {}

\* Another process is, as process p begins with it.
Meet(p, c) ==
  crossed' = IF \E q \in Processes \ {p} : Holds(q, c) THEN crossed \cup {c} ELSE crossed

-----------------------------------------------------------------------------
(***************************************************************************)
(* The requests of a chat, each beginning with the read of its record.     *)
(* Those that the read ends change nothing and are left out.               *)
(***************************************************************************)
Begin(h, c) ==
  /\ proc[h].at = "idle"
  /\ spent.requests < MaxRequests
  /\ spent' = [spent EXCEPT !.requests = @ + 1]
  /\ Meet(h, c)
  /\ UNCHANGED <<stored, cursor, clock, promised, heard, soon>>

\* addPoolWatch
Watch(h, c, w) ==
  /\ Begin(h, c)
  /\ Cardinality(Watched(record[c]) \ {w}) < MaxWatches
  /\ proc' = [proc EXCEPT ![h] = [Idle EXCEPT
       !.at = IF Watched(record[c]) = {} THEN "count" ELSE "write",
       !.ask = "watch", !.chat = c, !.pool = w, !.when = clock,
       !.held = [record[c] EXCEPT ![w] = clock]]]
  /\ stopped' = stopped \ {c}

\* A chat that follows nothing yet is turned away once there are too many.
Count(h) ==
  /\ proc[h].at = "count"
  /\ proc' = [proc EXCEPT ![h] =
       IF Cardinality(watchers) < MaxWatchers THEN [@ EXCEPT !.at = "write"] ELSE Idle]
  /\ UNCHANGED <<stored, cursor, clock, history, spent>>

CountUnanswered(h) ==
  /\ proc[h].at = "count"
  /\ Reply("lost", proc[h].chat)
  /\ proc' = [proc EXCEPT ![h] = Idle]
  /\ UNCHANGED <<stored, cursor, clock, promised, stopped, heard, soon>>

\* removePoolWatch
Unwatch(h, c, w) ==
  /\ Begin(h, c)
  /\ record[c][w] # None
  /\ LET kept == [record[c] EXCEPT ![w] = None] IN
     proc' = [proc EXCEPT ![h] = [Idle EXCEPT
       !.at = IF kept = Empty THEN "delete" ELSE "write",
       !.ask = "unwatch", !.chat = c, !.pool = w, !.held = kept]]
  /\ UNCHANGED stopped

\* /stop, as far as pools are concerned
Stop(h, c) ==
  /\ Begin(h, c)
  /\ Watched(record[c]) # {}
  /\ proc' = [proc EXCEPT ![h] =
       [Idle EXCEPT !.at = "delete", !.ask = "stop", !.chat = c]]
  /\ UNCHANGED stopped

\* What the chat is told in the end.
Tell(h) ==
  LET c == proc[h].chat
      w == proc[h].pool IN
  /\ promised' = [promised EXCEPT ![c] =
       CASE proc[h].ask = "watch"   -> @ \cup {w}
         [] proc[h].ask = "unwatch" -> @ \ {w}
         [] proc[h].ask = "stop"    -> {}]
  /\ stopped' = IF proc[h].ask = "stop" THEN stopped \cup {c} ELSE stopped
  /\ heard' = IF proc[h].ask = "watch" THEN [heard EXCEPT ![c][w] = proc[h].when]
              ELSE heard

-----------------------------------------------------------------------------
(***************************************************************************)
(* writeRecord and forgetPoolWatches.                                      *)
(***************************************************************************)
\* A request ends where its record is not written; the pass goes on.
Write(q) ==
  /\ proc[q].at = "write"
  /\ \E r \in Replies :
       /\ Reply(r, proc[q].chat)
       /\ record' = IF Applied(r) THEN [record EXCEPT ![proc[q].chat] = proc[q].held]
                    ELSE record
       /\ proc' = [proc EXCEPT ![q] =
            IF Answered(r) THEN [@ EXCEPT !.at = "enter"]
            ELSE IF q \in Passes THEN [@ EXCEPT !.at = "tell"] ELSE Idle]
  /\ UNCHANGED <<watchers, cursor, clock, promised, stopped, heard, soon>>

\* The answer of the set is not looked at.
Enter(q) ==
  /\ proc[q].at = "enter"
  /\ \E r \in Replies :
       /\ Reply(r, proc[q].chat)
       /\ watchers' = IF Applied(r) THEN watchers \cup {proc[q].chat} ELSE watchers
  /\ IF q \in Passes
     THEN /\ proc' = [proc EXCEPT ![q].at = "tell"]
          /\ UNCHANGED <<promised, stopped, heard>>
     ELSE /\ proc' = [proc EXCEPT ![q] = Idle]
          /\ Tell(q)
  /\ UNCHANGED <<record, cursor, clock, soon>>

Delete(h) ==
  /\ proc[h].at = "delete"
  /\ \E r \in Replies :
       /\ Reply(r, proc[h].chat)
       /\ record' = IF Applied(r) THEN [record EXCEPT ![proc[h].chat] = Empty] ELSE record
  /\ proc' = [proc EXCEPT ![h].at = "leave"]
  /\ UNCHANGED <<watchers, cursor, clock, promised, stopped, heard, soon>>

\* Mutant: the record of a chat is deleted, and its place in the set kept.
LeaveNot(h) ==
  /\ proc[h].at = "leave"
  /\ Tell(h)
  /\ proc' = [proc EXCEPT ![h] = Idle]
  /\ UNCHANGED <<stored, cursor, clock, crossed, soon, spent>>

Leave(h) ==
  /\ proc[h].at = "leave"
  /\ \E r \in Replies :
       /\ Reply(r, proc[h].chat)
       /\ watchers' = IF Applied(r) THEN watchers \ {proc[h].chat} ELSE watchers
  /\ Tell(h)
  /\ proc' = [proc EXCEPT ![h] = Idle]
  /\ UNCHANGED <<record, cursor, clock, soon>>

-----------------------------------------------------------------------------
(***************************************************************************)
(* The pass reads the chats whose turn it is.                              *)
(***************************************************************************)
\* Of the chats in S, the ones as near as c in the turn that follows chat n.
UpTo(S, n, c) ==
  IF c > n THEN {d \in S : n < d /\ d <= c} ELSE {d \in S : n < d \/ d <= c}

\* rotation
Taken(S, n) == {c \in S : Cardinality(UpTo(S, n, c)) <= Budget}
IsNext(S, n, c) == c \in S /\ UpTo(S, n, c) = {c}

\* After a restart it begins with any.
PassStart(p) ==
  /\ proc[p].at = "idle" /\ watchers # {}
  /\ \E c \in watchers :
       LET after == IF cursor = None THEN c - 1 ELSE cursor IN
       proc' = [proc EXCEPT ![p] = [Idle EXCEPT
         !.at = "list", !.todo = Taken(watchers, after), !.last = after]]
  /\ UNCHANGED <<stored, cursor, clock, history, spent>>

Listed(p) == {c \in Chats : Watched(proc[p].listed[c]) # {}}
PoolsListed(p) == {x \in Chats \X Pools : proc[p].listed[x[1]][x[2]] # None}

Fits(p, r) ==
  Listed(p) = {} \/ Cardinality(PoolsListed(p)) + Cardinality(Watched(r)) <= Budget

\* poolWatchersForPass: one that would not fit is where the next pass begins.
PassRead(p) ==
  /\ proc[p].at = "list"
  /\ \E c \in proc[p].todo :
       LET r == record[c]
           read == [proc[p] EXCEPT !.todo = @ \ {c}, !.last = c] IN
       /\ IsNext(proc[p].todo, proc[p].last, c)
       /\ \/ /\ Reply("lost", c)
             /\ proc' = [proc EXCEPT ![p] = read]
          \/ /\ Meet(p, c) /\ UNCHANGED spent
             /\ proc' = [proc EXCEPT ![p] =
                  IF r = Empty THEN [read EXCEPT !.at = "drop", !.chat = c]
                  ELSE IF Fits(p, r) THEN [read EXCEPT !.listed[c] = r]
                  ELSE [@ EXCEPT !.todo = {}]]
  /\ UNCHANGED <<stored, cursor, clock, promised, stopped, heard, soon>>

\* Mutant: a member without a record is passed over.
PassDropNot(p) ==
  /\ proc[p].at = "drop"
  /\ proc' = [proc EXCEPT ![p].at = "list", ![p].chat = None]
  /\ UNCHANGED <<stored, cursor, clock, history, spent>>

\* A member without a record is dropped from the set as it is met.
PassDrop(p) ==
  /\ proc[p].at = "drop"
  /\ \E r \in Replies :
       /\ Reply(r, proc[p].chat)
       /\ watchers' = IF Applied(r) THEN watchers \ {proc[p].chat} ELSE watchers
  /\ proc' = [proc EXCEPT ![p].at = "list", ![p].chat = None]
  /\ UNCHANGED <<record, cursor, clock, promised, stopped, heard, soon>>

\* Mutant: the turn is not kept, and the next pass begins where this one did.
PassListedAgain(p) ==
  /\ proc[p].at = "list" /\ proc[p].todo = {}
  /\ cursor' = 0
  /\ proc' = [proc EXCEPT ![p].at = "tell"]
  /\ UNCHANGED <<stored, clock, history, spent>>

PassListed(p) ==
  /\ proc[p].at = "list" /\ proc[p].todo = {}
  /\ cursor' = proc[p].last
  /\ proc' = [proc EXCEPT ![p].at = "tell"]
  /\ UNCHANGED <<stored, clock, history, spent>>

-----------------------------------------------------------------------------
(***************************************************************************)
(* And tells them, pool by pool (checkPoolWatches).                        *)
(***************************************************************************)
PassChat(p) ==
  /\ proc[p].at = "tell" /\ proc[p].rest = {}
  /\ \/ \E c \in Listed(p) :
          LET r == proc[p].listed[c]
              next == [proc[p] EXCEPT !.chat = c, !.held = r, !.rest = Watched(r),
                                      !.listed[c] = Empty] IN
          proc' = [proc EXCEPT ![p] = next]
     \/ Listed(p) = {} /\ proc' = [proc EXCEPT ![p] = Idle]
  /\ UNCHANGED <<stored, cursor, clock, history, spent>>

\* A pool that cannot be read, whose range has not moved, or whose message is
\* not taken.
PassSkip(p) ==
  /\ proc[p].at = "tell"
  /\ \E w \in proc[p].rest : proc' = [proc EXCEPT ![p].rest = @ \ {w}]
  /\ UNCHANGED <<stored, cursor, clock, history, spent>>

\* Mutant: said again on the day it was told.
MayRetellAtOnce(at) == clock >= at

MayRetell(at) == clock >= at + RetellAfter

\* Mutant: when it may be told again is kept, and not when it was told.
RecordedDue(r, w) == [r EXCEPT ![w] = clock + RetellAfter]

\* recordRangeTold: the record as it was read, with this pool told now.
Recorded(r, w) == [r EXCEPT ![w] = clock]

\* A message is sent; what is recorded is written if it is known to be taken.
PassTell(p) ==
  /\ proc[p].at = "tell"
  /\ \E w \in proc[p].rest, r \in {"done", "unheard"} :
       LET c == proc[p].chat
           told == [proc[p] EXCEPT !.rest = @ \ {w},
             !.held = IF Answered(r) THEN Recorded(@, w) ELSE @,
             !.at = IF Answered(r) THEN "write" ELSE "tell"] IN
       /\ MayRetell(proc[p].held[w])
       /\ Reply(r, c)
       /\ proc' = [proc EXCEPT ![p] = told]
       /\ soon' = IF heard[c][w] # None /\ clock < heard[c][w] + RetellAfter
                  THEN soon \cup {c} ELSE soon
       /\ heard' = [heard EXCEPT ![c][w] = clock]
  /\ UNCHANGED <<stored, cursor, clock, promised, stopped>>

-----------------------------------------------------------------------------
Tick ==
  /\ clock < MaxClock /\ clock' = clock + 1
  /\ UNCHANGED <<stored, cursor, proc, history, spent>>

\* The turn is kept in memory.
Crash ==
  /\ spent.faults < MaxFaults
  /\ spent' = [spent EXCEPT !.faults = @ + 1]
  /\ proc' = [q \in Processes |-> Idle]
  /\ cursor' = None
  /\ crossed' = crossed \cup {c \in Chats : \E q \in Processes : Holds(q, c)}
  /\ UNCHANGED <<stored, clock, promised, stopped, heard, soon>>

Serve(h) ==
  \/ Count(h) \/ CountUnanswered(h) \/ Write(h) \/ Enter(h) \/ Delete(h) \/ Leave(h)

Walk(p) ==
  \/ PassStart(p) \/ PassRead(p) \/ PassDrop(p) \/ PassListed(p)
  \/ PassChat(p) \/ PassSkip(p) \/ PassTell(p) \/ Write(p) \/ Enter(p)

Next ==
  \/ \E h \in Handlers, c \in Chats :
       Stop(h, c) \/ \E w \in Pools : Watch(h, c, w) \/ Unwatch(h, c, w)
  \/ \E h \in Handlers : Serve(h)
  \/ \E p \in Passes : Walk(p)
  \/ Tick \/ Crash

Spec == Init /\ [][Next]_vars

\* Requests go on, and passes follow one another.
FairSpec ==
  /\ Spec
  /\ \A h \in Handlers : WF_vars(Serve(h))
  /\ \A p \in Passes : WF_vars(Walk(p))

-----------------------------------------------------------------------------
(***************************************************************************)
(* Properties.                                                             *)
(***************************************************************************)
\* Where nothing overlapped and nothing was cut off, what is kept of a chat is
\* what the chat was told, and it is walked exactly if that is something.
InOrderIsKept ==
  \A c \in Chats \ crossed : (\A h \in Handlers : proc[h].chat # c) =>
    /\ Watched(record[c]) = promised[c]
    /\ c \in watchers <=> promised[c] # {}

\* "Once a day at most", of one pool, the answer to /watch included.
InOrderOnceADay == soon \subseteq crossed

\* "Deleted from the server the moment /unwatch or /stop asks."
StoppedIsForgotten == \A c \in stopped : record[c] = Empty

\* Once requests and faults come to an end, the set holds no chat that follows
\* nothing: the passes drop it.
StaleLeave == <>[](\A c \in watchers : record[c] # Empty)

\* A chat in the set is read by some pass, however many there are.
TurnComes ==
  \A c \in Chats : (c \in watchers) ~>
    (c \notin watchers \/ \E p \in Passes : Holds(p, c))
=============================================================================
