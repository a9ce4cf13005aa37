------------------------------ MODULE RedisClient ------------------------------
(***************************************************************************)
(* The client every command of the store goes through                      *)
(* (src/lib/store/redisClient.ts) over a socket of Node                     *)
(* (nodeRedisSocket.ts): one connection, replies matched to commands by     *)
(* order alone, and a connection that is dropped once the order is lost.    *)
(*                                                                          *)
(* One action is one event of the loop (a chunk of data, a close, a timer,  *)
(* a connect that ends) or one continuation of a promise, which runs before *)
(* the next event does.  The n-th attempt to connect opens connection n.    *)
(*                                                                          *)
(* A reply is the command it answers: what a caller gets tells whose reply  *)
(* it was given.  Of bytes only this is kept, that a reply may arrive in    *)
(* two parts, and that a part set before another's bytes makes neither.     *)
(***************************************************************************)
EXTENDS Naturals, Sequences, FiniteSets

CONSTANTS
  Commands,     \* the commands callers issue, each once
  MaxConns,     \* bound on attempts to connect
  Greetings,    \* how many of AUTH and SELECT a new connection is sent
  Garbled,      \* a reply read from the bytes of two
  None          \* no connection, no reply, and the null a caller is given

Conns == 1..MaxConns

ASSUME BoundsAssumption == MaxConns \in Nat /\ Greetings \in 0..2
ASSUME NullAssumption ==
  /\ Commands \cap (Conns \cup {Garbled, None}) = {}
  /\ Garbled \notin Conns \cup {None} /\ None \notin Conns

VARIABLES
  socket, opening, buffer, pending,   \* the client's own
  attempt,      \* what each attempt to connect is doing
  caller,       \* what each command is doing
  conn,         \* each connection, on this side
  closing,      \* calls of its close listener still to come
  wire,         \* what the server has been sent on it and not answered
  half,         \* whether part of its next reply has been delivered
  crossed,      \* a socket has taken the place of another          (history)
  early         \* commands written ahead of a greeting             (history)

client  == <<socket, opening, buffer, pending>>
network == <<conn, closing, wire, half>>
history == <<crossed, early>>
vars    == <<client, attempt, caller, network, history>>

-----------------------------------------------------------------------------
\* Who waits for a reply: a command, or an attempt that has sent a greeting.
Owner == Commands \cup Conns
Reply == Owner \cup {Garbled, None}

Attempt == [at   : {"none", "connecting", "greeting", "resumed", "opened", "failed"},
            done : 0..2,                 \* greetings answered
            got  : Reply,                \* the answer to the last of them
            sock : Conns \cup {None}]    \* the socket it was resolved with
Caller == [at     : {"idle", "joining", "holding", "waiting", "done"},
           on     : Conns \cup {None},   \* the attempt joined, then the socket held
           opener : BOOLEAN,             \* whether it began that attempt
           got    : Reply]

TypeOK ==
  /\ socket \in Conns \cup {None}
  /\ opening \in Conns \cup {None}
  /\ buffer \in Conns \cup {Garbled, None}
  /\ pending \in Seq(Owner)
  /\ attempt \in [Conns -> Attempt]
  /\ caller \in [Commands -> Caller]
  /\ conn \in [Conns -> {"none", "open", "gone"}]
  /\ closing \in [Conns -> 0..2]
  /\ wire \in [Conns -> Seq(Owner)]
  /\ half \in [Conns -> BOOLEAN]
  /\ crossed \in BOOLEAN
  /\ early \subseteq Commands

Init ==
  /\ socket = None /\ opening = None /\ buffer = None /\ pending = <<>>
  /\ attempt = [a \in Conns |-> [at |-> "none", done |-> 0, got |-> None, sock |-> None]]
  /\ caller = [c \in Commands |->
                [at |-> "idle", on |-> None, opener |-> FALSE, got |-> None]]
  /\ conn = [a \in Conns |-> "none"]
  /\ closing = [a \in Conns |-> 0]
  /\ wire = [a \in Conns |-> <<>>]
  /\ half = [a \in Conns |-> FALSE]
  /\ crossed = FALSE
  /\ early = {}

-----------------------------------------------------------------------------
\* Continuations run before the next event.
Finished(a) == attempt[a].at \in {"opened", "failed"}
Joined(c)   == caller[c].at = "joining" /\ Finished(caller[c].on)
Resuming    == \E a \in Conns : attempt[a].at = "resumed"
Quiet       == ~Resuming /\ \A c \in Commands : caller[c].at # "holding" /\ ~Joined(c)

\* The waiters in the domain of reply are given it.
Settle(reply) ==
  /\ caller' = [c \in Commands |->
       IF c \in DOMAIN reply THEN [caller[c] EXCEPT !.at = "done", !.got = reply[c]]
       ELSE caller[c]]
  /\ attempt' = [a \in Conns |->
       IF a \in DOMAIN reply THEN [attempt[a] EXCEPT !.at = "resumed", !.got = reply[a]]
       ELSE attempt[a]]

Waiters(queue) == {queue[i] : i \in DOMAIN queue}
AllNull == [o \in Waiters(pending) |-> None]

\* Mutants: destroying what is gone already, or leaving the attempt in place.
GiveUpAgain(due) ==
  /\ socket' = None /\ opening' = None /\ buffer' = None /\ pending' = <<>>
  /\ conn' = [a \in Conns |-> IF a = socket THEN "gone" ELSE conn[a]]
  /\ closing' = [a \in Conns |-> IF a = socket THEN due[a] + 1 ELSE due[a]]
  /\ wire' = [a \in Conns |-> IF a = socket THEN <<>> ELSE wire[a]]
  /\ half' = [a \in Conns |-> IF a = socket THEN FALSE ELSE half[a]]
GiveUpButOpening(due) ==
  /\ socket' = None /\ UNCHANGED opening /\ buffer' = None /\ pending' = <<>>
  /\ conn' = [a \in Conns |-> IF a = socket THEN "gone" ELSE conn[a]]
  /\ closing' = [a \in Conns |->
       IF a = socket /\ conn[a] = "open" THEN due[a] + 1 ELSE due[a]]
  /\ wire' = [a \in Conns |-> IF a = socket THEN <<>> ELSE wire[a]]
  /\ half' = [a \in Conns |-> IF a = socket THEN FALSE ELSE half[a]]

\* What drop does to the connection: the socket is given up and destroyed, which
\* has its close listener called a little later.
GiveUp(due) ==
  /\ socket' = None /\ opening' = None /\ buffer' = None /\ pending' = <<>>
  /\ conn' = [a \in Conns |-> IF a = socket THEN "gone" ELSE conn[a]]
  /\ closing' = [a \in Conns |->
       IF a = socket /\ conn[a] = "open" THEN due[a] + 1 ELSE due[a]]
  /\ wire' = [a \in Conns |-> IF a = socket THEN <<>> ELSE wire[a]]
  /\ half' = [a \in Conns |-> IF a = socket THEN FALSE ELSE half[a]]

\* Mutant: the queue is emptied and nobody in it is told.
DropUnheard(due) == GiveUp(due) /\ UNCHANGED <<caller, attempt>>

\* drop: and whoever is waiting is given null.
Drop(due) == GiveUp(due) /\ Settle(AllNull)

\* send: onto a socket that is gone nothing is written, and nothing is thrown.
Write(a, owner) ==
  /\ pending' = Append(pending, owner)
  /\ wire' = IF conn[a] = "open" THEN [wire EXCEPT ![a] = Append(@, owner)] ELSE wire

-----------------------------------------------------------------------------
(***************************************************************************)
(* command and ensureSocket.                                               *)
(***************************************************************************)
\* A caller asks: the socket there is, the attempt under way, or a new one.  One
\* that asks again upon an answer does so after the attempt has gone on, whose
\* promise is the nearer one.
Ask(c) ==
  /\ ~Resuming /\ caller[c].at = "idle"
  /\ \/ /\ socket # None
        /\ caller' = [caller EXCEPT ![c].at = "holding", ![c].on = socket]
        /\ UNCHANGED <<opening, attempt>>
     \/ /\ socket = None /\ opening # None
        /\ caller' = [caller EXCEPT ![c].at = "joining", ![c].on = opening]
        /\ UNCHANGED <<opening, attempt>>
     \/ /\ socket = None /\ opening = None
        /\ \E a \in Conns :
             /\ attempt[a].at = "none"
             /\ \A b \in 1..(a - 1) : attempt[b].at # "none"
             /\ attempt' = [attempt EXCEPT ![a].at = "connecting"]
             /\ opening' = a
             /\ caller' = [caller EXCEPT ![c].at = "joining", ![c].on = a,
                                         ![c].opener = TRUE]
  /\ UNCHANGED <<socket, buffer, pending, network, history>>

\* The attempt joined has ended.  Whoever began it clears opening if it failed,
\* whichever attempt opening is by then.
Join(c) ==
  /\ Joined(c)
  /\ LET a == caller[c].on IN
     IF attempt[a].at = "opened"
     THEN /\ caller' = [caller EXCEPT ![c].at = "holding", ![c].on = attempt[a].sock]
          /\ UNCHANGED opening
     ELSE /\ caller' = [caller EXCEPT ![c].at = "done", ![c].on = None]
          /\ opening' = IF caller[c].opener THEN None ELSE opening
  /\ UNCHANGED <<socket, buffer, pending, attempt, network, history>>

\* Greetings of the attempt that have been written.
Greeted(a) ==
  attempt[a].done + (IF attempt[a].at \in {"greeting", "resumed"} THEN 1 ELSE 0)

Send(c) ==
  /\ caller[c].at = "holding"
  /\ Write(caller[c].on, c)
  /\ caller' = [caller EXCEPT ![c].at = "waiting", ![c].on = None]
  /\ early' = IF conn[caller[c].on] = "open" /\ Greeted(caller[c].on) < Greetings
              THEN early \cup {c} ELSE early
  /\ UNCHANGED <<socket, opening, buffer, attempt, conn, closing, half, crossed>>

-----------------------------------------------------------------------------
(***************************************************************************)
(* The attempt: connect, then the greetings one after the other.           *)
(***************************************************************************)
\* The socket is the client's before its greetings are answered, whatever
\* socket the client had.
Connected(a) ==
  /\ Quiet
  /\ attempt[a].at = "connecting"
  /\ socket' = a
  /\ conn' = [conn EXCEPT ![a] = "open"]
  /\ crossed' = (crossed \/ socket # None)
  /\ IF Greetings = 0
     THEN /\ attempt' = [attempt EXCEPT ![a].at = "opened", ![a].sock = a]
          /\ UNCHANGED <<pending, wire>>
     ELSE /\ attempt' = [attempt EXCEPT ![a].at = "greeting"]
          /\ pending' = Append(pending, a)
          /\ wire' = [wire EXCEPT ![a] = Append(@, a)]
  /\ UNCHANGED <<opening, buffer, caller, closing, half, early>>

ConnectFailed(a) ==
  /\ Quiet
  /\ attempt[a].at = "connecting"
  /\ attempt' = [attempt EXCEPT ![a].at = "failed"]
  /\ UNCHANGED <<client, caller, network, history>>

\* A greeting answered: the next is written to the connection of this attempt,
\* and after the last the attempt is resolved with the socket there is by then.
GreetingDone(a) ==
  /\ attempt[a].at = "resumed" /\ attempt[a].got # None
  /\ LET n == attempt[a].done + 1 IN
     IF n < Greetings
     THEN /\ attempt' = [attempt EXCEPT ![a].at = "greeting", ![a].done = n, ![a].got = None]
          /\ Write(a, a)
     ELSE /\ attempt' = [attempt EXCEPT
               ![a].at = IF socket = None THEN "failed" ELSE "opened",
               ![a].done = n, ![a].got = None, ![a].sock = socket]
          /\ UNCHANGED <<pending, wire>>
  /\ UNCHANGED <<socket, opening, buffer, caller, conn, closing, half, history>>

GreetingFailed(a) ==
  /\ attempt[a].at = "resumed" /\ attempt[a].got = None
  /\ attempt' = [attempt EXCEPT ![a].at = "failed"]
  /\ UNCHANGED <<client, caller, network, history>>

\* A password that is refused.
Refused(a) ==
  /\ attempt[a].at = "resumed" /\ attempt[a].got # None
  /\ GiveUp(closing)
  /\ caller' = [c \in Commands |->
       IF c \in Waiters(pending) THEN [caller[c] EXCEPT !.at = "done"] ELSE caller[c]]
  /\ attempt' = [b \in Conns |->
       IF b = a THEN [attempt[a] EXCEPT !.at = "failed", !.got = None]
       ELSE IF b \in Waiters(pending) THEN [attempt[b] EXCEPT !.at = "resumed", !.got = None]
       ELSE attempt[b]]
  /\ UNCHANGED history

-----------------------------------------------------------------------------
(***************************************************************************)
(* Events of the sockets.  Data of a connection reaches the client as long *)
(* as it is open, whether or not it still is the client's socket.          *)
(***************************************************************************)
\* The buffer holds what this connection has begun to say, and nothing else.
InStep(a) == buffer = IF half[a] THEN a ELSE None

\* receive, of a chunk that ends n replies and, if part, begins another.
Receive(a, n, part) ==
  /\ Quiet /\ conn[a] = "open"
  /\ n > 0 \/ (part /\ ~half[a])
  /\ n <= Len(wire[a]) /\ (part => n < Len(wire[a]))
  /\ InStep(a)
  /\ IF n > Len(pending)
     THEN /\ GiveUp(closing)
          /\ Settle([o \in Waiters(pending) |->
               wire[a][CHOOSE i \in DOMAIN pending : pending[i] = o]])
     ELSE /\ Settle([o \in Waiters(SubSeq(pending, 1, n)) |->
               wire[a][CHOOSE i \in 1..n : pending[i] = o]])
          /\ pending' = SubSeq(pending, n + 1, Len(pending))
          /\ buffer' = IF part THEN a ELSE None
          /\ wire' = [wire EXCEPT ![a] = SubSeq(@, n + 1, Len(@))]
          /\ half' = [half EXCEPT ![a] = part]
          /\ UNCHANGED <<socket, opening, conn, closing>>
  /\ UNCHANGED history

\* A chunk that follows another connection's bytes, or the end of a reply whose
\* beginning was thrown away: no RESP, or not enough of it, or a reply by chance.
ReceiveGarbled(a) ==
  /\ Quiet /\ conn[a] = "open" /\ wire[a] # <<>>
  /\ ~InStep(a)
  /\ \/ Drop(closing)
     \/ /\ buffer' = Garbled
        /\ wire' = [wire EXCEPT ![a] = Tail(@)]
        /\ half' = [half EXCEPT ![a] = FALSE]
        /\ \/ UNCHANGED <<pending, caller, attempt>>
           \/ /\ pending # <<>>
              /\ pending' = Tail(pending)
              /\ Settle([o \in {Head(pending)} |-> Garbled])
        /\ UNCHANGED <<socket, opening, conn, closing>>
  /\ UNCHANGED history

\* Mutant: the one that waited is taken from the queue, and the rest carries on.
TimeoutCarriesOn ==
  /\ Quiet /\ pending # <<>>
  /\ pending' = Tail(pending)
  /\ Settle([o \in {Head(pending)} |-> None])
  /\ UNCHANGED <<socket, opening, buffer, network, history>>

\* A waiter has waited for two seconds: it is given null, and so is the rest.
Timeout ==
  /\ Quiet /\ pending # <<>>
  /\ Drop(closing)
  /\ UNCHANGED history

\* The connection is lost, and its listener will be called, twice for an error.
Lost(a) ==
  /\ Quiet /\ conn[a] = "open"
  /\ conn' = [conn EXCEPT ![a] = "gone"]
  /\ \E n \in {1, 2} : closing' = [closing EXCEPT ![a] = n]
  /\ wire' = [wire EXCEPT ![a] = <<>>]
  /\ half' = [half EXCEPT ![a] = FALSE]
  /\ UNCHANGED <<client, attempt, caller, history>>

\* The listener drops whatever the client has by then.
Closed(a) ==
  /\ Quiet /\ closing[a] > 0
  /\ Drop([closing EXCEPT ![a] = @ - 1])
  /\ UNCHANGED history

-----------------------------------------------------------------------------
Continue ==
  \/ \E c \in Commands : Join(c) \/ Send(c)
  \/ \E a \in Conns : GreetingDone(a) \/ GreetingFailed(a) \/ Refused(a)

Event ==
  \/ \E a \in Conns :
       \/ Connected(a) \/ ConnectFailed(a) \/ Lost(a) \/ Closed(a) \/ ReceiveGarbled(a)
       \/ \E n \in 0..Cardinality(Commands) + 2, part \in BOOLEAN : Receive(a, n, part)
  \/ Timeout

Next == Continue \/ Event \/ \E c \in Commands : Ask(c)

Spec == Init /\ [][Next]_vars

\* Continuations run, a connect ends one way or the other, and a timer fires.
FairSpec ==
  /\ Spec
  /\ WF_vars(Continue)
  /\ \A a \in Conns : WF_vars(Connected(a) \/ ConnectFailed(a))
  /\ WF_vars(Timeout)

-----------------------------------------------------------------------------
(***************************************************************************)
(* Properties.                                                             *)
(***************************************************************************)
\* Whoever is given a reply is given its own: "replies are matched to commands
\* by order alone", so a late one must never be "handed to the next command".
OwnReply == \A c \in Commands : caller[c].got \in {None, c}

\* So it is as long as no socket has taken the place of another that was not
\* given up, through timeouts, chunks that end in the middle of a reply, refused
\* passwords and losses.
OwnReplyWhileOne == ~crossed => OwnReply

\* "The handshake runs before the connection is handed out": no command reaches
\* the server ahead of AUTH and SELECT.
HandshakeFirst == early = {}

\* A client without a socket never keeps the promise of an attempt that has
\* ended, which every later command would be given the dead socket of.
OpeningIsLive ==
  Quiet /\ socket = None /\ opening # None =>
    attempt[opening].at \in {"connecting", "greeting"}

\* Every command is answered, by a reply or by null.
EveryCommandEnds ==
  \A c \in Commands : (caller[c].at # "idle") ~> (caller[c].at = "done")
=============================================================================
