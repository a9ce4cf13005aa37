--------------------------- MODULE RedisClientProofs ---------------------------
(***************************************************************************)
(* What holds of the client of the store for any number of commands and of *)
(* attempts to connect, whatever greetings a connection is sent.           *)
(***************************************************************************)
EXTENDS RedisClient, SequenceTheorems, TLAPS

-----------------------------------------------------------------------------
(***************************************************************************)
(* The invariant.                                                          *)
(***************************************************************************)
\* Whatever has crossed: a connection that has not been made is blank, one that
\* is open has no listener to call, a greeting that is awaited is one to send,
\* and an attempt that has succeeded belongs to a client that has a socket.
Bookkeeping ==
  /\ \A a \in Conns :
       /\ attempt[a].at \in {"none", "connecting"} =>
            conn[a] = "none" /\ wire[a] = <<>> /\ half[a] = FALSE /\ attempt[a].done = 0
       /\ conn[a] \in {"none", "open"} => closing[a] = 0
       /\ attempt[a].at \in {"greeting", "resumed"} => attempt[a].done < Greetings
       /\ attempt[a].at = "opened" => attempt[a].sock # None
  /\ opening # None =>
       /\ attempt[opening].at # "none"
       /\ attempt[opening].at = "opened" => socket # None
  /\ socket # None => conn[socket] # "none"
  /\ \A c \in Commands : caller[c].at \in {"joining", "holding"} => caller[c].on \in Conns

\* Whoever is in the queue is there once, and waits for that reply alone.
QueueWaits ==
  /\ \A i, j \in 1..Len(pending) : pending[i] = pending[j] => i = j
  /\ \A i \in 1..Len(pending) :
       /\ pending[i] \in Commands => caller[pending[i]].at = "waiting"
       /\ pending[i] \in Conns => attempt[pending[i]].at = "greeting"

\* Whoever began the attempt that opening names is waiting for it, unless it
\* has succeeded.
OpenerWaits ==
  opening # None /\ attempt[opening].at # "opened" =>
    \E c \in Commands : /\ caller[c].at = "joining" /\ caller[c].on = opening
                        /\ caller[c].opener

\* What the client waits for is what it has sent on its socket, in the order in
\* which the server answers, and nothing else can reach it.
InOrder ==
  /\ \A a \in Conns : conn[a] = "open" => a = socket
  /\ socket = None => pending = <<>> /\ buffer = None
  /\ socket # None /\ conn[socket] = "open" =>
       pending = wire[socket] /\ buffer = IF half[socket] THEN socket ELSE None

\* Whoever is about to write holds the client's socket, and whoever is about to
\* be handed a socket will be handed that one.
HoldersHoldIt ==
  /\ \A c \in Commands :
       /\ caller[c].at = "holding" => caller[c].on = socket /\ socket # None
       /\ caller[c].at = "joining" /\ attempt[caller[c].on].at = "opened" =>
            attempt[caller[c].on].sock = socket /\ socket # None
  /\ \A a \in Conns : attempt[a].at = "resumed" /\ attempt[a].got # None =>
       /\ a = socket
       /\ \A c \in Commands :
            /\ caller[c].at # "holding"
            /\ caller[c].at = "joining" => attempt[caller[c].on].at # "opened"
  /\ \A i \in 1..Len(pending) : pending[i] \in Conns => pending[i] = socket

OneSocket == ~crossed => InOrder /\ HoldersHoldIt /\ OwnReply

Inv == TypeOK /\ Bookkeeping /\ QueueWaits /\ OpenerWaits /\ OneSocket

-----------------------------------------------------------------------------
(***************************************************************************)
(* Lemmas about the pieces the actions are made of.                        *)
(***************************************************************************)
\* Records.
LEMMA CallerKinds ==
  \A r \in Caller :
    \A v \in {"idle", "joining", "holding", "waiting", "done"}, o \in Conns \cup {None} :
      /\ [r EXCEPT !.at = v] \in Caller
      /\ [r EXCEPT !.at = v, !.on = o] \in Caller
      /\ [r EXCEPT !.at = v, !.on = o, !.opener = TRUE] \in Caller
      /\ \A g \in Reply : [r EXCEPT !.at = v, !.got = g] \in Caller
  <1> SUFFICES ASSUME NEW r \in Caller,
                      NEW v \in {"idle", "joining", "holding", "waiting", "done"},
                      NEW o \in Conns \cup {None}
               PROVE  /\ [r EXCEPT !.at = v] \in Caller
                      /\ [r EXCEPT !.at = v, !.on = o] \in Caller
                      /\ [r EXCEPT !.at = v, !.on = o, !.opener = TRUE] \in Caller
                      /\ \A g \in Reply : [r EXCEPT !.at = v, !.got = g] \in Caller
    OBVIOUS
  <1>1. [r EXCEPT !.at = v] \in Caller
    BY DEF Caller
  <1>2. [r EXCEPT !.at = v, !.on = o] \in Caller
    BY DEF Caller
  <1>3. [r EXCEPT !.at = v, !.on = o, !.opener = TRUE] \in Caller
    BY DEF Caller
  <1>4. \A g \in Reply : [r EXCEPT !.at = v, !.got = g] \in Caller
    BY DEF Caller
  <1> QED
    BY <1>1, <1>2, <1>3, <1>4

AttemptSteps == {"none", "connecting", "greeting", "resumed", "opened", "failed"}

LEMMA AttemptKinds ==
  ASSUME NEW r \in Attempt, NEW v \in AttemptSteps
  PROVE  /\ [r EXCEPT !.at = v] \in Attempt
         /\ \A g \in Reply : [r EXCEPT !.at = v, !.got = g] \in Attempt
         /\ \A g \in Reply, d \in 0..2 :
              [r EXCEPT !.at = v, !.done = d, !.got = g] \in Attempt
         /\ \A g \in Reply, d \in 0..2, o \in Conns \cup {None} :
              [r EXCEPT !.at = v, !.done = d, !.got = g, !.sock = o] \in Attempt
         /\ \A o \in Conns \cup {None} : [r EXCEPT !.at = v, !.sock = o] \in Attempt
  <1> DEFINE D == 0..2
  <1>1. Attempt = [at : AttemptSteps, done : D, got : Reply, sock : Conns \cup {None}]
    BY DEF Attempt, AttemptSteps
  <1> HIDE DEF D
  <1>2. [r EXCEPT !.at = v] \in Attempt
    BY <1>1
  <1>3. \A g \in Reply : [r EXCEPT !.at = v, !.got = g] \in Attempt
    BY <1>1
  <1>4. \A g \in Reply, d \in D : [r EXCEPT !.at = v, !.done = d, !.got = g] \in Attempt
    BY <1>1
  <1>5. \A g \in Reply, d \in D, o \in Conns \cup {None} :
          [r EXCEPT !.at = v, !.done = d, !.got = g, !.sock = o] \in Attempt
    BY <1>1
  <1>6. \A o \in Conns \cup {None} : [r EXCEPT !.at = v, !.sock = o] \in Attempt
    BY <1>1
  <1> QED
    BY <1>2, <1>3, <1>4, <1>5, <1>6 DEF D

LEMMA NoneIsReply == None \in Reply
  BY DEF Reply

\* What an answer changes of the callers and the attempts.
LEMMA SettleTyped ==
  ASSUME TypeOK, NEW reply, \A o \in DOMAIN reply : reply[o] \in Reply, Settle(reply)
  PROVE  /\ caller' \in [Commands -> Caller]
         /\ attempt' \in [Conns -> Attempt]
  <1>1. caller \in [Commands -> Caller] /\ attempt \in [Conns -> Attempt]
    BY DEF TypeOK
  <1>2. \A c \in Commands : caller'[c] \in Caller
    BY <1>1, CallerKinds DEF Settle
  <1>3. \A a \in Conns : attempt'[a] \in Attempt
    BY <1>1, AttemptKinds DEF Settle, AttemptSteps
  <1> QED
    BY <1>2, <1>3 DEF Settle

LEMMA SettleCallers ==
  ASSUME TypeOK, NEW reply, Settle(reply)
  PROVE  \A c \in Commands :
           /\ c \in DOMAIN reply => caller'[c].at = "done" /\ caller'[c].got = reply[c]
           /\ c \notin DOMAIN reply => caller'[c] = caller[c]
  BY DEF TypeOK, Settle, Caller

LEMMA SettleAttempts ==
  ASSUME TypeOK, NEW reply, Settle(reply)
  PROVE  \A a \in Conns :
           /\ a \in DOMAIN reply => /\ attempt'[a].at = "resumed"
                                    /\ attempt'[a].got = reply[a]
                                    /\ attempt'[a].done = attempt[a].done
                                    /\ attempt'[a].sock = attempt[a].sock
           /\ a \notin DOMAIN reply => attempt'[a] = attempt[a]
  BY DEF TypeOK, Settle, Attempt

\* A connection given up was without a listener to call as long as it was open.
LEMMA GiveUpTyped ==
  ASSUME TypeOK, Bookkeeping, NEW due \in [Conns -> 0..2],
         \A a \in Conns : conn[a] = "open" => due[a] = 0, GiveUp(due)
  PROVE  /\ socket' = None /\ opening' = None /\ buffer' = None /\ pending' = <<>>
         /\ pending' \in Seq(Owner)
         /\ conn' \in [Conns -> {"none", "open", "gone"}]
         /\ closing' \in [Conns -> 0..2]
         /\ wire' \in [Conns -> Seq(Owner)]
         /\ half' \in [Conns -> BOOLEAN]
  <1>1. /\ socket' = None /\ opening' = None /\ buffer' = None /\ pending' = <<>>
        /\ pending' \in Seq(Owner)
    BY DEF GiveUp
  <1>2. <<>> \in Seq(Owner)
    OBVIOUS
  <1>3. conn' \in [Conns -> {"none", "open", "gone"}] /\ half' \in [Conns -> BOOLEAN]
    BY DEF TypeOK, GiveUp
  <1>4. wire' \in [Conns -> Seq(Owner)]
    BY <1>2 DEF TypeOK, GiveUp
  <1>5. closing' = [a \in Conns |->
          IF a = socket /\ conn[a] = "open" THEN due[a] + 1 ELSE due[a]]
    BY DEF GiveUp
  <1>6. \A a \in Conns : closing'[a] \in 0..2
    BY <1>5
  <1> QED
    BY <1>1, <1>3, <1>4, <1>5, <1>6

LEMMA NullsTyped ==
  /\ DOMAIN AllNull = Waiters(pending)
  /\ \A o \in DOMAIN AllNull : AllNull[o] = None /\ AllNull[o] \in Reply
  BY DEF AllNull, Reply

LEMMA DropTyped ==
  ASSUME TypeOK, Bookkeeping, NEW due \in [Conns -> 0..2],
         \A a \in Conns : conn[a] = "open" => due[a] = 0, Drop(due), UNCHANGED history
  PROVE  TypeOK'
  <1>1. caller' \in [Commands -> Caller] /\ attempt' \in [Conns -> Attempt]
    BY SettleTyped, NullsTyped DEF Drop
  <1> QED
    BY <1>1, GiveUpTyped DEF Drop, TypeOK, history

LEMMA WriteTyped ==
  ASSUME TypeOK, NEW a \in Conns, NEW o \in Owner, Write(a, o)
  PROVE  pending' \in Seq(Owner) /\ wire' \in [Conns -> Seq(Owner)]
  <1>1. pending' \in Seq(Owner)
    BY DEF TypeOK, Write
  <1>2. wire[a] \in Seq(Owner) /\ Append(wire[a], o) \in Seq(Owner)
    BY DEF TypeOK
  <1> QED
    BY <1>1, <1>2 DEF TypeOK, Write

\* The first n of a queue, and the rest.
LEMMA FirstOnes ==
  ASSUME NEW S, NEW q \in Seq(S), NEW n \in 0..Len(q)
  PROVE  Waiters(SubSeq(q, 1, n)) = {q[i] : i \in 1..n}
  <1>1. SubSeq(q, 1, n) \in Seq(S) /\ Len(SubSeq(q, 1, n)) = n
        /\ \A i \in 1..n : SubSeq(q, 1, n)[i] = q[i]
    BY SubSeqProperties
  <1>2. DOMAIN SubSeq(q, 1, n) = 1..n
    BY <1>1
  <1> QED
    BY <1>1, <1>2 DEF Waiters

LEMMA RestTyped ==
  ASSUME NEW S, NEW q \in Seq(S), NEW n \in Nat
  PROVE  SubSeq(q, n + 1, Len(q)) \in Seq(S)
  <1>1. \A i \in (n + 1)..Len(q) : q[i] \in S
    OBVIOUS
  <1> QED
    BY <1>1, SubSeqProperties

LEMMA Rest ==
  ASSUME NEW S, NEW q \in Seq(S), NEW n \in 0..Len(q)
  PROVE  /\ Len(SubSeq(q, n + 1, Len(q))) = Len(q) - n
         /\ \A i \in 1..(Len(q) - n) : SubSeq(q, n + 1, Len(q))[i] = q[i + n]
  BY SubSeqProperties

-----------------------------------------------------------------------------
(***************************************************************************)
(* Types.                                                                  *)
(***************************************************************************)
LEMMA TypeInit == Init => TypeOK
<1> SUFFICES ASSUME Init PROVE TypeOK
  OBVIOUS
<1>1. attempt \in [Conns -> Attempt]
  BY DEF Init, Attempt, Reply
<1>2. caller \in [Commands -> Caller]
  BY DEF Init, Caller, Reply
<1>3. <<>> \in Seq(Owner) /\ 0 \in 0..2
  OBVIOUS
<1> QED
  BY <1>1, <1>2, <1>3 DEF Init, TypeOK

LEMMA TypeStep == TypeOK /\ Bookkeeping /\ [Next]_vars => TypeOK'
<1> SUFFICES ASSUME TypeOK, Bookkeeping, [Next]_vars PROVE TypeOK'
  OBVIOUS
<1> USE DEF client, network, history
<1>1. ASSUME NEW c \in Commands, Ask(c) PROVE TypeOK'
  <2>1. caller \in [Commands -> Caller] /\ attempt \in [Conns -> Attempt]
    BY DEF TypeOK
  <2>2. CASE socket # None /\ caller' = [caller EXCEPT ![c].at = "holding", ![c].on = socket]
                 /\ UNCHANGED <<opening, attempt>>
    <3>1. caller' \in [Commands -> Caller]
      BY <2>1, <2>2, CallerKinds DEF TypeOK
    <3> QED
      BY <1>1, <2>2, <3>1 DEF TypeOK, Ask
  <2>3. CASE opening # None /\ caller' = [caller EXCEPT ![c].at = "joining", ![c].on = opening]
                 /\ UNCHANGED <<opening, attempt>>
    <3>1. caller' \in [Commands -> Caller]
      BY <2>1, <2>3, CallerKinds DEF TypeOK
    <3> QED
      BY <1>1, <2>3, <3>1 DEF TypeOK, Ask
  <2>4. ASSUME NEW a \in Conns,
               attempt' = [attempt EXCEPT ![a].at = "connecting"], opening' = a,
               caller' = [caller EXCEPT ![c].at = "joining", ![c].on = a, ![c].opener = TRUE]
        PROVE  TypeOK'
    <3>1. caller' \in [Commands -> Caller] /\ attempt' \in [Conns -> Attempt]
      BY <2>1, <2>4, CallerKinds, AttemptKinds DEF AttemptSteps
    <3> QED
      BY <1>1, <2>4, <3>1 DEF TypeOK, Ask
  <2> QED
    BY <1>1, <2>2, <2>3, <2>4 DEF Ask
<1>2. ASSUME NEW c \in Commands, Join(c) PROVE TypeOK'
  <2>1. caller[c].on \in Conns
    BY <1>2 DEF Bookkeeping, Join, Joined
  <2>2. caller \in [Commands -> Caller] /\ attempt[caller[c].on].sock \in Conns \cup {None}
    BY <2>1 DEF TypeOK, Attempt
  <2>3. caller' \in [Commands -> Caller]
    <3>1. CASE attempt[caller[c].on].at = "opened"
      <4>1. caller' = [caller EXCEPT ![c].at = "holding",
                                     ![c].on = attempt[caller[c].on].sock]
        BY <1>2, <3>1 DEF Join
      <4> QED
        BY <2>2, <4>1, CallerKinds
    <3>2. CASE attempt[caller[c].on].at # "opened"
      <4>1. caller' = [caller EXCEPT ![c].at = "done", ![c].on = None]
        BY <1>2, <3>2 DEF Join
      <4> QED
        BY <2>2, <4>1, CallerKinds
    <3> QED
      BY <3>1, <3>2
  <2> QED
    BY <1>2, <2>3 DEF TypeOK, Join
<1>3. ASSUME NEW c \in Commands, Send(c) PROVE TypeOK'
  <2>1. caller[c].on \in Conns /\ c \in Owner
    BY <1>3 DEF Bookkeeping, Send, Owner
  <2>2. caller' \in [Commands -> Caller]
    <3>1. caller \in [Commands -> Caller] /\ None \in Conns \cup {None}
      BY DEF TypeOK
    <3>2. caller' = [caller EXCEPT ![c].at = "waiting", ![c].on = None]
      BY <1>3 DEF Send
    <3> QED
      BY <3>1, <3>2, CallerKinds
  <2> QED
    BY <1>3, <2>1, <2>2, WriteTyped DEF TypeOK, Send
<1>4. ASSUME NEW a \in Conns, Connected(a) PROVE TypeOK'
  <2>1. a \in Owner
    BY DEF Owner
  <2>2. wire[a] \in Seq(Owner) /\ Append(wire[a], a) \in Seq(Owner)
        /\ Append(pending, a) \in Seq(Owner)
    BY <2>1 DEF TypeOK
  <2>3. attempt' \in [Conns -> Attempt]
    <3>1. attempt \in [Conns -> Attempt]
      BY DEF TypeOK
    <3>2. CASE attempt' = [attempt EXCEPT ![a].at = "opened", ![a].sock = a]
      BY <3>1, <3>2, AttemptKinds DEF AttemptSteps
    <3>3. CASE attempt' = [attempt EXCEPT ![a].at = "greeting"]
      BY <3>1, <3>3, AttemptKinds DEF AttemptSteps
    <3> QED
      BY <1>4, <3>2, <3>3 DEF Connected
  <2> QED
    BY <1>4, <2>2, <2>3 DEF TypeOK, Connected
<1>5. ASSUME NEW a \in Conns, ConnectFailed(a) PROVE TypeOK'
  <2>1. attempt' \in [Conns -> Attempt]
    <3>1. attempt \in [Conns -> Attempt]
      BY DEF TypeOK
    <3>2. attempt' = [attempt EXCEPT ![a].at = "failed"]
      BY <1>5 DEF ConnectFailed
    <3> QED
      BY <3>1, <3>2, AttemptKinds DEF AttemptSteps
  <2> QED
    BY <1>5, <2>1 DEF TypeOK, ConnectFailed
<1>6. ASSUME NEW a \in Conns, GreetingDone(a) PROVE TypeOK'
  <2>1. attempt[a].done + 1 \in 0..2
    BY <1>6, BoundsAssumption DEF TypeOK, Bookkeeping, GreetingDone, Attempt
  <2>2. attempt' \in [Conns -> Attempt]
    BY <1>6, <2>1 DEF TypeOK, GreetingDone, Attempt, Reply
  <2>3. pending' \in Seq(Owner) /\ wire' \in [Conns -> Seq(Owner)]
    BY <1>6, WriteTyped DEF TypeOK, GreetingDone, Owner
  <2> QED
    BY <1>6, <2>2, <2>3 DEF TypeOK, GreetingDone
<1>7. ASSUME NEW a \in Conns, GreetingFailed(a) PROVE TypeOK'
  <2>1. attempt' \in [Conns -> Attempt]
    <3>1. attempt \in [Conns -> Attempt]
      BY DEF TypeOK
    <3>2. attempt' = [attempt EXCEPT ![a].at = "failed"]
      BY <1>7 DEF GreetingFailed
    <3> QED
      BY <3>1, <3>2, AttemptKinds DEF AttemptSteps
  <2> QED
    BY <1>7, <2>1 DEF TypeOK, GreetingFailed
<1>8. ASSUME NEW a \in Conns, Refused(a) PROVE TypeOK'
  <2>1. caller' \in [Commands -> Caller] /\ attempt' \in [Conns -> Attempt]
    <3>1. caller \in [Commands -> Caller] /\ attempt \in [Conns -> Attempt]
      BY DEF TypeOK
    <3>2. \A d \in Commands : caller'[d] \in Caller
      BY <1>8, <3>1, CallerKinds DEF Refused
    <3>3. \A b \in Conns : attempt'[b] \in Attempt
      BY <1>8, <3>1, AttemptKinds, NoneIsReply DEF Refused, AttemptSteps
    <3> QED
      BY <1>8, <3>2, <3>3 DEF Refused
  <2>2. closing \in [Conns -> 0..2] /\ \A b \in Conns : conn[b] = "open" => closing[b] = 0
    BY DEF TypeOK, Bookkeeping
  <2> QED
    BY <1>8, <2>1, <2>2, GiveUpTyped DEF TypeOK, Refused
<1>9. ASSUME NEW a \in Conns, NEW n \in 0..Cardinality(Commands) + 2,
             NEW part \in BOOLEAN, Receive(a, n, part)
      PROVE  TypeOK'
  <2>1. wire[a] \in Seq(Owner) /\ n \in 0..Len(wire[a]) /\ pending \in Seq(Owner)
    BY <1>9 DEF TypeOK, Receive
  <2>2. CASE n > Len(pending)
    <3> DEFINE reply == [o \in Waiters(pending) |->
                 wire[a][CHOOSE i \in DOMAIN pending : pending[i] = o]]
    <3>1. \A o \in DOMAIN reply : reply[o] \in Reply
      <4> SUFFICES ASSUME NEW o \in Waiters(pending) PROVE reply[o] \in Reply
        OBVIOUS
      <4> DEFINE k == CHOOSE i \in DOMAIN pending : pending[i] = o
      <4>1. k \in 1..Len(pending)
        BY <2>1 DEF Waiters
      <4>2. k \in 1..Len(wire[a])
        BY <2>1, <2>2, <4>1
      <4>3. wire[a][k] \in Owner
        BY <2>1, <4>2
      <4> QED
        BY <4>3 DEF Reply
    <3>2. Settle(reply) /\ GiveUp(closing)
      BY <1>9, <2>2 DEF Receive
    <3>3. closing \in [Conns -> 0..2] /\ \A b \in Conns : conn[b] = "open" => closing[b] = 0
      BY DEF TypeOK, Bookkeeping
    <3>4. caller' \in [Commands -> Caller] /\ attempt' \in [Conns -> Attempt]
      BY <3>1, <3>2, SettleTyped
    <3> QED
      BY <1>9, <3>2, <3>3, <3>4, GiveUpTyped DEF TypeOK, Receive
  <2>3. CASE n <= Len(pending)
    <3> DEFINE reply == [o \in Waiters(SubSeq(pending, 1, n)) |->
                 wire[a][CHOOSE i \in 1..n : pending[i] = o]]
    <3>1. \A o \in DOMAIN reply : reply[o] \in Reply
      <4> SUFFICES ASSUME NEW o \in Waiters(SubSeq(pending, 1, n)) PROVE reply[o] \in Reply
        OBVIOUS
      <4> DEFINE k == CHOOSE i \in 1..n : pending[i] = o
      <4>1. \E i \in 1..n : pending[i] = o
        BY <2>1, <2>3, FirstOnes DEF Waiters
      <4>2. k \in 1..n
        BY <4>1
      <4>3. wire[a][k] \in Owner
        BY <2>1, <4>2
      <4> QED
        BY <4>3 DEF Reply
    <3>2. Settle(reply) /\ ~(n > Len(pending))
      BY <1>9, <2>1, <2>3 DEF Receive
    <3>3. SubSeq(pending, n + 1, Len(pending)) \in Seq(Owner)
          /\ SubSeq(wire[a], n + 1, Len(wire[a])) \in Seq(Owner)
      BY <2>1, RestTyped
    <3>4. caller' \in [Commands -> Caller] /\ attempt' \in [Conns -> Attempt]
      BY <3>1, <3>2, SettleTyped
    <3> QED
      BY <1>9, <3>2, <3>3, <3>4 DEF TypeOK, Receive
  <2> QED
    BY <2>1, <2>2, <2>3
<1>10. ASSUME NEW a \in Conns, ReceiveGarbled(a) PROVE TypeOK'
  <2>1. wire[a] \in Seq(Owner) /\ wire[a] # <<>> /\ Tail(wire[a]) \in Seq(Owner)
    BY <1>10 DEF TypeOK, ReceiveGarbled
  <2>2. CASE Drop(closing)
    <3>1. closing \in [Conns -> 0..2] /\ \A b \in Conns : conn[b] = "open" => closing[b] = 0
      BY DEF TypeOK, Bookkeeping
    <3> QED
      BY <1>10, <2>2, <3>1, DropTyped DEF ReceiveGarbled
  <2>3. CASE ~Drop(closing)
    <3>1. caller' \in [Commands -> Caller] /\ attempt' \in [Conns -> Attempt]
          /\ pending' \in Seq(Owner)
      <4>1. CASE UNCHANGED <<pending, caller, attempt>>
        BY <4>1 DEF TypeOK
      <4>2. CASE /\ pending # <<>> /\ pending' = Tail(pending)
                 /\ Settle([o \in {Head(pending)} |-> Garbled])
        <5>1. pending' \in Seq(Owner)
          BY <4>2 DEF TypeOK
        <5>2. Garbled \in Reply
          BY DEF Reply
        <5> QED
          BY <4>2, <5>1, <5>2, SettleTyped
      <4> QED
        BY <1>10, <2>3, <4>1, <4>2 DEF ReceiveGarbled
    <3> QED
      BY <1>10, <2>1, <2>3, <3>1 DEF TypeOK, ReceiveGarbled
  <2> QED
    BY <2>2, <2>3
<1>11. CASE Timeout
  <2>1. closing \in [Conns -> 0..2] /\ \A b \in Conns : conn[b] = "open" => closing[b] = 0
    BY DEF TypeOK, Bookkeeping
  <2> QED
    BY <1>11, <2>1, DropTyped DEF Timeout
<1>12. ASSUME NEW a \in Conns, Lost(a) PROVE TypeOK'
  BY <1>12 DEF TypeOK, Lost
<1>13. ASSUME NEW a \in Conns, Closed(a) PROVE TypeOK'
  <2> DEFINE due == [closing EXCEPT ![a] = @ - 1]
  <2>1. closing \in [Conns -> 0..2] /\ closing[a] \in 0..2 /\ closing[a] > 0
    BY <1>13 DEF TypeOK, Closed
  <2>2. closing[a] - 1 \in 0..2
    BY <2>1
  <2>3. due \in [Conns -> 0..2]
    BY <2>1, <2>2
  <2>4. \A b \in Conns : conn[b] = "open" => due[b] = 0
    BY <2>1 DEF TypeOK, Bookkeeping
  <2> QED
    BY <1>13, <2>3, <2>4, DropTyped DEF Closed
<1>14. CASE UNCHANGED vars
  BY <1>14 DEF TypeOK, vars
<1> QED
  BY <1>1, <1>2, <1>3, <1>4, <1>5, <1>6, <1>7, <1>8, <1>9, <1>10, <1>11, <1>12,
     <1>13, <1>14 DEF Next, Continue, Event

-----------------------------------------------------------------------------
(***************************************************************************)
(* Bookkeeping and the queue.                                              *)
(***************************************************************************)
\* What an answer, a refusal or a drop may do to those who wait.
Resolves ==
  /\ \A c \in Commands :
       \/ caller'[c] = caller[c]
       \/ caller[c].at = "waiting" /\ caller'[c].at = "done"
  /\ \A a \in Conns :
       \/ attempt'[a] = attempt[a]
       \/ /\ attempt[a].at \in {"greeting", "resumed"}
          /\ attempt'[a].at \in {"resumed", "failed"}
          /\ attempt'[a].done = attempt[a].done

\* Whoever is in the queue waits.
LEMMA WaitersWait ==
  ASSUME TypeOK, QueueWaits
  PROVE  /\ \A c \in Commands : c \in Waiters(pending) => caller[c].at = "waiting"
         /\ \A a \in Conns : a \in Waiters(pending) => attempt[a].at = "greeting"
  <1>1. \A o \in Waiters(pending) : \E i \in 1..Len(pending) : pending[i] = o
    BY DEF Waiters, TypeOK
  <1> QED
    BY <1>1 DEF QueueWaits

\* Null is given to the whole queue, and to nobody else.
LEMMA DropSettles ==
  ASSUME TypeOK, QueueWaits, NEW due, Drop(due)
  PROVE  /\ Resolves
         /\ \A c \in Commands : caller'[c] = caller[c] \/ caller'[c].got = None
         /\ \A a \in Conns : attempt'[a] = attempt[a] \/ attempt'[a].got = None
  <1>1. Settle(AllNull) /\ DOMAIN AllNull = Waiters(pending)
        /\ \A o \in DOMAIN AllNull : AllNull[o] = None
    BY NullsTyped DEF Drop
  <1>2. \A c \in Commands :
          \/ caller'[c] = caller[c]
          \/ caller[c].at = "waiting" /\ caller'[c].at = "done" /\ caller'[c].got = None
    BY <1>1, WaitersWait, SettleCallers
  <1>3. \A a \in Conns :
          \/ attempt'[a] = attempt[a]
          \/ /\ attempt[a].at = "greeting" /\ attempt'[a].at = "resumed"
             /\ attempt'[a].done = attempt[a].done /\ attempt'[a].got = None
    BY <1>1, WaitersWait, SettleAttempts
  <1> QED
    BY <1>2, <1>3 DEF Resolves

\* What a client that has given its connection up keeps.
LEMMA GaveUp ==
  ASSUME TypeOK, Bookkeeping, QueueWaits, Resolves, NEW due \in [Conns -> 0..2],
         \A a \in Conns : conn[a] \in {"none", "open"} => due[a] = 0, GiveUp(due)
  PROVE  Bookkeeping' /\ QueueWaits' /\ OpenerWaits'
  <1>1. socket' = None /\ opening' = None /\ pending' = <<>>
    BY DEF GiveUp
  <1>2. ASSUME NEW a \in Conns, attempt'[a].at \in {"none", "connecting"}
        PROVE  conn'[a] = "none" /\ wire'[a] = <<>> /\ half'[a] = FALSE /\ attempt'[a].done = 0
    <2>1. attempt'[a] = attempt[a]
      BY <1>2 DEF Resolves
    <2>2. conn[a] = "none" /\ wire[a] = <<>> /\ half[a] = FALSE /\ attempt[a].done = 0
      BY <1>2, <2>1 DEF Bookkeeping
    <2>3. a # socket
      BY <2>2, NullAssumption DEF Bookkeeping
    <2> QED
      BY <2>1, <2>2, <2>3 DEF GiveUp
  <1>3. \A a \in Conns : conn'[a] \in {"none", "open"} => closing'[a] = 0
    BY DEF GiveUp, Bookkeeping
  <1>4. \A a \in Conns : attempt'[a].at \in {"greeting", "resumed"} => attempt'[a].done < Greetings
    BY DEF Resolves, Bookkeeping
  <1>5. \A a \in Conns : attempt'[a].at = "opened" => attempt'[a].sock # None
    BY DEF Resolves, Bookkeeping
  <1>6. \A c \in Commands : caller'[c].at \in {"joining", "holding"} => caller'[c].on \in Conns
    BY DEF Resolves, Bookkeeping
  <1>7. Len(pending') = 0
    BY <1>1
  <1>8. Bookkeeping'
    BY <1>1, <1>2, <1>3, <1>4, <1>5, <1>6 DEF Bookkeeping
  <1>9. QueueWaits'
    BY <1>7 DEF QueueWaits
  <1>10. OpenerWaits'
    BY <1>1 DEF OpenerWaits
  <1> QED
    BY <1>8, <1>9, <1>10

LEMMA GaveUpOne ==
  ASSUME TypeOK, OneSocket, Resolves, NEW due, GiveUp(due), crossed' = crossed,
         OwnReply => OwnReply',
         \A c \in Commands : caller[c].at # "holding",
         \A c \in Commands : caller[c].at = "joining" => attempt[caller[c].on].at # "opened",
         \A c \in Commands : caller[c].at = "joining" => caller[c].on \in Conns,
         \A a \in Conns : attempt'[a].at = "resumed" => attempt'[a].got = None
  PROVE  OneSocket'
  <1> SUFFICES ASSUME ~crossed PROVE (InOrder /\ HoldersHoldIt)'
    BY DEF OneSocket
  <1>1. socket' = None /\ buffer' = None /\ pending' = <<>>
    BY DEF GiveUp
  <1>2. \A a \in Conns : conn'[a] # "open"
    BY DEF GiveUp, OneSocket, InOrder
  <1>3. \A c \in Commands : caller'[c].at # "holding"
    BY DEF Resolves
  <1>4. \A c \in Commands : caller'[c].at = "joining" => attempt'[caller'[c].on].at # "opened"
    BY DEF Resolves
  <1>5. Len(pending') = 0
    BY <1>1
  <1> QED
    BY <1>1, <1>2, <1>3, <1>4, <1>5 DEF InOrder, HoldersHoldIt

LEMMA InvInit == Init => Bookkeeping /\ QueueWaits /\ OpenerWaits /\ OneSocket
  BY DEF Init, Bookkeeping, QueueWaits, OpenerWaits, OneSocket, InOrder, HoldersHoldIt,
         OwnReply

-----------------------------------------------------------------------------
\* A partial answer: the first of the queue are told, the rest wait on.
LEMMA AnswerResolves ==
  ASSUME TypeOK, QueueWaits, NEW n \in 0..Len(pending), NEW reply, Settle(reply),
         DOMAIN reply = {pending[i] : i \in 1..n},
         pending' = SubSeq(pending, n + 1, Len(pending))
  PROVE  Resolves /\ QueueWaits'
  <1>1. pending \in Seq(Owner) /\ pending' \in Seq(Owner)
        /\ Len(pending') = Len(pending) - n
        /\ \A i \in 1..Len(pending') : pending'[i] = pending[i + n] /\ i + n \in 1..Len(pending)
    <2>1. pending \in Seq(Owner)
      BY DEF TypeOK
    <2> QED
      BY <2>1, Rest, RestTyped
  <1>2. \A o \in DOMAIN reply : \E i \in 1..Len(pending) : i <= n /\ pending[i] = o
    BY <1>1
  <1>w. \A i \in 1..Len(pending) :
          /\ pending[i] \in Commands => caller[pending[i]].at = "waiting"
          /\ pending[i] \in Conns => attempt[pending[i]].at = "greeting"
    BY DEF QueueWaits
  <1>3. \A c \in Commands : c \in DOMAIN reply => caller[c].at = "waiting"
    BY <1>2, <1>w
  <1>4. \A a \in Conns : a \in DOMAIN reply => attempt[a].at = "greeting"
    BY <1>2, <1>w
  <1>5. Resolves
    BY <1>3, <1>4, SettleCallers, SettleAttempts DEF Resolves
  <1>6. ASSUME NEW i \in 1..Len(pending') PROVE pending'[i] \notin DOMAIN reply
    <2> SUFFICES ASSUME NEW j \in 1..Len(pending), j <= n, pending[j] = pending[i + n]
                 PROVE  FALSE
      BY <1>1, <1>2
    <2>1. i + n \in 1..Len(pending) /\ j # i + n
      BY <1>1
    <2> QED
      BY <2>1 DEF QueueWaits
  <1>7. \A i, j \in 1..Len(pending') : pending'[i] = pending'[j] => i = j
    BY <1>1 DEF QueueWaits
  <1>8. ASSUME NEW i \in 1..Len(pending')
        PROVE  /\ pending'[i] \in Commands => caller'[pending'[i]].at = "waiting"
               /\ pending'[i] \in Conns => attempt'[pending'[i]].at = "greeting"
    <2>1. pending'[i] = pending[i + n] /\ i + n \in 1..Len(pending)
      BY <1>1, <1>8
    <2>2. /\ pending'[i] \in Commands => caller[pending'[i]].at = "waiting"
          /\ pending'[i] \in Conns => attempt[pending'[i]].at = "greeting"
      BY <2>1 DEF QueueWaits
    <2> QED
      BY <2>2, <1>6, <1>8, SettleCallers, SettleAttempts
  <1> QED
    BY <1>5, <1>7, <1>8 DEF QueueWaits

\* What is kept when callers and attempts are told and the socket stays.
LEMMA ResolvesKeeps ==
  ASSUME TypeOK, Bookkeeping, OpenerWaits, Resolves,
         UNCHANGED <<socket, opening, conn, closing>>,
         \A a \in Conns : conn[a] = "none" => wire'[a] = wire[a] /\ half'[a] = half[a]
  PROVE  Bookkeeping' /\ OpenerWaits'
  <1>1. \A a \in Conns :
          /\ attempt'[a].at \in {"none", "connecting"} =>
               conn'[a] = "none" /\ wire'[a] = <<>> /\ half'[a] = FALSE /\ attempt'[a].done = 0
          /\ conn'[a] \in {"none", "open"} => closing'[a] = 0
          /\ attempt'[a].at \in {"greeting", "resumed"} => attempt'[a].done < Greetings
          /\ attempt'[a].at = "opened" => attempt'[a].sock # None
    BY DEF Resolves, Bookkeeping
  <1>2. opening' # None =>
          attempt'[opening'].at # "none" /\ (attempt'[opening'].at = "opened" => socket' # None)
    BY DEF Resolves, Bookkeeping, TypeOK
  <1>3. \A c \in Commands : caller'[c].at \in {"joining", "holding"} => caller'[c].on \in Conns
    BY DEF Resolves, Bookkeeping
  <1>4. OpenerWaits'
    <2> SUFFICES ASSUME opening # None, attempt'[opening].at # "opened"
                 PROVE  \E c \in Commands : /\ caller'[c].at = "joining" /\ caller'[c].on = opening
                                            /\ caller'[c].opener
      BY DEF OpenerWaits
    <2>1. opening \in Conns /\ attempt[opening].at # "opened"
      BY DEF TypeOK, Resolves
    <2>2. PICK c \in Commands : /\ caller[c].at = "joining" /\ caller[c].on = opening
                                /\ caller[c].opener
      BY <2>1 DEF OpenerWaits
    <2> QED
      BY <2>2 DEF Resolves
  <1> QED
    BY <1>1, <1>2, <1>3, <1>4 DEF Bookkeeping

\* Writing puts in the queue, once, somebody who was not in it.
LEMMA WriteQueues ==
  ASSUME TypeOK, QueueWaits, NEW o \in Owner, pending' = Append(pending, o),
         \A i \in 1..Len(pending) : pending[i] # o,
         o \in Commands => caller'[o].at = "waiting",
         o \in Conns => attempt'[o].at = "greeting",
         \A c \in Commands : c # o => caller'[c] = caller[c],
         \A a \in Conns : a # o => attempt'[a] = attempt[a]
  PROVE  QueueWaits'
  <1>1. pending \in Seq(Owner)
    BY DEF TypeOK
  <1>2. Len(pending') = Len(pending) + 1 /\ pending'[Len(pending) + 1] = o
        /\ \A i \in 1..Len(pending) : pending'[i] = pending[i]
    BY <1>1
  <1>3. \A i, j \in 1..Len(pending') : pending'[i] = pending'[j] => i = j
    BY <1>1, <1>2 DEF QueueWaits
  <1>4. ASSUME NEW i \in 1..Len(pending')
        PROVE  /\ pending'[i] \in Commands => caller'[pending'[i]].at = "waiting"
               /\ pending'[i] \in Conns => attempt'[pending'[i]].at = "greeting"
    <2>1. CASE i = Len(pending) + 1
      BY <1>2, <2>1
    <2>2. CASE i \in 1..Len(pending)
      BY <1>2, <2>2 DEF QueueWaits
    <2> QED
      BY <1>1, <1>2, <2>1, <2>2
  <1> QED
    BY <1>3, <1>4 DEF QueueWaits

LEMMA BookStep ==
  TypeOK /\ Bookkeeping /\ QueueWaits /\ OpenerWaits /\ [Next]_vars =>
    Bookkeeping' /\ QueueWaits' /\ OpenerWaits'
<1> SUFFICES ASSUME TypeOK, Bookkeeping, QueueWaits, OpenerWaits, [Next]_vars
             PROVE  Bookkeeping' /\ QueueWaits' /\ OpenerWaits'
  OBVIOUS
<1> USE DEF client, network, history
<1>0. /\ caller \in [Commands -> Caller] /\ attempt \in [Conns -> Attempt]
      /\ opening \in Conns \cup {None} /\ socket \in Conns \cup {None}
      /\ None \notin Conns /\ Commands \cap Conns = {}
  BY NullAssumption DEF TypeOK
<1>1. ASSUME NEW c \in Commands, Ask(c) PROVE Bookkeeping' /\ QueueWaits' /\ OpenerWaits'
  <2>1. /\ \A d \in Commands : d # c => caller'[d] = caller[d]
        /\ caller[c].at = "idle" /\ caller'[c].at \in {"holding", "joining"}
        /\ UNCHANGED <<socket, buffer, pending, conn, closing, wire, half>>
    <3>1. \E o \in Conns \cup {None} :
            \/ caller' = [caller EXCEPT ![c].at = "holding", ![c].on = o]
            \/ caller' = [caller EXCEPT ![c].at = "joining", ![c].on = o]
            \/ caller' = [caller EXCEPT ![c].at = "joining", ![c].on = o, ![c].opener = TRUE]
      BY <1>1, <1>0 DEF Ask
    <3>2. caller[c].at = "idle"
          /\ UNCHANGED <<socket, buffer, pending, conn, closing, wire, half>>
      BY <1>1 DEF Ask
    <3> QED
      BY <3>1, <3>2, <1>0 DEF Caller
  <2>2. CASE /\ UNCHANGED <<opening, attempt>> /\ caller'[c].on \in Conns
    <3>1. Bookkeeping'
      BY <2>1, <2>2 DEF Bookkeeping
    <3>2. QueueWaits'
      BY <2>1, <2>2 DEF QueueWaits
    <3>3. OpenerWaits'
      BY <2>1, <2>2 DEF OpenerWaits
    <3> QED
      BY <3>1, <3>2, <3>3
  <2>3. ASSUME NEW a \in Conns, attempt[a].at = "none",
               attempt' = [attempt EXCEPT ![a].at = "connecting"], opening' = a,
               caller' = [caller EXCEPT ![c].at = "joining", ![c].on = a, ![c].opener = TRUE]
        PROVE  Bookkeeping' /\ QueueWaits' /\ OpenerWaits'
    <3>1. /\ attempt'[a].at = "connecting" /\ attempt'[a].done = attempt[a].done
          /\ \A b \in Conns : b # a => attempt'[b] = attempt[b]
          /\ caller'[c].at = "joining" /\ caller'[c].on = a /\ caller'[c].opener
      BY <2>3, <1>0 DEF Attempt, Caller
    <3>2. Bookkeeping'
      BY <2>1, <2>3, <3>1, <1>0 DEF Bookkeeping
    <3>3. QueueWaits'
      <4>1. \A i \in 1..Len(pending) : pending[i] # a /\ pending[i] # c
        BY <2>1, <2>3, <1>0 DEF QueueWaits
      <4> QED
        BY <2>1, <3>1, <4>1 DEF QueueWaits
    <3>4. OpenerWaits'
      BY <2>3, <3>1 DEF OpenerWaits
    <3> QED
      BY <3>2, <3>3, <3>4
  <2> QED
    <3>1. CASE socket # None /\ caller' = [caller EXCEPT ![c].at = "holding", ![c].on = socket]
                 /\ UNCHANGED <<opening, attempt>>
      BY <2>2, <3>1, <1>0 DEF Caller
    <3>2. CASE opening # None /\ caller' = [caller EXCEPT ![c].at = "joining", ![c].on = opening]
                 /\ UNCHANGED <<opening, attempt>>
      BY <2>2, <3>2, <1>0 DEF Caller
    <3> QED
      BY <1>1, <2>3, <3>1, <3>2 DEF Ask
<1>2. ASSUME NEW c \in Commands, Join(c) PROVE Bookkeeping' /\ QueueWaits' /\ OpenerWaits'
  <2>1. /\ \A d \in Commands : d # c => caller'[d] = caller[d]
        /\ caller[c].at = "joining" /\ caller[c].on \in Conns
        /\ UNCHANGED <<socket, buffer, pending, attempt, conn, closing, wire, half>>
    BY <1>2, <1>0 DEF Join, Joined, Bookkeeping
  <2>2. CASE attempt[caller[c].on].at = "opened"
    <3>1. caller' = [caller EXCEPT ![c].at = "holding", ![c].on = attempt[caller[c].on].sock]
          /\ UNCHANGED opening
      BY <1>2, <2>2 DEF Join
    <3>2. attempt[caller[c].on].sock \in Conns
      BY <1>0, <2>1, <2>2 DEF Bookkeeping, Attempt
    <3>3. caller'[c].at = "holding" /\ caller'[c].on \in Conns
      BY <1>0, <3>1, <3>2 DEF Caller
    <3>4. Bookkeeping'
      BY <2>1, <3>1, <3>3 DEF Bookkeeping
    <3>5. QueueWaits'
      BY <2>1, <3>3 DEF QueueWaits
    <3>6. OpenerWaits'
      BY <2>1, <2>2, <3>1 DEF OpenerWaits
    <3> QED
      BY <3>4, <3>5, <3>6
  <2>3. CASE attempt[caller[c].on].at # "opened"
    <3>1. caller' = [caller EXCEPT ![c].at = "done", ![c].on = None]
          /\ opening' = IF caller[c].opener THEN None ELSE opening
      BY <1>2, <2>3 DEF Join
    <3>2. caller'[c].at = "done"
      BY <1>0, <3>1 DEF Caller
    <3>3. Bookkeeping'
      BY <2>1, <3>1, <3>2 DEF Bookkeeping
    <3>4. QueueWaits'
      BY <2>1, <3>2 DEF QueueWaits
    <3>5. OpenerWaits'
      BY <2>1, <3>1 DEF OpenerWaits
    <3> QED
      BY <3>3, <3>4, <3>5
  <2> QED
    BY <2>2, <2>3
<1>3. ASSUME NEW c \in Commands, Send(c) PROVE Bookkeeping' /\ QueueWaits' /\ OpenerWaits'
  <2>1. /\ \A d \in Commands : d # c => caller'[d] = caller[d]
        /\ caller[c].at = "holding" /\ caller'[c].at = "waiting" /\ caller[c].on \in Conns
        /\ pending' = Append(pending, c)
        /\ UNCHANGED <<socket, opening, buffer, attempt, conn, closing, half>>
    BY <1>3, <1>0 DEF Send, Write, Bookkeeping, Caller
  <2>2. \A a \in Conns : conn[a] = "none" => wire'[a] = wire[a]
    BY <1>3, <2>1 DEF Send, Write, TypeOK
  <2>3. Bookkeeping'
    BY <2>1, <2>2 DEF Bookkeeping
  <2>4. c \in Owner /\ c \notin Conns /\ \A i \in 1..Len(pending) : pending[i] # c
    BY <2>1, <1>0 DEF QueueWaits, Owner
  <2>5. QueueWaits'
    BY <2>1, <2>4, WriteQueues
  <2>6. OpenerWaits'
    BY <2>1 DEF OpenerWaits
  <2> QED
    BY <2>3, <2>5, <2>6
<1>4. ASSUME NEW a \in Conns, Connected(a) PROVE Bookkeeping' /\ QueueWaits' /\ OpenerWaits'
  <2>1. /\ attempt[a].at = "connecting" /\ socket' = a /\ conn[a] = "none"
        /\ UNCHANGED <<opening, buffer, caller, closing, half>>
        /\ conn'[a] = "open" /\ \A b \in Conns : b # a => conn'[b] = conn[b]
        /\ closing[a] = 0 /\ attempt[a].done = 0
    BY <1>4 DEF Connected, Bookkeeping, TypeOK
  <2>2. CASE Greetings = 0
    <3>1. attempt' = [attempt EXCEPT ![a].at = "opened", ![a].sock = a]
          /\ UNCHANGED <<pending, wire>>
      BY <1>4, <2>2 DEF Connected
    <3>2. /\ attempt'[a].at = "opened" /\ attempt'[a].sock = a
          /\ \A b \in Conns : b # a => attempt'[b] = attempt[b]
      BY <3>1, <1>0 DEF Attempt
    <3>3. Bookkeeping'
      BY <2>1, <3>1, <3>2, <1>0 DEF Bookkeeping
    <3>4. QueueWaits'
      <4>1. \A i \in 1..Len(pending) : pending[i] # a
        BY <2>1, <1>0 DEF QueueWaits
      <4>2. pending' = pending /\ caller' = caller
        BY <2>1, <3>1
      <4> QED
        BY <3>2, <4>1, <4>2 DEF QueueWaits
    <3>5. OpenerWaits'
      BY <2>1, <3>2, <1>0 DEF OpenerWaits
    <3> QED
      BY <3>3, <3>4, <3>5
  <2>3. CASE Greetings # 0
    <3>1. attempt' = [attempt EXCEPT ![a].at = "greeting"]
          /\ pending' = Append(pending, a) /\ wire' = [wire EXCEPT ![a] = Append(@, a)]
      BY <1>4, <2>3 DEF Connected
    <3>2. /\ attempt'[a].at = "greeting" /\ attempt'[a].done = 0
          /\ \A b \in Conns : b # a => attempt'[b] = attempt[b]
      BY <2>1, <3>1, <1>0 DEF Attempt
    <3>3. 0 < Greetings
      BY <2>3, BoundsAssumption
    <3>4. \A b \in Conns : b # a => wire'[b] = wire[b]
      BY <3>1 DEF TypeOK
    <3>5. Bookkeeping'
      BY <2>1, <3>2, <3>3, <3>4, <1>0 DEF Bookkeeping
    <3>6. a \in Owner /\ a \notin Commands /\ \A i \in 1..Len(pending) : pending[i] # a
      BY <2>1, <1>0 DEF QueueWaits, Owner
    <3>7. QueueWaits'
      BY <2>1, <3>1, <3>2, <3>6, WriteQueues
    <3>8. OpenerWaits'
      BY <2>1, <3>2, <1>0 DEF OpenerWaits
    <3> QED
      BY <3>5, <3>7, <3>8
  <2> QED
    BY <2>2, <2>3
<1>5. ASSUME NEW a \in Conns, ConnectFailed(a)
      PROVE  Bookkeeping' /\ QueueWaits' /\ OpenerWaits'
  <2>1. /\ attempt[a].at = "connecting" /\ attempt'[a].at = "failed"
        /\ \A b \in Conns : b # a => attempt'[b] = attempt[b]
        /\ UNCHANGED <<client, caller, network>>
    BY <1>5, <1>0 DEF ConnectFailed, Attempt
  <2>2. Bookkeeping'
    BY <2>1, <1>0 DEF Bookkeeping
  <2>3. QueueWaits'
    BY <2>1 DEF QueueWaits
  <2>4. OpenerWaits'
    BY <2>1, <1>0 DEF OpenerWaits
  <2> QED
    BY <2>2, <2>3, <2>4
<1>6. ASSUME NEW a \in Conns, GreetingDone(a)
      PROVE  Bookkeeping' /\ QueueWaits' /\ OpenerWaits'
  <2>1. /\ attempt[a].at = "resumed"
        /\ \A b \in Conns : b # a => attempt'[b] = attempt[b]
        /\ UNCHANGED <<socket, opening, buffer, caller, conn, closing, half>>
        /\ \A i \in 1..Len(pending) : pending[i] # a
    BY <1>6, <1>0 DEF GreetingDone, QueueWaits
  <2>2. CASE attempt[a].done + 1 < Greetings
    <3>1. /\ attempt' = [attempt EXCEPT ![a].at = "greeting", ![a].done = attempt[a].done + 1,
                                        ![a].got = None]
          /\ pending' = Append(pending, a)
          /\ wire' = IF conn[a] = "open" THEN [wire EXCEPT ![a] = Append(@, a)] ELSE wire
      BY <1>6, <2>2 DEF GreetingDone, Write
    <3>2. attempt'[a].at = "greeting" /\ attempt'[a].done = attempt[a].done + 1
      BY <3>1, <1>0 DEF Attempt
    <3>3. \A b \in Conns : conn[b] = "none" => wire'[b] = wire[b]
      BY <3>1 DEF TypeOK
    <3>4. Bookkeeping'
      BY <2>1, <2>2, <3>2, <3>3, <1>0 DEF Bookkeeping
    <3>5. a \in Owner /\ a \notin Commands
      BY <1>0 DEF Owner
    <3>6. QueueWaits'
      BY <2>1, <3>1, <3>2, <3>5, WriteQueues
    <3>7. OpenerWaits'
      BY <2>1, <3>2, <1>0 DEF OpenerWaits
    <3> QED
      BY <3>4, <3>6, <3>7
  <2>3. CASE ~(attempt[a].done + 1 < Greetings)
    <3>1. /\ attempt' = [attempt EXCEPT
               ![a].at = IF socket = None THEN "failed" ELSE "opened",
               ![a].done = attempt[a].done + 1, ![a].got = None, ![a].sock = socket]
          /\ UNCHANGED <<pending, wire>>
      BY <1>6, <2>3 DEF GreetingDone
    <3>2. attempt'[a].at = (IF socket = None THEN "failed" ELSE "opened")
          /\ attempt'[a].sock = socket
      BY <3>1, <1>0 DEF Attempt
    <3>3. Bookkeeping'
      BY <2>1, <3>1, <3>2, <1>0 DEF Bookkeeping
    <3>4. QueueWaits'
      <4>1. pending' = pending /\ caller' = caller
        BY <2>1, <3>1
      <4> QED
        BY <2>1, <4>1 DEF QueueWaits
    <3>5. OpenerWaits'
      BY <2>1, <3>2, <1>0 DEF OpenerWaits
    <3> QED
      BY <3>3, <3>4, <3>5
  <2> QED
    BY <2>2, <2>3
<1>7. ASSUME NEW a \in Conns, GreetingFailed(a)
      PROVE  Bookkeeping' /\ QueueWaits' /\ OpenerWaits'
  <2>1. Resolves
    BY <1>7 DEF GreetingFailed, Resolves, TypeOK, Attempt
  <2>2. Bookkeeping' /\ OpenerWaits'
    BY <1>7, <2>1, ResolvesKeeps DEF GreetingFailed
  <2>3. QueueWaits'
    BY <1>7, <1>0 DEF GreetingFailed, QueueWaits
  <2> QED
    BY <2>2, <2>3
<1>8. ASSUME NEW a \in Conns, Refused(a) PROVE Bookkeeping' /\ QueueWaits' /\ OpenerWaits'
  <2>1. \A c \in Commands : c \in Waiters(pending) => caller[c].at = "waiting"
    BY WaitersWait
  <2>2. \A b \in Conns : b \in Waiters(pending) => attempt[b].at = "greeting"
    BY WaitersWait
  <2>3. Resolves
    <3>1. \A c \in Commands :
            caller'[c] = caller[c] \/ (caller[c].at = "waiting" /\ caller'[c].at = "done")
      BY <1>8, <1>0, <2>1 DEF Refused, Caller
    <3>2. \A b \in Conns :
            \/ attempt'[b] = attempt[b]
            \/ /\ attempt[b].at \in {"greeting", "resumed"}
               /\ attempt'[b].at \in {"resumed", "failed"} /\ attempt'[b].done = attempt[b].done
      BY <1>8, <1>0, <2>2 DEF Refused, Attempt
    <3> QED
      BY <3>1, <3>2 DEF Resolves
  <2>4. closing \in [Conns -> 0..2]
        /\ \A b \in Conns : conn[b] \in {"none", "open"} => closing[b] = 0
    BY DEF TypeOK, Bookkeeping
  <2> QED
    BY <1>8, <2>3, <2>4, GaveUp DEF Refused
<1>9. ASSUME NEW a \in Conns, NEW n \in 0..Cardinality(Commands) + 2,
             NEW part \in BOOLEAN, Receive(a, n, part)
      PROVE  Bookkeeping' /\ QueueWaits' /\ OpenerWaits'
  <2>1. pending \in Seq(Owner) /\ n \in Nat
    BY <1>9 DEF TypeOK, Receive
  <2>2. CASE n > Len(pending)
    <3> DEFINE reply == [o \in Waiters(pending) |->
                 wire[a][CHOOSE i \in DOMAIN pending : pending[i] = o]]
    <3>1. Settle(reply) /\ GiveUp(closing) /\ DOMAIN reply = Waiters(pending)
      BY <1>9, <2>2 DEF Receive
    <3>2. Resolves
      BY <3>1, WaitersWait, SettleCallers, SettleAttempts DEF Resolves
    <3>3. closing \in [Conns -> 0..2]
          /\ \A b \in Conns : conn[b] \in {"none", "open"} => closing[b] = 0
      BY DEF TypeOK, Bookkeeping
    <3> QED
      BY <3>1, <3>2, <3>3, GaveUp
  <2>3. CASE n <= Len(pending)
    <3> DEFINE reply == [o \in Waiters(SubSeq(pending, 1, n)) |->
                 wire[a][CHOOSE i \in 1..n : pending[i] = o]]
    <3>1. Settle(reply) /\ pending' = SubSeq(pending, n + 1, Len(pending))
          /\ UNCHANGED <<socket, opening, conn, closing>>
      BY <1>9, <2>1, <2>3 DEF Receive
    <3>2. n \in 0..Len(pending) /\ DOMAIN reply = {pending[i] : i \in 1..n}
      BY <2>1, <2>3, FirstOnes
    <3>3. Resolves /\ QueueWaits'
      <4> HIDE DEF reply
      <4> QED
        BY <3>1, <3>2, AnswerResolves
    <3>4. \A b \in Conns : conn[b] = "none" => wire'[b] = wire[b] /\ half'[b] = half[b]
      BY <1>9, <2>1, <2>3 DEF Receive, TypeOK
    <3> QED
      BY <3>1, <3>3, <3>4, ResolvesKeeps
  <2> QED
    BY <2>1, <2>2, <2>3
<1>10. ASSUME NEW a \in Conns, ReceiveGarbled(a)
       PROVE  Bookkeeping' /\ QueueWaits' /\ OpenerWaits'
  <2>1. CASE Drop(closing)
    <3>1. closing \in [Conns -> 0..2]
          /\ \A b \in Conns : conn[b] \in {"none", "open"} => closing[b] = 0
      BY DEF TypeOK, Bookkeeping
    <3> QED
      BY <2>1, <3>1, DropSettles, GaveUp DEF Drop
  <2>2. CASE ~Drop(closing)
    <3>1. /\ UNCHANGED <<socket, opening, conn, closing>>
          /\ \A b \in Conns : conn[b] = "none" => wire'[b] = wire[b] /\ half'[b] = half[b]
      BY <1>10, <2>2 DEF ReceiveGarbled, TypeOK
    <3>2. Resolves /\ QueueWaits'
      <4>1. CASE UNCHANGED <<pending, caller, attempt>>
        BY <4>1 DEF Resolves, QueueWaits
      <4>2. CASE /\ pending # <<>> /\ pending' = Tail(pending)
                 /\ Settle([o \in {Head(pending)} |-> Garbled])
        <5> DEFINE reply == [o \in {Head(pending)} |-> Garbled]
        <5>1. pending \in Seq(Owner) /\ 1 \in 0..Len(pending)
          BY <4>2 DEF TypeOK
        <5>2. pending' = SubSeq(pending, 1 + 1, Len(pending))
              /\ DOMAIN reply = {pending[i] : i \in 1..1}
          BY <4>2, <5>1
        <5>3. Settle(reply)
          BY <4>2
        <5> HIDE DEF reply
        <5> QED
          BY <5>1, <5>2, <5>3, AnswerResolves
      <4> QED
        BY <1>10, <2>2, <4>1, <4>2 DEF ReceiveGarbled
    <3> QED
      BY <3>1, <3>2, ResolvesKeeps
  <2> QED
    BY <2>1, <2>2
<1>11. CASE Timeout
  <2>1. closing \in [Conns -> 0..2]
        /\ \A b \in Conns : conn[b] \in {"none", "open"} => closing[b] = 0
    BY DEF TypeOK, Bookkeeping
  <2> QED
    BY <1>11, <2>1, DropSettles, GaveUp DEF Timeout, Drop
<1>12. ASSUME NEW a \in Conns, Lost(a) PROVE Bookkeeping' /\ QueueWaits' /\ OpenerWaits'
  <2>1. /\ conn[a] = "open" /\ conn'[a] = "gone" /\ \A b \in Conns : b # a =>
             conn'[b] = conn[b] /\ closing'[b] = closing[b] /\ wire'[b] = wire[b]
               /\ half'[b] = half[b]
        /\ UNCHANGED <<client, attempt, caller>>
    BY <1>12 DEF Lost, TypeOK
  <2>2. Bookkeeping'
    BY <2>1, <1>0 DEF Bookkeeping
  <2>3. QueueWaits' /\ OpenerWaits'
    BY <2>1 DEF QueueWaits, OpenerWaits
  <2> QED
    BY <2>2, <2>3
<1>13. ASSUME NEW a \in Conns, Closed(a) PROVE Bookkeeping' /\ QueueWaits' /\ OpenerWaits'
  <2> DEFINE due == [closing EXCEPT ![a] = @ - 1]
  <2>1. closing \in [Conns -> 0..2] /\ closing[a] \in 0..2 /\ closing[a] > 0
    BY <1>13 DEF TypeOK, Closed
  <2>2. closing[a] - 1 \in 0..2
    BY <2>1
  <2>3. due \in [Conns -> 0..2]
    BY <2>1, <2>2
  <2>4. \A b \in Conns : conn[b] \in {"none", "open"} => due[b] = 0
    BY <2>1 DEF TypeOK, Bookkeeping
  <2> QED
    BY <1>13, <2>3, <2>4, DropSettles, GaveUp DEF Closed, Drop
<1>14. CASE UNCHANGED vars
  BY <1>14 DEF Bookkeeping, QueueWaits, OpenerWaits, vars
<1> QED
  BY <1>1, <1>2, <1>3, <1>4, <1>5, <1>6, <1>7, <1>8, <1>9, <1>10, <1>11, <1>12,
     <1>13, <1>14 DEF Next, Continue, Event

-----------------------------------------------------------------------------
(***************************************************************************)
(* One socket at a time.                                                   *)
(***************************************************************************)
\* When no continuation is due, nobody holds a socket or is to be handed one.
LEMMA QuietHolders ==
  ASSUME Quiet, Bookkeeping
  PROVE  /\ \A c \in Commands : caller[c].at # "holding"
         /\ \A c \in Commands : caller[c].at = "joining" =>
              attempt[caller[c].on].at # "opened" /\ caller[c].on \in Conns
         /\ \A a \in Conns : attempt[a].at # "resumed"
  BY DEF Quiet, Resuming, Joined, Finished, Bookkeeping

\* A drop between two events.
LEMMA DropOne ==
  ASSUME TypeOK, Bookkeeping, QueueWaits, OneSocket, Quiet, NEW due, Drop(due),
         UNCHANGED history
  PROVE  OneSocket'
  <1>1. /\ Resolves
        /\ \A c \in Commands : caller'[c] = caller[c] \/ caller'[c].got = None
        /\ \A a \in Conns : attempt'[a] = attempt[a] \/ attempt'[a].got = None
    BY DropSettles
  <1>2. OwnReply => OwnReply'
    BY <1>1 DEF OwnReply
  <1>3. \A a \in Conns : attempt'[a].at = "resumed" => attempt'[a].got = None
    <2>1. \A a \in Conns : attempt[a].at # "resumed"
      BY QuietHolders
    <2> SUFFICES ASSUME NEW a \in Conns, attempt'[a].at = "resumed"
                 PROVE  attempt'[a].got = None
      OBVIOUS
    <2>2. attempt'[a] # attempt[a]
      BY <2>1
    <2>3. attempt'[a] = attempt[a] \/ attempt'[a].got = None
      BY DropSettles
    <2> QED
      BY <2>2, <2>3
  <1>4. /\ \A c \in Commands : caller[c].at # "holding"
        /\ \A c \in Commands : caller[c].at = "joining" => attempt[caller[c].on].at # "opened"
        /\ \A c \in Commands : caller[c].at = "joining" => caller[c].on \in Conns
    BY QuietHolders
  <1>5. GiveUp(due) /\ crossed' = crossed
    BY DEF Drop, history
  <1> QED
    BY <1>1, <1>2, <1>3, <1>4, <1>5, GaveUpOne

\* Nothing a connection says is out of step, and it answers nothing unasked.
LEMMA InStepInOrder ==
  ASSUME TypeOK, InOrder, NEW a \in Conns, conn[a] = "open"
  PROVE  a = socket /\ socket # None /\ pending = wire[a] /\ InStep(a)
  BY NullAssumption DEF InOrder, InStep

LEMMA OneStep ==
  TypeOK /\ Bookkeeping /\ QueueWaits /\ OneSocket /\ [Next]_vars => OneSocket'
<1> SUFFICES ASSUME TypeOK, Bookkeeping, QueueWaits, OneSocket, [Next]_vars
             PROVE  OneSocket'
  OBVIOUS
<1> USE DEF client, network, history
<1>0. /\ caller \in [Commands -> Caller] /\ attempt \in [Conns -> Attempt]
      /\ opening \in Conns \cup {None} /\ socket \in Conns \cup {None}
      /\ pending \in Seq(Owner) /\ wire \in [Conns -> Seq(Owner)]
      /\ None \notin Conns /\ Commands \cap Conns = {}
  BY NullAssumption DEF TypeOK
<1>1. ASSUME NEW c \in Commands, Ask(c) PROVE OneSocket'
  <2> SUFFICES ASSUME ~crossed PROVE (InOrder /\ HoldersHoldIt /\ OwnReply)'
    BY <1>1 DEF OneSocket, Ask
  <2>1. InOrder /\ HoldersHoldIt /\ OwnReply
    BY DEF OneSocket
  <2>2. InOrder'
    BY <1>1, <2>1 DEF InOrder, Ask
  <2>3. /\ \A d \in Commands : d # c => caller'[d] = caller[d]
        /\ caller'[c].got = caller[c].got
        /\ caller'[c].at = "holding" => caller'[c].on = socket /\ socket # None
        /\ caller'[c].at = "joining" =>
             socket = None /\ caller'[c].on = opening' /\ opening' \in Conns
    <3>1. \/ /\ socket # None
             /\ caller' = [caller EXCEPT ![c].at = "holding", ![c].on = socket]
          \/ /\ socket = None /\ opening # None /\ opening' = opening
             /\ caller' = [caller EXCEPT ![c].at = "joining", ![c].on = opening]
          \/ \E a \in Conns :
               /\ socket = None /\ opening' = a
               /\ caller' = [caller EXCEPT ![c].at = "joining", ![c].on = a, ![c].opener = TRUE]
      BY <1>1 DEF Ask
    <3>2. CASE socket # None /\ caller' = [caller EXCEPT ![c].at = "holding", ![c].on = socket]
      BY <3>2, <1>0 DEF Caller
    <3>3. CASE /\ socket = None /\ opening # None /\ opening' = opening
               /\ caller' = [caller EXCEPT ![c].at = "joining", ![c].on = opening]
      BY <3>3, <1>0 DEF Caller
    <3>4. ASSUME NEW a \in Conns, socket = None, opening' = a,
                 caller' = [caller EXCEPT ![c].at = "joining", ![c].on = a, ![c].opener = TRUE]
          PROVE  /\ \A d \in Commands : d # c => caller'[d] = caller[d]
                 /\ caller'[c].got = caller[c].got
                 /\ caller'[c].at = "joining" /\ caller'[c].on = a
      BY <3>4, <1>0 DEF Caller
    <3> QED
      BY <3>1, <3>2, <3>3, <3>4
  <2>4. OwnReply'
    BY <2>1, <2>3 DEF OwnReply
  <2>5. /\ \A a \in Conns : attempt[a].at # "resumed"
        /\ \A a \in Conns : attempt'[a].at \in {"opened", "resumed"} =>
             attempt'[a] = attempt[a]
        /\ opening' \in Conns /\ socket = None => attempt'[opening'].at # "opened"
        /\ UNCHANGED <<socket, pending>>
    <3>1. \/ UNCHANGED <<opening, attempt>>
          \/ \E a \in Conns : /\ attempt[a].at = "none" /\ opening' = a
                              /\ attempt' = [attempt EXCEPT ![a].at = "connecting"]
      BY <1>1 DEF Ask
    <3>2. \A a \in Conns : attempt[a].at # "resumed"
      BY <1>1 DEF Ask, Resuming
    <3>3. UNCHANGED <<socket, pending>>
      BY <1>1 DEF Ask
    <3>4. CASE UNCHANGED <<opening, attempt>>
      BY <3>2, <3>3, <3>4, <1>0 DEF Bookkeeping
    <3>5. ASSUME NEW a \in Conns, attempt[a].at = "none", opening' = a,
                 attempt' = [attempt EXCEPT ![a].at = "connecting"]
          PROVE  /\ \A b \in Conns : attempt'[b].at \in {"opened", "resumed"} =>
                      attempt'[b] = attempt[b]
                 /\ attempt'[opening'].at # "opened"
      BY <3>5, <1>0 DEF Attempt
    <3> QED
      BY <3>1, <3>2, <3>3, <3>4, <3>5
  <2>6. \A d \in Commands : caller[d].at = "joining" => caller[d].on \in Conns
    BY DEF Bookkeeping
  <2>7. \A d \in Commands :
          /\ caller'[d].at = "holding" => caller'[d].on = socket' /\ socket' # None
          /\ caller'[d].at = "joining" /\ attempt'[caller'[d].on].at = "opened" =>
               attempt'[caller'[d].on].sock = socket' /\ socket' # None
    BY <2>1, <2>3, <2>5, <2>6 DEF HoldersHoldIt
  <2>8. \A a \in Conns : attempt'[a].at # "resumed"
    BY <2>5
  <2>9. HoldersHoldIt'
    BY <2>1, <2>5, <2>7, <2>8 DEF HoldersHoldIt
  <2> QED
    BY <2>2, <2>4, <2>9
<1>2. ASSUME NEW c \in Commands, Join(c) PROVE OneSocket'
  <2> SUFFICES ASSUME ~crossed PROVE (InOrder /\ HoldersHoldIt /\ OwnReply)'
    BY <1>2 DEF OneSocket, Join
  <2>1. InOrder /\ HoldersHoldIt /\ OwnReply
    BY DEF OneSocket
  <2>2. /\ UNCHANGED <<socket, buffer, pending, attempt, network>>
        /\ caller[c].at = "joining" /\ caller[c].on \in Conns
    BY <1>2 DEF Join, Joined, Bookkeeping
  <2>3. CASE attempt[caller[c].on].at = "opened"
    <3>1. caller' = [caller EXCEPT ![c].at = "holding", ![c].on = attempt[caller[c].on].sock]
      BY <1>2, <2>3 DEF Join
    <3>2. attempt[caller[c].on].sock = socket /\ socket # None
      BY <2>1, <2>2, <2>3 DEF HoldersHoldIt
    <3>3. \A d \in Commands : d # c => caller'[d] = caller[d]
      BY <3>1, <1>0
    <3>4. caller'[c].at = "holding" /\ caller'[c].on = socket /\ caller'[c].got = caller[c].got
      BY <3>1, <3>2, <1>0 DEF Caller
    <3>5. \A a \in Conns : attempt[a].at = "resumed" => attempt[a].got = None
      BY <2>1, <2>2, <2>3 DEF HoldersHoldIt
    <3>6. InOrder' /\ OwnReply'
      BY <2>1, <2>2, <3>3, <3>4 DEF InOrder, OwnReply
    <3>7. HoldersHoldIt'
      BY <2>1, <2>2, <3>2, <3>3, <3>4, <3>5 DEF HoldersHoldIt
    <3> QED
      BY <3>6, <3>7
  <2>4. CASE attempt[caller[c].on].at # "opened"
    <3>1. caller' = [caller EXCEPT ![c].at = "done", ![c].on = None]
      BY <1>2, <2>4 DEF Join
    <3>2. /\ \A d \in Commands : d # c => caller'[d] = caller[d]
          /\ caller'[c].at = "done" /\ caller'[c].got = caller[c].got
      BY <3>1, <1>0 DEF Caller
    <3>3. InOrder' /\ OwnReply'
      BY <2>1, <2>2, <3>2 DEF InOrder, OwnReply
    <3>4. HoldersHoldIt'
      BY <2>1, <2>2, <3>2 DEF HoldersHoldIt
    <3> QED
      BY <3>3, <3>4
  <2> QED
    BY <2>3, <2>4
<1>3. ASSUME NEW c \in Commands, Send(c) PROVE OneSocket'
  <2> SUFFICES ASSUME ~crossed PROVE (InOrder /\ HoldersHoldIt /\ OwnReply)'
    BY <1>3 DEF OneSocket, Send
  <2>1. InOrder /\ HoldersHoldIt /\ OwnReply
    BY DEF OneSocket
  <2>2. /\ caller[c].at = "holding" /\ caller[c].on = socket /\ socket \in Conns
        /\ UNCHANGED <<socket, opening, buffer, attempt, conn, closing, half>>
    BY <1>3, <1>0, <2>1 DEF Send, HoldersHoldIt
  <2>3. /\ pending' = Append(pending, c)
        /\ wire' = IF conn[socket] = "open" THEN [wire EXCEPT ![socket] = Append(@, c)] ELSE wire
    BY <1>3, <2>2 DEF Send, Write
  <2>4. caller' = [caller EXCEPT ![c].at = "waiting", ![c].on = None]
    BY <1>3 DEF Send
  <2>5. /\ \A d \in Commands : d # c => caller'[d] = caller[d]
        /\ caller'[c].at = "waiting" /\ caller'[c].got = caller[c].got
    BY <2>4, <1>0 DEF Caller
  <2>6. InOrder'
    BY <1>0, <2>1, <2>2, <2>3 DEF InOrder
  <2>7. OwnReply'
    BY <2>1, <2>5 DEF OwnReply
  <2>8. \A i \in 1..Len(pending') : pending'[i] \in Conns => pending'[i] = socket
    <3>1. Len(pending') = Len(pending) + 1 /\ pending'[Len(pending) + 1] = c
          /\ \A i \in 1..Len(pending) : pending'[i] = pending[i]
      BY <1>0, <2>3 DEF Owner
    <3>2. c \notin Conns /\ \A i \in 1..Len(pending) : pending[i] \in Conns => pending[i] = socket
      BY <1>0, <2>1 DEF HoldersHoldIt
    <3>3. \A i \in 1..Len(pending') : i \in 1..Len(pending) \/ i = Len(pending) + 1
      BY <1>0, <3>1
    <3> QED
      BY <3>1, <3>2, <3>3
  <2>9. HoldersHoldIt'
    BY <2>1, <2>2, <2>5, <2>8 DEF HoldersHoldIt
  <2> QED
    BY <2>6, <2>7, <2>9
<1>4. ASSUME NEW a \in Conns, Connected(a) PROVE OneSocket'
  <2> SUFFICES ASSUME ~crossed' PROVE (InOrder /\ HoldersHoldIt /\ OwnReply)'
    BY DEF OneSocket
  <2>1. InOrder /\ HoldersHoldIt /\ OwnReply /\ socket = None
    BY <1>4 DEF OneSocket, Connected
  <2>2. /\ pending = <<>> /\ buffer = None /\ \A b \in Conns : conn[b] # "open"
        /\ wire[a] = <<>> /\ half[a] = FALSE
    BY <1>4, <1>0, <2>1 DEF InOrder, Connected, Bookkeeping
  <2>3. /\ socket' = a /\ conn'[a] = "open" /\ \A b \in Conns : b # a => conn'[b] = conn[b]
        /\ UNCHANGED <<opening, buffer, caller, half>>
        /\ attempt[a].at = "connecting"
    BY <1>4 DEF Connected, TypeOK
  <2>4. \/ pending' = <<>> /\ wire'[a] = <<>>
        \/ pending' = <<a>> /\ wire'[a] = <<a>>
    <3>1. CASE Greetings = 0
      BY <1>4, <2>2, <3>1 DEF Connected
    <3>2. CASE Greetings # 0
      <4>1. pending' = Append(pending, a) /\ wire' = [wire EXCEPT ![a] = Append(@, a)]
        BY <1>4, <3>2 DEF Connected
      <4>2. Append(<<>>, a) = <<a>>
        OBVIOUS
      <4> QED
        BY <4>1, <4>2, <2>2, <1>0
    <3> QED
      BY <3>1, <3>2
  <2>5. InOrder'
    BY <1>0, <2>2, <2>3, <2>4 DEF InOrder
  <2>6. \A i \in 1..Len(pending') : pending'[i] = a
    BY <2>4
  <2>7. /\ \A b \in Conns : b # a => attempt'[b] = attempt[b]
        /\ attempt'[a].at \in {"opened", "greeting"}
        /\ attempt'[a].at = "opened" => attempt'[a].sock = a
    <3>1. \/ attempt' = [attempt EXCEPT ![a].at = "opened", ![a].sock = a]
          \/ attempt' = [attempt EXCEPT ![a].at = "greeting"]
      BY <1>4 DEF Connected
    <3> QED
      BY <3>1, <1>0 DEF Attempt
  <2>8. /\ \A c \in Commands : caller[c].at # "holding"
        /\ \A c \in Commands : caller[c].at = "joining" =>
             attempt[caller[c].on].at # "opened" /\ caller[c].on \in Conns
        /\ \A b \in Conns : attempt[b].at # "resumed"
    BY <1>4, QuietHolders DEF Connected
  <2>9. HoldersHoldIt'
    BY <1>0, <2>3, <2>6, <2>7, <2>8 DEF HoldersHoldIt
  <2> QED
    BY <2>1, <2>3, <2>5, <2>9 DEF OwnReply
<1>5. ASSUME NEW a \in Conns, ConnectFailed(a) PROVE OneSocket'
  <2> SUFFICES ASSUME ~crossed PROVE (InOrder /\ HoldersHoldIt /\ OwnReply)'
    BY <1>5 DEF OneSocket, ConnectFailed
  <2>1. InOrder /\ HoldersHoldIt /\ OwnReply
    BY DEF OneSocket
  <2>2. /\ UNCHANGED <<client, caller, network>>
        /\ attempt' = [attempt EXCEPT ![a].at = "failed"]
    BY <1>5 DEF ConnectFailed
  <2>3. attempt'[a].at = "failed" /\ \A b \in Conns : b # a => attempt'[b] = attempt[b]
    BY <2>2, <1>0 DEF Attempt
  <2>4. /\ \A c \in Commands : caller[c].at # "holding"
        /\ \A c \in Commands : caller[c].at = "joining" =>
             attempt[caller[c].on].at # "opened" /\ caller[c].on \in Conns
        /\ \A b \in Conns : attempt[b].at # "resumed"
    BY <1>5, QuietHolders DEF ConnectFailed
  <2>5. InOrder' /\ OwnReply'
    BY <2>1, <2>2 DEF InOrder, OwnReply
  <2>6. HoldersHoldIt'
    BY <2>1, <2>2, <2>3, <2>4 DEF HoldersHoldIt
  <2> QED
    BY <2>5, <2>6
<1>6. ASSUME NEW a \in Conns, GreetingDone(a) PROVE OneSocket'
  <2> SUFFICES ASSUME ~crossed PROVE (InOrder /\ HoldersHoldIt /\ OwnReply)'
    BY <1>6 DEF OneSocket, GreetingDone
  <2>1. InOrder /\ HoldersHoldIt /\ OwnReply
    BY DEF OneSocket
  <2>2. /\ attempt[a].at = "resumed" /\ a = socket
        /\ UNCHANGED <<socket, opening, buffer, caller, conn, closing, half>>
        /\ \A c \in Commands :
             /\ caller[c].at # "holding"
             /\ caller[c].at = "joining" =>
                  attempt[caller[c].on].at # "opened" /\ caller[c].on \in Conns
    BY <1>6, <2>1 DEF GreetingDone, HoldersHoldIt, Bookkeeping
  <2>3. \A b \in Conns : attempt[b].at = "resumed" /\ attempt[b].got # None => b = a
    BY <2>1, <2>2 DEF HoldersHoldIt
  <2>4. OwnReply'
    BY <2>1, <2>2 DEF OwnReply
  <2>5. CASE attempt[a].done + 1 < Greetings
    <3>1. /\ attempt' = [attempt EXCEPT ![a].at = "greeting", ![a].done = attempt[a].done + 1,
                                        ![a].got = None]
          /\ pending' = Append(pending, a)
          /\ wire' = IF conn[a] = "open" THEN [wire EXCEPT ![a] = Append(@, a)] ELSE wire
      BY <1>6, <2>5 DEF GreetingDone, Write
    <3>2. attempt'[a].at = "greeting" /\ \A b \in Conns : b # a => attempt'[b] = attempt[b]
      BY <3>1, <1>0 DEF Attempt
    <3>3. InOrder'
      BY <1>0, <2>1, <2>2, <3>1 DEF InOrder
    <3>4. \A i \in 1..Len(pending') : pending'[i] \in Conns => pending'[i] = socket
      <4>1. Len(pending') = Len(pending) + 1 /\ pending'[Len(pending) + 1] = a
            /\ \A i \in 1..Len(pending) : pending'[i] = pending[i]
        BY <1>0, <3>1 DEF Owner
      <4>2. \A i \in 1..Len(pending) : pending[i] \in Conns => pending[i] = socket
        BY <2>1 DEF HoldersHoldIt
      <4>3. \A i \in 1..Len(pending') : i \in 1..Len(pending) \/ i = Len(pending) + 1
        BY <1>0, <4>1
      <4> QED
        BY <2>2, <4>1, <4>2, <4>3
    <3>5. HoldersHoldIt'
      BY <2>2, <2>3, <3>2, <3>4 DEF HoldersHoldIt
    <3> QED
      BY <2>4, <3>3, <3>5
  <2>6. CASE ~(attempt[a].done + 1 < Greetings)
    <3>1. /\ attempt' = [attempt EXCEPT
               ![a].at = IF socket = None THEN "failed" ELSE "opened",
               ![a].done = attempt[a].done + 1, ![a].got = None, ![a].sock = socket]
          /\ UNCHANGED <<pending, wire>>
      BY <1>6, <2>6 DEF GreetingDone
    <3>2. /\ attempt'[a].sock = socket /\ attempt'[a].got = None
          /\ \A b \in Conns : b # a => attempt'[b] = attempt[b]
      BY <3>1, <1>0 DEF Attempt
    <3>3. InOrder'
      BY <2>1, <2>2, <3>1 DEF InOrder
    <3>4. HoldersHoldIt'
      BY <1>0, <2>1, <2>2, <2>3, <3>1, <3>2 DEF HoldersHoldIt
    <3> QED
      BY <2>4, <3>3, <3>4
  <2> QED
    BY <2>5, <2>6
<1>7. ASSUME NEW a \in Conns, GreetingFailed(a) PROVE OneSocket'
  <2> SUFFICES ASSUME ~crossed PROVE (InOrder /\ HoldersHoldIt /\ OwnReply)'
    BY <1>7 DEF OneSocket, GreetingFailed
  <2>1. InOrder /\ HoldersHoldIt /\ OwnReply
    BY DEF OneSocket
  <2>2. /\ UNCHANGED <<client, caller, network>>
        /\ attempt' = [attempt EXCEPT ![a].at = "failed"]
    BY <1>7 DEF GreetingFailed
  <2>3. attempt'[a].at = "failed" /\ \A b \in Conns : b # a => attempt'[b] = attempt[b]
    BY <2>2, <1>0 DEF Attempt
  <2>4. InOrder' /\ OwnReply'
    BY <2>1, <2>2 DEF InOrder, OwnReply
  <2>5. \A c \in Commands : caller[c].at = "joining" => caller[c].on \in Conns
    BY DEF Bookkeeping
  <2>6. HoldersHoldIt'
    BY <2>1, <2>2, <2>3, <2>5 DEF HoldersHoldIt
  <2> QED
    BY <2>4, <2>6
<1>8. ASSUME NEW a \in Conns, Refused(a) PROVE OneSocket'
  <2>1. CASE crossed
    BY <1>8, <2>1 DEF OneSocket, Refused
  <2>2. CASE ~crossed
    <3>1. HoldersHoldIt /\ attempt[a].at = "resumed" /\ attempt[a].got # None
      BY <1>8, <2>2 DEF OneSocket, Refused
    <3>2. \A c \in Commands : c \in Waiters(pending) => caller[c].at = "waiting"
      BY WaitersWait
    <3>3. \A b \in Conns : b \in Waiters(pending) => attempt[b].at = "greeting"
      BY WaitersWait
    <3>4. \A c \in Commands :
            /\ caller'[c].got = caller[c].got
            /\ \/ caller'[c] = caller[c]
               \/ caller[c].at = "waiting" /\ caller'[c].at = "done"
      BY <1>8, <1>0, <3>2 DEF Refused, Caller
    <3>5. \A b \in Conns :
            \/ attempt'[b] = attempt[b] /\ b # a
            \/ /\ attempt[b].at \in {"greeting", "resumed"}
               /\ attempt'[b].at \in {"resumed", "failed"} /\ attempt'[b].done = attempt[b].done
               /\ attempt'[b].got = None
      BY <1>8, <1>0, <3>3 DEF Refused, Attempt
    <3>6. Resolves
      BY <3>4, <3>5 DEF Resolves
    <3>7. \A b \in Conns : attempt'[b].at = "resumed" => attempt'[b].got = None
      BY <3>1, <3>5 DEF HoldersHoldIt
    <3>8. OwnReply => OwnReply'
      BY <3>4 DEF OwnReply
    <3>9. \A c \in Commands : caller[c].at # "holding"
      BY <3>1 DEF HoldersHoldIt
    <3>10. \A c \in Commands : caller[c].at = "joining" => attempt[caller[c].on].at # "opened"
      BY <3>1 DEF HoldersHoldIt
    <3>11. \A c \in Commands : caller[c].at = "joining" => caller[c].on \in Conns
      BY DEF Bookkeeping
    <3>12. GiveUp(closing) /\ crossed' = crossed
      BY <1>8 DEF Refused
    <3> QED
      BY <3>6, <3>7, <3>8, <3>9, <3>10, <3>11, <3>12, GaveUpOne
  <2> QED
    BY <2>1, <2>2
<1>9. ASSUME NEW a \in Conns, NEW n \in 0..Cardinality(Commands) + 2,
             NEW part \in BOOLEAN, Receive(a, n, part)
      PROVE  OneSocket'
  <2> SUFFICES ASSUME ~crossed PROVE (InOrder /\ HoldersHoldIt /\ OwnReply)'
    BY <1>9 DEF OneSocket, Receive
  <2>1. InOrder /\ HoldersHoldIt /\ OwnReply
    BY DEF OneSocket
  <2>2. /\ a = socket /\ socket # None /\ pending = wire[a] /\ conn[a] = "open"
        /\ n \in 0..Len(pending)
    BY <1>9, <1>0, <2>1, InStepInOrder DEF Receive
  <2> DEFINE reply == [o \in Waiters(SubSeq(pending, 1, n)) |->
                 wire[a][CHOOSE i \in 1..n : pending[i] = o]]
  <2>3. /\ Settle(reply) /\ pending' = SubSeq(pending, n + 1, Len(pending))
        /\ buffer' = IF part THEN a ELSE None
        /\ wire' = [wire EXCEPT ![a] = SubSeq(@, n + 1, Len(@))]
        /\ half' = [half EXCEPT ![a] = part]
        /\ UNCHANGED <<socket, opening, conn, closing>>
    BY <1>9, <1>0, <2>2 DEF Receive
  <2>4. DOMAIN reply = {pending[i] : i \in 1..n}
    <3>1. pending \in Seq(Owner)
      BY <1>0
    <3>2. Waiters(SubSeq(pending, 1, n)) = {pending[i] : i \in 1..n}
      BY <2>2, <3>1, FirstOnes
    <3> QED
      BY <3>2
  <2>5. \A o \in DOMAIN reply : reply[o] = o
    <3> SUFFICES ASSUME NEW o \in DOMAIN reply PROVE reply[o] = o
      OBVIOUS
    <3>1. \E i \in 1..n : pending[i] = o
      BY <2>4
    <3>2. pending[CHOOSE i \in 1..n : pending[i] = o] = o
      BY <3>1
    <3> QED
      BY <2>2, <3>2
  <2>6. \A o \in DOMAIN reply : o \in Conns => o = socket
    <3> SUFFICES ASSUME NEW i \in 1..n, pending[i] \in Conns PROVE pending[i] = socket
      BY <2>4
    <3> QED
      BY <1>0, <2>1, <2>2 DEF HoldersHoldIt
  <2>7. /\ \A c \in Commands : caller[c].at # "holding"
        /\ \A c \in Commands : caller[c].at = "joining" =>
             attempt[caller[c].on].at # "opened" /\ caller[c].on \in Conns
        /\ \A b \in Conns : attempt[b].at # "resumed"
    BY <1>9, QuietHolders DEF Receive
  <2>8. Resolves /\ QueueWaits'
    <3> HIDE DEF reply
    <3> QED
      BY <2>2, <2>3, <2>4, AnswerResolves
  <2>9. InOrder'
    BY <1>0, <2>1, <2>2, <2>3 DEF InOrder, TypeOK
  <2> HIDE DEF reply
  <2>10. OwnReply'
    BY <2>1, <2>3, <2>5, SettleCallers DEF OwnReply
  <2>11. /\ \A c \in Commands : caller'[c].at # "holding"
         /\ \A c \in Commands : caller'[c].at = "joining" => attempt'[caller'[c].on].at # "opened"
    BY <2>7, <2>8 DEF Resolves
  <2>12. \A b \in Conns : attempt'[b].at = "resumed" => b = socket
    BY <2>3, <2>6, <2>7, SettleAttempts
  <2>13. \A i \in 1..Len(pending') : pending'[i] \in Conns => pending'[i] = socket
    <3>1. Len(pending') = Len(pending) - n
          /\ \A i \in 1..(Len(pending) - n) : pending'[i] = pending[i + n]
      BY <1>0, <2>2, <2>3, Rest
    <3>2. \A i \in 1..Len(pending) : pending[i] \in Conns => pending[i] = socket
      BY <2>1 DEF HoldersHoldIt
    <3>3. \A i \in 1..Len(pending') : i + n \in 1..Len(pending) /\ pending'[i] = pending[i + n]
      BY <1>0, <2>2, <3>1
    <3> QED
      BY <3>2, <3>3
  <2>14. HoldersHoldIt'
    BY <2>3, <2>11, <2>12, <2>13 DEF HoldersHoldIt
  <2> QED
    BY <2>9, <2>10, <2>14
<1>10. ASSUME NEW a \in Conns, ReceiveGarbled(a) PROVE OneSocket'
  <2>1. CASE crossed
    BY <1>10, <2>1 DEF ReceiveGarbled, OneSocket
  <2>2. CASE ~crossed
    BY <1>10, <2>2, InStepInOrder DEF ReceiveGarbled, OneSocket
  <2> QED
    BY <2>1, <2>2
<1>11. CASE Timeout
  BY <1>11, DropOne DEF Timeout
<1>12. ASSUME NEW a \in Conns, Lost(a) PROVE OneSocket'
  <2> SUFFICES ASSUME ~crossed PROVE (InOrder /\ HoldersHoldIt /\ OwnReply)'
    BY <1>12 DEF OneSocket, Lost
  <2>1. InOrder /\ HoldersHoldIt /\ OwnReply
    BY DEF OneSocket
  <2>2. a = socket /\ conn'[a] = "gone" /\ \A b \in Conns : b # a => conn'[b] = conn[b]
    BY <1>12, <2>1, InStepInOrder DEF Lost, TypeOK
  <2>3. InOrder'
    BY <1>12, <1>0, <2>1, <2>2 DEF InOrder, Lost
  <2>4. HoldersHoldIt' /\ OwnReply'
    BY <1>12, <2>1 DEF HoldersHoldIt, OwnReply, Lost
  <2> QED
    BY <2>3, <2>4
<1>13. ASSUME NEW a \in Conns, Closed(a) PROVE OneSocket'
  BY <1>13, DropOne DEF Closed
<1>14. CASE UNCHANGED vars
  BY <1>14 DEF OneSocket, InOrder, HoldersHoldIt, OwnReply, vars
<1> QED
  BY <1>1, <1>2, <1>3, <1>4, <1>5, <1>6, <1>7, <1>8, <1>9, <1>10, <1>11, <1>12,
     <1>13, <1>14 DEF Next, Continue, Event

-----------------------------------------------------------------------------
(***************************************************************************)
(* Theorems.                                                               *)
(***************************************************************************)
LEMMA Invariant == Spec => []Inv
  <1>1. Init => Inv
    BY TypeInit, InvInit DEF Inv
  <1>2. Inv /\ [Next]_vars => Inv'
    BY TypeStep, BookStep, OneStep DEF Inv
  <1> QED
    BY <1>1, <1>2, PTL DEF Spec

\* Every variable of the client keeps its type: in particular no connection has
\* its listener called more than twice.
THEOREM TypeCorrect == Spec => []TypeOK
  <1>1. Inv => TypeOK
    BY DEF Inv
  <1> QED
    BY <1>1, Invariant, PTL

\* As long as no socket has taken the place of another, whoever is given a reply
\* is given its own (receive, send, drop): what the client's order promises.
THEOREM RepliesMatch == Spec => []OwnReplyWhileOne
  <1>1. Inv => OwnReplyWhileOne
    BY DEF Inv, OneSocket, OwnReplyWhileOne
  <1> QED
    BY <1>1, Invariant, PTL

\* A client without a socket is never left with the promise of an attempt that
\* has ended (ensureSocket, drop), whatever has crossed.
THEOREM AttemptIsLive == Spec => []OpeningIsLive
  <1>1. Inv => OpeningIsLive
    <2> SUFFICES ASSUME Inv, Quiet, socket = None, opening # None
                 PROVE  attempt[opening].at \in {"connecting", "greeting"}
      BY DEF OpeningIsLive
    <2>1. TypeOK /\ Bookkeeping /\ OpenerWaits
      BY DEF Inv
    <2>2. opening \in Conns /\ attempt[opening] \in Attempt
      BY <2>1 DEF TypeOK
    <2>3. attempt[opening].at \notin {"none", "opened", "resumed"}
      BY <2>1, <2>2, QuietHolders DEF Bookkeeping
    <2>4. PICK c \in Commands : caller[c].at = "joining" /\ caller[c].on = opening
      BY <2>1, <2>3 DEF OpenerWaits
    <2>5. attempt[opening].at # "failed"
      BY <2>4 DEF Quiet, Joined, Finished
    <2> QED
      BY <2>2, <2>3, <2>5 DEF Attempt
  <1> QED
    BY <1>1, Invariant, PTL
=============================================================================
