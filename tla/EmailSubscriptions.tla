------------------------- MODULE EmailSubscriptions -------------------------
(***************************************************************************)
(* The Monday digest by e-mail: what is kept about a reader who asked for  *)
(* it (src/lib/email/subscriptions.ts) and the pass that sends it          *)
(* (src/lib/email/sendDigests.ts).                                         *)
(*                                                                         *)
(* The store runs single commands, never transactions, and everything here *)
(* is a read of one key followed, some awaits later, by a write decided on *)
(* what was read.  One action is one store command or one mail; requests   *)
(* of different readers, and the passes, interleave between them.          *)
(*                                                                         *)
(* A command that is answered was applied ("done").  A command that is not *)
(* answered within its two seconds was either never applied ("lost") or    *)
(* applied with its reply lost ("unheard"): the caller cannot tell.  So it *)
(* is with a mail and the ten seconds the provider has to answer.          *)
(***************************************************************************)
EXTENDS Naturals, FiniteSets

CONSTANTS
  Ids,          \* subscription ids: one per address (HMAC of the address)
  Choices,      \* what a reader asks for: a network and a language
  Handlers,     \* requests the server is answering at one time
  Passes,       \* scheduled passes that may run at one time
  MaxClock,     \* bound on the clock
  MaxFaults,    \* bound on commands not answered and digests not heard taken
  MaxCrashes,   \* bound on process restarts
  MaxRequests,  \* bound on times the form is sent
  NoId,         \* no subscription
  NoChoice      \* the choice of a record that is not there

ASSUME BoundsAssumption == {MaxClock, MaxFaults, MaxCrashes, MaxRequests}
                              \subseteq Nat
ASSUME PassesAssumption == IsFiniteSet(Passes)
ASSUME NullAssumption   == NoId \notin Ids /\ NoChoice \notin Choices

VARIABLES
  record,       \* email:sub:<id>, the record of each id
  members,      \* email:confirmed, the set the pass walks
  clock,        \* odd: Monday from 08:00 UTC; even: the rest of the week
  handler,      \* what each request is doing
  pass,         \* what each pass is doing
  mailed,       \* ids a confirmation mail was sent for
  agreed,       \* choices a mailbox has confirmed                 (history)
  delivered,    \* choices a digest was taken for                  (history)
  digests,      \* digests taken per id since the last tick        (history)
  fresh,        \* records confirmed per id since the last tick    (history)
  gone,         \* ids taken out, no confirmation opened since     (history)
  faults,       \* commands not answered and digests not heard taken so far
  crashes,      \* restarts so far
  requests      \* times the form was sent so far

vars == <<record, members, clock, handler, pass, mailed, agreed, delivered,
          digests, fresh, gone, faults, crashes, requests>>
store   == <<record, members>>
history == <<agreed, delivered, digests, fresh, gone>>
spent   == <<faults, crashes, requests>>

-----------------------------------------------------------------------------
\* What is kept.  A record that is not there has NoChoice.
NoRecord == [choice |-> NoChoice, confirmed |-> FALSE, sent |-> 0]
Record   == {NoRecord} \cup [choice : Choices, confirmed : BOOLEAN, sent : Nat]
Pending(c) == [choice |-> c, confirmed |-> FALSE, sent |-> 0]

HandlerSteps == {"idle", "writePending", "mail", "writeConfirmed", "addMember",
                 "removeMember", "deleteRecord"}
PassSteps    == {"idle", "read", "drop", "mail", "recordSent"}

IdleHandler == [at |-> "idle", id |-> NoId, seen |-> NoRecord]
Nothing     == [i \in Ids |-> NoRecord]
IdlePass    == [at |-> "idle", id |-> NoId, todo |-> {}, listed |-> Nothing,
                since |-> 0]

HandlerState == [at : HandlerSteps, id : Ids \cup {NoId}, seen : Record]
PassState    == [at : PassSteps, id : Ids \cup {NoId}, todo : SUBSET Ids,
                 listed : [Ids -> Record], since : Nat]

TypeOK ==
  /\ record \in [Ids -> Record]
  /\ members \subseteq Ids
  /\ clock \in Nat
  /\ handler \in [Handlers -> HandlerState]
  /\ \A h \in Handlers : handler[h].at # "idle" => handler[h].id \in Ids
  /\ pass \in [Passes -> PassState]
  /\ \A p \in Passes : pass[p].at \in {"drop", "recordSent"} => pass[p].id \in Ids
  /\ mailed \subseteq Ids
  /\ agreed \subseteq Ids \X Choices
  /\ delivered \subseteq Ids \X Choices
  /\ digests \in [Ids -> Nat]
  /\ fresh \in [Ids -> Nat]
  /\ gone \subseteq Ids
  /\ faults \in Nat
  /\ crashes \in Nat
  /\ requests \in Nat

Init ==
  /\ record = Nothing
  /\ members = {}
  /\ clock = 0
  /\ handler = [h \in Handlers |-> IdleHandler]
  /\ pass = [p \in Passes |-> IdlePass]
  /\ mailed = {}
  /\ agreed = {}
  /\ delivered = {}
  /\ digests = [i \in Ids |-> 0]
  /\ fresh = [i \in Ids |-> 0]
  /\ gone = {}
  /\ faults = 0
  /\ crashes = 0
  /\ requests = 0

-----------------------------------------------------------------------------
\* Replies of the store, as redisKeyValueStore.ts gives them.
Replies == {"done", "lost", "unheard"}

Answered(r) == r = "done"
Applied(r)  == r # "lost"

CountFault(r) ==
  /\ Answered(r) \/ faults < MaxFaults
  /\ faults' = IF Answered(r) THEN faults ELSE faults + 1

IsMonday == clock % 2 = 1

\* Whether a record whose last digest went out at `sent` (0: never) is due.
IsDigestDueAgain(sent) == IsMonday /\ sent <= clock        \* mutant: off by one
IsDigestDue(sent) == IsMonday /\ sent < clock

-----------------------------------------------------------------------------
(***************************************************************************)
(* Requests.  A first read that is not answered, or that answers what ends *)
(* the request, changes nothing and is not a step.                         *)
(***************************************************************************)
HandlerGoes(h, step) == handler' = [handler EXCEPT ![h].at = step]
HandlerEnds(h)       == handler' = [handler EXCEPT ![h] = IdleHandler]

Confirming(i) ==
  \E h \in Handlers : handler[h].id = i
                      /\ handler[h].at \in {"writeConfirmed", "addMember"}

\* The form: the record is read, and a confirmed one ends the request.
ReadForRequest(h, i, c) ==
  /\ handler[h].at = "idle"
  /\ requests < MaxRequests
  /\ ~record[i].confirmed
  /\ requests' = requests + 1
  /\ handler' = [handler EXCEPT
                   ![h] = [at |-> "writePending", id |-> i,
                           seen |-> Pending(c)]]
  /\ UNCHANGED <<store, clock, pass, mailed, history, faults, crashes>>

WritePending(h) ==
  /\ handler[h].at = "writePending"
  /\ \E r \in Replies :
       /\ CountFault(r)
       /\ record' = IF Applied(r)
                    THEN [record EXCEPT ![handler[h].id] = handler[h].seen]
                    ELSE record
       /\ IF Answered(r) THEN HandlerGoes(h, "mail") ELSE HandlerEnds(h)
  /\ UNCHANGED <<members, clock, pass, mailed, history, crashes, requests>>

\* The confirmation mail, which the provider takes or not.
SendConfirmation(h) ==
  /\ handler[h].at = "mail"
  /\ mailed' \in {mailed, mailed \cup {handler[h].id}}
  /\ HandlerEnds(h)
  /\ UNCHANGED <<store, clock, pass, history, spent>>

\* The link in that mail: only a pending record goes on to be written.
ReadForConfirm(h, i) ==
  /\ handler[h].at = "idle"
  /\ i \in mailed
  /\ record[i] # NoRecord
  /\ ~record[i].confirmed
  /\ handler' = [handler EXCEPT
                   ![h] = [at |-> "writeConfirmed", id |-> i,
                           seen |-> [record[i] EXCEPT !.confirmed = TRUE]]]
  /\ agreed' = agreed \cup {<<i, record[i].choice>>}
  /\ gone' = gone \ {i}
  /\ UNCHANGED <<store, clock, pass, mailed, delivered, digests, fresh,
                 spent>>

WriteConfirmed(h) ==
  /\ handler[h].at = "writeConfirmed"
  /\ LET i == handler[h].id IN
     \E r \in Replies :
       /\ CountFault(r)
       /\ IF Applied(r)
          THEN /\ record' = [record EXCEPT ![i] = handler[h].seen]
               /\ fresh' = [fresh EXCEPT ![i] = @ + 1]
          ELSE UNCHANGED <<record, fresh>>
       /\ IF Answered(r) THEN HandlerGoes(h, "addMember") ELSE HandlerEnds(h)
  /\ UNCHANGED <<members, clock, pass, mailed, agreed, delivered, digests,
                 gone, crashes, requests>>

AddMember(h) ==
  /\ handler[h].at = "addMember"
  /\ \E r \in Replies :
       /\ CountFault(r)
       /\ members' = IF Applied(r) THEN members \cup {handler[h].id}
                     ELSE members
  /\ HandlerEnds(h)
  /\ UNCHANGED <<record, clock, pass, mailed, history, crashes, requests>>

\* The link at the foot of a digest: the set first, then the record.
ReadForUnsubscribe(h, i) ==
  /\ handler[h].at = "idle"
  /\ \E c \in Choices : <<i, c>> \in delivered
  /\ handler' = [handler EXCEPT
                   ![h] = [at |-> "removeMember", id |-> i, seen |-> NoRecord]]
  /\ UNCHANGED <<store, clock, pass, mailed, history, spent>>

RemoveMember(h) ==
  /\ handler[h].at = "removeMember"
  /\ LET i == handler[h].id IN
     \E r \in Replies :
       /\ CountFault(r)
       /\ members' = IF Applied(r) THEN members \ {i} ELSE members
       /\ gone' = IF Applied(r) /\ ~Confirming(i) THEN gone \cup {i} ELSE gone
       /\ IF Answered(r) THEN HandlerGoes(h, "deleteRecord") ELSE HandlerEnds(h)
  /\ UNCHANGED <<record, clock, pass, mailed, agreed, delivered, digests, fresh,
                 crashes, requests>>

DeleteRecord(h) ==
  /\ handler[h].at = "deleteRecord"
  /\ \E r \in Replies :
       /\ CountFault(r)
       /\ record' = IF Applied(r)
                    THEN [record EXCEPT ![handler[h].id] = NoRecord]
                    ELSE record
  /\ HandlerEnds(h)
  /\ UNCHANGED <<members, clock, pass, mailed, history, crashes, requests>>

-----------------------------------------------------------------------------
(***************************************************************************)
(* The pass: the set, then each record, then a mail to each that is due.   *)
(***************************************************************************)
PassGoes(p, step) == pass' = [pass EXCEPT ![p].at = step]

ListMembers(p) ==
  /\ pass[p].at = "idle"
  /\ pass' = [pass EXCEPT ![p] = [IdlePass EXCEPT
                  !.at = "read", !.todo = members, !.since = clock]]
  /\ UNCHANGED <<store, clock, handler, mailed, history, spent>>

\* Whether a record read for the list is one a digest may go to.
SendableIfThere(rec) == rec # NoRecord      \* mutant: confirmedAt not looked at
Sendable(rec) == rec.confirmed

ListMember(p, i) ==
  /\ pass[p].at = "read" /\ i \in pass[p].todo
  /\ \/ /\ Sendable(record[i])
        /\ pass' = [pass EXCEPT ![p].todo = @ \ {i}, ![p].listed[i] = record[i]]
        /\ UNCHANGED faults
     \/ /\ ~Sendable(record[i])
        /\ pass' = [pass EXCEPT ![p].at = "drop", ![p].id = i,
                                ![p].todo = @ \ {i}]
        /\ UNCHANGED faults
     \/ /\ CountFault("lost")         \* a read that did not answer: passed over
        /\ pass' = [pass EXCEPT ![p].todo = @ \ {i}]
  /\ UNCHANGED <<store, clock, handler, mailed, history, crashes, requests>>

DropMember(p) ==
  /\ pass[p].at = "drop"
  /\ \E r \in Replies :
       /\ CountFault(r)
       /\ members' = IF Applied(r) THEN members \ {pass[p].id} ELSE members
  /\ pass' = [pass EXCEPT ![p].at = "read", ![p].id = NoId]
  /\ UNCHANGED <<record, clock, handler, mailed, history, crashes, requests>>

AllListed(p) ==
  /\ pass[p].at = "read" /\ pass[p].todo = {}
  /\ PassGoes(p, "mail")
  /\ UNCHANGED <<store, clock, handler, mailed, history, spent>>

\* Nothing to send: not due, no digest for this week, or not taken.
SkipSubscriber(p, i) ==
  /\ pass[p].at = "mail" /\ pass[p].listed[i] # NoRecord
  /\ pass' = [pass EXCEPT ![p].listed[i] = NoRecord]
  /\ UNCHANGED <<store, clock, handler, mailed, history, spent>>

\* Mutant: the start of the week before is kept, and not the time of sending.
SendDigestDatedBack(p, i) ==
  /\ pass[p].at = "mail" /\ pass[p].listed[i] # NoRecord
  /\ IsDigestDue(pass[p].listed[i].sent)
  /\ pass' = [pass EXCEPT ![p].at = "recordSent", ![p].id = i,
                          ![p].listed[i].sent = clock - 2]
  /\ UNCHANGED <<store, clock, handler, mailed, history, spent>>

\* The mail is taken; the time to record is the one the record was due at.
Taken(p, i) ==
  /\ pass[p].at = "mail" /\ pass[p].listed[i] # NoRecord
  /\ IsDigestDue(pass[p].listed[i].sent)
  /\ delivered' = delivered \cup {<<i, pass[p].listed[i].choice>>}
  /\ digests' = [digests EXCEPT ![i] = @ + 1]

SendDigest(p, i) ==
  /\ Taken(p, i)
  /\ pass' = [pass EXCEPT ![p].at = "recordSent", ![p].id = i,
                          ![p].listed[i].sent = clock]
  /\ UNCHANGED <<store, clock, handler, mailed, agreed, fresh, gone, spent>>

\* The mail is taken and no id comes back: nothing is recorded, and the
\* address is due again for the next pass.
SendDigestUnheard(p, i) ==
  /\ Taken(p, i)
  /\ CountFault("unheard")
  /\ pass' = [pass EXCEPT ![p].listed[i] = NoRecord]
  /\ UNCHANGED <<store, clock, handler, mailed, agreed, fresh, gone, crashes,
                 requests>>

\* Mutant: the id is added back too, as the pool watches' write does.
RecordDigestSentAndAdd(p) ==
  /\ pass[p].at = "recordSent"
  /\ LET i == pass[p].id IN
     /\ record' = [record EXCEPT ![i] = pass[p].listed[i]]
     /\ members' = members \cup {i}
     /\ pass' = [pass EXCEPT ![p].at = "mail", ![p].id = NoId,
                             ![p].listed[i] = NoRecord]
  /\ UNCHANGED <<clock, handler, mailed, history, spent>>

\* The record as it was listed, with the new time; the reply is not looked at.
RecordDigestSent(p) ==
  /\ pass[p].at = "recordSent"
  /\ LET i == pass[p].id IN
     /\ \E r \in Replies :
          /\ CountFault(r)
          /\ record' = IF Applied(r)
                       THEN [record EXCEPT ![i] = pass[p].listed[i]] ELSE record
     /\ pass' = [pass EXCEPT ![p].at = "mail", ![p].id = NoId,
                             ![p].listed[i] = NoRecord]
  /\ UNCHANGED <<members, clock, handler, mailed, history, crashes, requests>>

PassEnds(p) ==
  /\ pass[p].at = "mail" /\ pass[p].listed = Nothing
  /\ pass' = [pass EXCEPT ![p] = IdlePass]
  /\ UNCHANGED <<store, clock, handler, mailed, history, spent>>

-----------------------------------------------------------------------------
(***************************************************************************)
(* The surroundings.                                                       *)
(***************************************************************************)
\* A record nobody confirmed lapses within a day.  A confirmed one is kept for
\* a year from its last write, longer than MaxClock reaches.
Expire(i) ==
  /\ record[i] # NoRecord /\ ~record[i].confirmed
  /\ record' = [record EXCEPT ![i] = NoRecord]
  /\ UNCHANGED <<members, clock, handler, pass, mailed, history, spent>>

\* Monday's eight o'clock, or its midnight.  No pass lasts from one to the next.
Tick ==
  /\ clock < MaxClock
  /\ \A p \in Passes : pass[p].at = "idle" \/ pass[p].since = clock
  /\ clock' = clock + 1
  /\ digests' = [i \in Ids |-> 0]
  /\ fresh' = [i \in Ids |-> 0]
  /\ UNCHANGED <<store, handler, pass, mailed, agreed, delivered, gone, spent>>

\* The server restarts: whatever it was doing is cut off where it was.
Crash ==
  /\ crashes < MaxCrashes
  /\ crashes' = crashes + 1
  /\ handler' = [h \in Handlers |-> IdleHandler]
  /\ pass' = [p \in Passes |-> IdlePass]
  /\ UNCHANGED <<store, clock, mailed, history, faults, requests>>

Reader(h) ==
  \/ \E i \in Ids, c \in Choices : ReadForRequest(h, i, c)
  \/ WritePending(h)
  \/ SendConfirmation(h)
  \/ \E i \in Ids : ReadForConfirm(h, i)
  \/ WriteConfirmed(h)
  \/ AddMember(h)
  \/ \E i \in Ids : ReadForUnsubscribe(h, i)
  \/ RemoveMember(h)
  \/ DeleteRecord(h)

Sender(p) ==
  \/ ListMembers(p)
  \/ \E i \in Ids : ListMember(p, i)
  \/ DropMember(p)
  \/ AllListed(p)
  \/ \E i \in Ids : SkipSubscriber(p, i)
  \/ \E i \in Ids : SendDigest(p, i) \/ SendDigestUnheard(p, i)
  \/ RecordDigestSent(p)
  \/ PassEnds(p)

Next ==
  \/ \E h \in Handlers : Reader(h)
  \/ \E p \in Passes : Sender(p)
  \/ \E i \in Ids : Expire(i)
  \/ Tick
  \/ Crash

Spec == Init /\ [][Next]_vars

-----------------------------------------------------------------------------
(***************************************************************************)
(* Properties.                                                             *)
(***************************************************************************)

\* "Nothing is sent to anybody until the link in that mail is opened": every
\* digest ever accepted was for a network and language whose pending record
\* that mailbox confirmed, however requests, confirmations and passes for the
\* same address interleave, and whatever a stale pass writes back.
OnlyAgreedMailed == delivered \subseteq agreed

\* Once an unsubscription has taken an address out of the set, and until a
\* confirmation link is opened again, no interleaving puts it back: a pass
\* that lists the set later cannot find it, even where the record itself was
\* written back by a pass that had listed it before.
GoneIsNotWalked == gone \cap members = {}

\* No address gets two digests of one Monday but for a reason: passes that
\* overlap, a command that was not answered, a digest that was taken and not
\* heard to be, a restart between the mail and its record, or a confirmation
\* that started the record afresh.
DuplicatesAccountedFor ==
  \A i \in Ids :
    digests[i] <= Cardinality(Passes) * (1 + faults + crashes + fresh[i])

AtRest == /\ \A h \in Handlers : handler[h].at = "idle"
          /\ \A p \in Passes : pass[p].at = "idle"

\* The set is "the set of ids whose addresses are confirmed: what the sender
\* walks": with nothing under way, a confirmed record nobody has unsubscribed
\* is in it.
ConfirmedIsWalked ==
  AtRest => \A i \in Ids \ gone : record[i].confirmed => i \in members

=============================================================================
