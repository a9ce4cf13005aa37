---------------------- MODULE EmailSubscriptionsProofs ----------------------
(***************************************************************************)
(* What holds of the e-mail subscriptions for any number of addresses,     *)
(* requests and passes, and any bounds.                                    *)
(***************************************************************************)
EXTENDS EmailSubscriptions, FiniteSetTheorems, TLAPS

-----------------------------------------------------------------------------
\* Records.
LEMMA RecordKinds ==
  /\ NoRecord \in Record
  /\ \A c \in Choices : Pending(c) \in Record
  /\ \A r \in Record \ {NoRecord} : /\ [r EXCEPT !.confirmed = TRUE] \in Record
                                   /\ \A t \in Nat : [r EXCEPT !.sent = t] \in Record
  /\ \A r \in Record \ {NoRecord} :
       /\ [r EXCEPT !.confirmed = TRUE].choice = r.choice
       /\ \A t \in Nat : /\ [r EXCEPT !.sent = t].choice = r.choice
                         /\ [r EXCEPT !.sent = t].confirmed = r.confirmed
                         /\ [r EXCEPT !.sent = t] # NoRecord
  /\ \A r \in Record : r.sent \in Nat /\ r.confirmed \in BOOLEAN
  /\ \A r \in Record : r # NoRecord => r.choice \in Choices
  <1>1. NoRecord.sent \in Nat /\ NoRecord.confirmed \in BOOLEAN
    BY DEF NoRecord
  <1>2. \A r \in [choice : Choices, confirmed : BOOLEAN, sent : Nat] :
          r.sent \in Nat /\ r.confirmed \in BOOLEAN /\ r.choice \in Choices
    OBVIOUS
  <1>3. \A c \in Choices : Pending(c) \in Record
    BY DEF Record, Pending
  <1>4. NoRecord \in Record
    BY DEF Record
  <1>5. \A r \in Record \ {NoRecord} :
          r \in [choice : Choices, confirmed : BOOLEAN, sent : Nat]
    BY DEF Record
  <1>6. \A r \in [choice : Choices, confirmed : BOOLEAN, sent : Nat] :
          /\ [r EXCEPT !.confirmed = TRUE] \in Record
          /\ \A t \in Nat : [r EXCEPT !.sent = t] \in Record
    BY DEF Record
  <1>7. \A r \in [choice : Choices, confirmed : BOOLEAN, sent : Nat] :
          /\ [r EXCEPT !.confirmed = TRUE].choice = r.choice
          /\ \A t \in Nat : /\ [r EXCEPT !.sent = t].choice = r.choice
                            /\ [r EXCEPT !.sent = t].confirmed = r.confirmed
    OBVIOUS
  <1>8. NoRecord.choice \notin Choices
    BY NullAssumption DEF NoRecord
  <1> QED
    BY <1>1, <1>2, <1>3, <1>4, <1>5, <1>6, <1>7, <1>8

\* What a step on one request leaves of the requests' type.
LEMMA HandlerGoesTyped ==
  ASSUME TypeOK, NEW h \in Handlers, NEW step \in HandlerSteps,
         handler[h].id \in Ids, HandlerGoes(h, step)
  PROVE  /\ handler' \in [Handlers -> HandlerState]
         /\ \A g \in Handlers : handler'[g].at # "idle" => handler'[g].id \in Ids
  BY DEF TypeOK, HandlerGoes, HandlerState

LEMMA HandlerEndsTyped ==
  ASSUME TypeOK, NEW h \in Handlers, HandlerEnds(h)
  PROVE  /\ handler' \in [Handlers -> HandlerState]
         /\ \A g \in Handlers : handler'[g].at # "idle" => handler'[g].id \in Ids
  <1>1. IdleHandler \in HandlerState
    BY RecordKinds DEF IdleHandler, HandlerSteps, HandlerState
  <1> QED
    BY <1>1 DEF TypeOK, HandlerEnds, IdleHandler

\* What a step on one request leaves of the requests' values.
LEMMA HandlerGoesKeeps ==
  ASSUME TypeOK, NEW h \in Handlers, NEW step \in HandlerSteps,
         HandlerGoes(h, step)
  PROVE  /\ handler'[h].at = step /\ handler'[h].id = handler[h].id
         /\ handler'[h].seen = handler[h].seen
         /\ \A g \in Handlers : g # h => handler'[g] = handler[g]
  BY DEF TypeOK, HandlerGoes, HandlerState

LEMMA HandlerEndsKeeps ==
  ASSUME TypeOK, NEW h \in Handlers, HandlerEnds(h)
  PROVE  /\ handler'[h].at = "idle" /\ handler'[h].id = NoId
         /\ \A g \in Handlers : g # h => handler'[g] = handler[g]
  BY DEF TypeOK, HandlerEnds, IdleHandler

\* What a step on one pass leaves of the passes' type.
LEMMA PassMovesTyped ==
  ASSUME TypeOK, NEW p \in Passes, NEW step \in PassSteps,
         NEW j \in Ids \cup {NoId},
         pass' = [pass EXCEPT ![p].at = step, ![p].id = j]
  PROVE  pass' \in [Passes -> PassState]
  <1>1. pass \in [Passes -> PassState]
    BY DEF TypeOK
  <1> QED
    BY <1>1 DEF PassState

LEMMA PassListsTyped ==
  ASSUME TypeOK, NEW p \in Passes, NEW step \in PassSteps,
         NEW j \in Ids \cup {NoId}, NEW i \in Ids, NEW rec \in Record,
         pass' = [pass EXCEPT ![p].at = step, ![p].id = j, ![p].listed[i] = rec]
  PROVE  pass' \in [Passes -> PassState]
  <1>1. pass \in [Passes -> PassState]
    BY DEF TypeOK
  <1> QED
    BY <1>1, ZenonT(40) DEF PassState

-----------------------------------------------------------------------------
LEMMA TypeInit == Init => TypeOK
  BY RecordKinds DEF Init, TypeOK, Nothing, IdleHandler, IdlePass, PassSteps,
                     HandlerSteps, HandlerState, PassState

LEMMA TypeStep == TypeOK /\ [Next]_vars => TypeOK'
<1> SUFFICES ASSUME TypeOK, [Next]_vars PROVE TypeOK'
  OBVIOUS
<1> USE DEF store, history, spent, HandlerState, PassState
<1>1. ASSUME NEW h \in Handlers, Reader(h) PROVE TypeOK'
  <2>1. ASSUME NEW i \in Ids, NEW c \in Choices, ReadForRequest(h, i, c)
        PROVE  TypeOK'
    BY <2>1, RecordKinds DEF TypeOK, ReadForRequest, HandlerSteps
  <2>2. CASE WritePending(h)
    <3>1. handler[h].id \in Ids
      BY <2>2 DEF TypeOK, WritePending
    <3>2. handler' \in [Handlers -> HandlerState]
          /\ \A g \in Handlers : handler'[g].at # "idle" => handler'[g].id \in Ids
      BY <2>2, <3>1, HandlerGoesTyped, HandlerEndsTyped
         DEF WritePending, HandlerSteps
    <3>3. faults' \in Nat /\ record' \in [Ids -> Record]
      BY <2>2, <3>1 DEF TypeOK, WritePending, CountFault
    <3> QED
      BY <2>2, <3>2, <3>3 DEF TypeOK, WritePending
  <2>3. CASE SendConfirmation(h)
    <3>1. handler[h].id \in Ids
      BY <2>3 DEF TypeOK, SendConfirmation
    <3> QED
      BY <2>3, <3>1, HandlerEndsTyped DEF TypeOK, SendConfirmation
  <2>4. ASSUME NEW i \in Ids, ReadForConfirm(h, i) PROVE TypeOK'
    BY <2>4, RecordKinds DEF TypeOK, ReadForConfirm, HandlerSteps
  <2>5. CASE WriteConfirmed(h)
    <3>1. handler[h].id \in Ids
      BY <2>5 DEF TypeOK, WriteConfirmed
    <3>2. handler' \in [Handlers -> HandlerState]
          /\ \A g \in Handlers : handler'[g].at # "idle" => handler'[g].id \in Ids
      BY <2>5, <3>1, HandlerGoesTyped, HandlerEndsTyped
         DEF WriteConfirmed, HandlerSteps
    <3>3. faults' \in Nat /\ fresh' \in [Ids -> Nat]
      BY <2>5, <3>1 DEF TypeOK, WriteConfirmed, CountFault
    <3>4. record' \in [Ids -> Record]
      BY <2>5, <3>1 DEF TypeOK, WriteConfirmed
    <3> QED
      BY <2>5, <3>2, <3>3, <3>4 DEF TypeOK, WriteConfirmed
  <2>6. CASE AddMember(h)
    <3>1. handler[h].id \in Ids
      BY <2>6 DEF TypeOK, AddMember
    <3>2. faults' \in Nat /\ members' \subseteq Ids
      BY <2>6, <3>1 DEF TypeOK, AddMember, CountFault
    <3> QED
      BY <2>6, <3>2, HandlerEndsTyped DEF TypeOK, AddMember
  <2>7. ASSUME NEW i \in Ids, ReadForUnsubscribe(h, i) PROVE TypeOK'
    BY <2>7, RecordKinds DEF TypeOK, ReadForUnsubscribe, HandlerSteps
  <2>8. CASE RemoveMember(h)
    <3>1. handler[h].id \in Ids
      BY <2>8 DEF TypeOK, RemoveMember
    <3>2. handler' \in [Handlers -> HandlerState]
          /\ \A g \in Handlers : handler'[g].at # "idle" => handler'[g].id \in Ids
      BY <2>8, <3>1, HandlerGoesTyped, HandlerEndsTyped
         DEF RemoveMember, HandlerSteps
    <3>3. faults' \in Nat /\ members' \subseteq Ids /\ gone' \subseteq Ids
      BY <2>8, <3>1 DEF TypeOK, RemoveMember, CountFault
    <3> QED
      BY <2>8, <3>2, <3>3 DEF TypeOK, RemoveMember
  <2>9. CASE DeleteRecord(h)
    <3>1. handler[h].id \in Ids
      BY <2>9 DEF TypeOK, DeleteRecord
    <3>2. faults' \in Nat /\ record' \in [Ids -> Record]
      BY <2>9, <3>1, RecordKinds DEF TypeOK, DeleteRecord, CountFault
    <3> QED
      BY <2>9, <3>2, HandlerEndsTyped DEF TypeOK, DeleteRecord
  <2> QED
    BY <1>1, <2>1, <2>2, <2>3, <2>4, <2>5, <2>6, <2>7, <2>8, <2>9 DEF Reader
<1>2. ASSUME NEW p \in Passes, Sender(p) PROVE TypeOK'
  <2>1. CASE ListMembers(p)
    BY <2>1, RecordKinds DEF TypeOK, ListMembers, IdlePass, Nothing, PassSteps
  <2>2. ASSUME NEW i \in Ids, ListMember(p, i) PROVE TypeOK'
    <3>1. faults' \in Nat
      BY <2>2 DEF TypeOK, ListMember, CountFault
    <3>2. CASE pass' = [pass EXCEPT ![p].todo = @ \ {i}, ![p].listed[i] = record[i]]
      BY <2>2, <3>1, <3>2 DEF TypeOK, ListMember
    <3>3. CASE pass' = [pass EXCEPT ![p].at = "drop", ![p].id = i,
                                    ![p].todo = @ \ {i}]
      BY <2>2, <3>1, <3>3 DEF TypeOK, ListMember, PassSteps
    <3>4. CASE pass' = [pass EXCEPT ![p].todo = @ \ {i}]
      BY <2>2, <3>1, <3>4 DEF TypeOK, ListMember
    <3> QED
      BY <2>2, <3>2, <3>3, <3>4 DEF ListMember
  <2>3. CASE DropMember(p)
    <3>1. faults' \in Nat /\ members' \subseteq Ids
      BY <2>3 DEF TypeOK, DropMember, CountFault
    <3>2. pass' \in [Passes -> PassState]
      BY <2>3, PassMovesTyped DEF DropMember, PassSteps
    <3>3. \A q \in Passes : pass'[q].at \in {"drop", "recordSent"} => pass'[q].id \in Ids
      BY <2>3 DEF TypeOK, DropMember
    <3> QED
      BY <2>3, <3>1, <3>2, <3>3 DEF TypeOK, DropMember
  <2>4. CASE AllListed(p)
    <3>1. pass \in [Passes -> PassState] /\ pass' = [pass EXCEPT ![p].at = "mail"]
      BY <2>4 DEF TypeOK, AllListed, PassGoes
    <3>2. pass' \in [Passes -> PassState]
      BY <3>1 DEF PassState, PassSteps
    <3>3. \A q \in Passes : pass'[q].at \in {"drop", "recordSent"} =>
                            pass'[q] = pass[q]
      BY <3>1 DEF PassState
    <3> QED
      BY <2>4, <3>2, <3>3 DEF TypeOK, AllListed
  <2>5. ASSUME NEW i \in Ids, SkipSubscriber(p, i) PROVE TypeOK'
    <3>1. NoRecord \in Record
      BY RecordKinds
    <3> QED
      <4>1. pass \in [Passes -> PassState]
            /\ pass' = [pass EXCEPT ![p].listed[i] = NoRecord]
        BY <2>5 DEF TypeOK, SkipSubscriber
      <4>2. pass' \in [Passes -> PassState]
        BY <3>1, <4>1 DEF PassState
      <4>3. \A q \in Passes : pass'[q].at = pass[q].at /\ pass'[q].id = pass[q].id
        BY <4>1 DEF PassState
      <4> QED
        BY <2>5, <4>2, <4>3 DEF TypeOK, SkipSubscriber
  <2>a. ASSUME NEW i \in Ids, Taken(p, i)
        PROVE  delivered' \subseteq Ids \X Choices /\ digests' \in [Ids -> Nat]
    <3>1. pass[p].listed[i] \in Record \ {NoRecord}
      BY <2>a DEF TypeOK, Taken
    <3>2. pass[p].listed[i].choice \in Choices
      BY <3>1, RecordKinds
    <3> QED
      BY <2>a, <3>2 DEF TypeOK, Taken
  <2>b. ASSUME NEW i \in Ids, SendDigestUnheard(p, i) PROVE TypeOK'
    <3>1. NoRecord \in Record
      BY RecordKinds
    <3>2. pass \in [Passes -> PassState]
          /\ pass' = [pass EXCEPT ![p].listed[i] = NoRecord]
      BY <2>b DEF TypeOK, SendDigestUnheard
    <3>3. pass' \in [Passes -> PassState]
      BY <3>1, <3>2 DEF PassState
    <3>4. \A q \in Passes : pass'[q].at = pass[q].at /\ pass'[q].id = pass[q].id
      BY <3>2 DEF PassState
    <3>5. faults' \in Nat /\ Taken(p, i)
      BY <2>b DEF TypeOK, SendDigestUnheard, CountFault
    <3> QED
      BY <2>a, <2>b, <3>3, <3>4, <3>5 DEF TypeOK, SendDigestUnheard
  <2>6. ASSUME NEW i \in Ids, SendDigest(p, i) PROVE TypeOK'
    <3> DEFINE sent == [pass[p].listed[i] EXCEPT !.sent = clock]
    <3>1. pass[p].listed[i] \in Record \ {NoRecord} /\ clock \in Nat
      BY <2>6 DEF TypeOK, SendDigest, Taken
    <3>2. sent \in Record
      BY <3>1, RecordKinds
    <3>3. pass' = [pass EXCEPT ![p].at = "recordSent", ![p].id = i,
                               ![p].listed[i] = sent]
      BY <2>6 DEF SendDigest, TypeOK
    <3>4. pass' \in [Passes -> PassState]
      <4> HIDE DEF sent
      <4> QED
        BY <3>2, <3>3, PassListsTyped DEF PassSteps
    <3>6. \A q \in Passes : pass'[q].at \in {"drop", "recordSent"} => pass'[q].id \in Ids
      BY <2>6 DEF TypeOK, SendDigest
    <3>5. delivered' \subseteq Ids \X Choices /\ digests' \in [Ids -> Nat]
      BY <2>a, <2>6 DEF SendDigest
    <3> QED
      BY <2>6, <3>4, <3>5, <3>6 DEF TypeOK, SendDigest
  <2>7. CASE RecordDigestSent(p)
    <3>1. pass[p].id \in Ids /\ pass[p].listed[pass[p].id] \in Record
      BY <2>7 DEF TypeOK, RecordDigestSent
    <3>2. NoRecord \in Record
      BY RecordKinds
    <3>3. faults' \in Nat /\ record' \in [Ids -> Record]
      BY <2>7, <3>1 DEF TypeOK, RecordDigestSent, CountFault
    <3>4. pass' \in [Passes -> PassState]
      BY <2>7, <3>1, <3>2, PassListsTyped DEF RecordDigestSent, PassSteps
    <3>5. \A q \in Passes : pass'[q].at \in {"drop", "recordSent"} => pass'[q].id \in Ids
      BY <2>7 DEF TypeOK, RecordDigestSent
    <3> QED
      BY <2>7, <3>3, <3>4, <3>5 DEF TypeOK, RecordDigestSent
  <2>8. CASE PassEnds(p)
    BY <2>8, RecordKinds DEF TypeOK, PassEnds, IdlePass, Nothing, PassSteps
  <2> QED
    BY <1>2, <2>1, <2>2, <2>3, <2>4, <2>5, <2>6, <2>7, <2>8, <2>b DEF Sender
<1>3. ASSUME NEW i \in Ids, Expire(i) PROVE TypeOK'
  BY <1>3, RecordKinds DEF TypeOK, Expire
<1>4. CASE Tick
  BY <1>4 DEF TypeOK, Tick
<1>5. CASE Crash
  BY <1>5, RecordKinds DEF TypeOK, Crash, IdleHandler, IdlePass, Nothing,
                           HandlerSteps, PassSteps
<1>6. CASE UNCHANGED vars
  BY <1>6 DEF TypeOK, vars
<1> QED
  BY <1>1, <1>2, <1>3, <1>4, <1>5, <1>6 DEF Next

\* Every variable keeps its type: what is kept is a record or nothing, and a
\* step that uses an id has one.
THEOREM TypeCorrect == Spec => []TypeOK
  BY TypeInit, TypeStep, PTL DEF Spec

-----------------------------------------------------------------------------
\* Why nothing is sent that was not agreed to: the choice was agreed to
\* already where it is read (a confirmed record), where it is about to be
\* written confirmed, and where a pass keeps it between listing and sending.
RecordsAgreed ==
  \A i \in Ids : record[i].confirmed => <<i, record[i].choice>> \in agreed
RequestsAgreed ==
  \A h \in Handlers :
    /\ handler[h].at = "writePending" => ~handler[h].seen.confirmed
    /\ handler[h].at = "writeConfirmed" =>
         <<handler[h].id, handler[h].seen.choice>> \in agreed
PassesAgreed ==
  \A p \in Passes, i \in Ids :
    pass[p].listed[i].confirmed => <<i, pass[p].listed[i].choice>> \in agreed
ListedAreConfirmed ==
  \A p \in Passes, i \in Ids :
    pass[p].listed[i] # NoRecord => pass[p].listed[i].confirmed

Agreed == /\ TypeOK
          /\ RecordsAgreed /\ RequestsAgreed /\ PassesAgreed
          /\ ListedAreConfirmed /\ OnlyAgreedMailed

LEMMA AgreedInit == Init => Agreed
<1>1. ~NoRecord.confirmed
  BY DEF NoRecord
<1> QED
  BY <1>1, TypeInit DEF Init, Agreed, RecordsAgreed, RequestsAgreed, PassesAgreed,
     ListedAreConfirmed, OnlyAgreedMailed, Nothing, IdleHandler, IdlePass

LEMMA AgreedStep == Agreed /\ [Next]_vars => Agreed'
<1> SUFFICES ASSUME Agreed, [Next]_vars PROVE Agreed'
  OBVIOUS
<1> USE DEF store, history, spent
<1>0. TypeOK /\ TypeOK'
  BY TypeStep DEF Agreed
<1> DEFINE Rest == /\ RecordsAgreed /\ RequestsAgreed /\ PassesAgreed
                   /\ ListedAreConfirmed /\ OnlyAgreedMailed
<1> SUFFICES Rest'
  BY <1>0 DEF Agreed
<1>a. ~NoRecord.confirmed
  BY DEF NoRecord
<1>b. Rest
  BY DEF Agreed
<1> USE DEF RecordsAgreed, RequestsAgreed, PassesAgreed, ListedAreConfirmed,
            OnlyAgreedMailed
<1>1. ASSUME NEW h \in Handlers, Reader(h) PROVE Rest'
  <2>1. ASSUME NEW i \in Ids, NEW c \in Choices, ReadForRequest(h, i, c)
        PROVE  Rest'
    BY <1>0, <1>b, <2>1 DEF TypeOK, ReadForRequest, Pending
  <2>2. CASE WritePending(h)
    <3>1. RequestsAgreed'
      BY <1>0, <1>b, <2>2, HandlerGoesKeeps, HandlerEndsKeeps
         DEF WritePending, HandlerSteps
    <3>2. RecordsAgreed'
      BY <1>0, <1>b, <2>2 DEF TypeOK, WritePending
    <3> QED
      BY <1>b, <2>2, <3>1, <3>2 DEF WritePending
  <2>3. CASE SendConfirmation(h)
    BY <1>0, <1>b, <2>3 DEF TypeOK, SendConfirmation, HandlerEnds, IdleHandler
  <2>4. ASSUME NEW i \in Ids, ReadForConfirm(h, i) PROVE Rest'
    <3>1. record[i] \in Record \ {NoRecord}
      BY <1>0, <2>4 DEF TypeOK, ReadForConfirm
    <3>2. [record[i] EXCEPT !.confirmed = TRUE].choice = record[i].choice
      BY <3>1, RecordKinds
    <3> QED
      BY <1>0, <1>b, <2>4, <3>2 DEF TypeOK, ReadForConfirm
  <2>5. CASE WriteConfirmed(h)
    <3>1. RequestsAgreed'
      BY <1>0, <1>b, <2>5, HandlerGoesKeeps, HandlerEndsKeeps
         DEF WriteConfirmed, HandlerSteps
    <3>2. RecordsAgreed'
      BY <1>0, <1>b, <2>5 DEF TypeOK, WriteConfirmed
    <3> QED
      BY <1>b, <2>5, <3>1, <3>2 DEF WriteConfirmed
  <2>6. CASE AddMember(h)
    BY <1>0, <1>b, <2>6 DEF TypeOK, AddMember, HandlerEnds, IdleHandler
  <2>7. ASSUME NEW i \in Ids, ReadForUnsubscribe(h, i) PROVE Rest'
    BY <1>0, <1>b, <2>7 DEF TypeOK, ReadForUnsubscribe
  <2>8. CASE RemoveMember(h)
    BY <1>0, <1>b, <2>8 DEF TypeOK, HandlerState, RemoveMember, HandlerGoes,
                            HandlerEnds, IdleHandler
  <2>9. CASE DeleteRecord(h)
    BY <1>0, <1>a, <1>b, <2>9 DEF TypeOK, DeleteRecord, HandlerEnds, IdleHandler
  <2> QED
    BY <1>1, <2>1, <2>2, <2>3, <2>4, <2>5, <2>6, <2>7, <2>8, <2>9 DEF Reader
<1>2. ASSUME NEW p \in Passes, Sender(p) PROVE Rest'
  <2>1. CASE ListMembers(p)
    BY <1>0, <1>a, <1>b, <2>1 DEF TypeOK, ListMembers, IdlePass, Nothing
  <2>2. ASSUME NEW i \in Ids, ListMember(p, i) PROVE Rest'
    <3>1. \A q \in Passes, j \in Ids :
            \/ pass'[q].listed[j] = pass[q].listed[j]
            \/ pass'[q].listed[j] = record[j] /\ record[j].confirmed
      <4>1. CASE pass' = [pass EXCEPT ![p].todo = @ \ {i}, ![p].listed[i] = record[i]]
                 /\ record[i].confirmed
        BY <1>0, <4>1 DEF TypeOK, PassState
      <4>2. CASE pass' = [pass EXCEPT ![p].at = "drop", ![p].id = i,
                                      ![p].todo = @ \ {i}]
        BY <1>0, <4>2 DEF TypeOK, PassState
      <4>3. CASE pass' = [pass EXCEPT ![p].todo = @ \ {i}]
        BY <1>0, <4>3 DEF TypeOK, PassState
      <4> QED
        BY <2>2, <4>1, <4>2, <4>3 DEF ListMember, Sendable
    <3> QED
      BY <1>b, <2>2, <3>1 DEF ListMember
  <2>3. CASE DropMember(p)
    BY <1>0, <1>b, <2>3 DEF TypeOK, PassState, DropMember
  <2>4. CASE AllListed(p)
    BY <1>0, <1>b, <2>4 DEF TypeOK, PassState, AllListed, PassGoes
  <2>5. ASSUME NEW i \in Ids, SkipSubscriber(p, i) PROVE Rest'
    BY <1>0, <1>a, <1>b, <2>5 DEF TypeOK, PassState, SkipSubscriber
  <2>6. ASSUME NEW i \in Ids, SendDigest(p, i) PROVE Rest'
    <3> DEFINE old == pass[p].listed[i]
               new == [old EXCEPT !.sent = clock]
    <3>1. old \in Record \ {NoRecord} /\ clock \in Nat
      BY <1>0, <2>6 DEF TypeOK, PassState, SendDigest, Taken
    <3>2. new.choice = old.choice /\ new.confirmed = old.confirmed
      BY <3>1, RecordKinds
    <3>3. old.confirmed /\ <<i, old.choice>> \in agreed
      BY <1>b, <3>1
    <3>4. /\ pass'[p].listed[i] = new
          /\ \A q \in Passes, j \in Ids :
               q # p \/ j # i => pass'[q].listed[j] = pass[q].listed[j]
      BY <1>0, <2>6 DEF TypeOK, PassState, SendDigest
    <3>6. agreed' = agreed
      BY <2>6 DEF SendDigest
    <3>5. PassesAgreed' /\ ListedAreConfirmed'
      <4> HIDE DEF new, old
      <4> QED
        BY <1>b, <3>2, <3>3, <3>4, <3>6, ZenonT(40)
    <3> QED
      BY <1>b, <2>6, <3>3, <3>5 DEF SendDigest, Taken
  <2>b. ASSUME NEW i \in Ids, SendDigestUnheard(p, i) PROVE Rest'
    <3>1. pass[p].listed[i] # NoRecord
          /\ delivered' = delivered \cup {<<i, pass[p].listed[i].choice>>}
      BY <2>b DEF SendDigestUnheard, Taken
    <3>2. <<i, pass[p].listed[i].choice>> \in agreed
      BY <1>b, <3>1
    <3>3. \A q \in Passes, j \in Ids :
            pass'[q].listed[j] = pass[q].listed[j] \/ pass'[q].listed[j] = NoRecord
      BY <1>0, <2>b DEF TypeOK, PassState, SendDigestUnheard
    <3>4. UNCHANGED <<record, handler, agreed>>
      BY <2>b DEF SendDigestUnheard
    <3>5. PassesAgreed' /\ ListedAreConfirmed'
      BY <1>a, <1>b, <3>3, <3>4
    <3> QED
      BY <1>b, <3>1, <3>2, <3>4, <3>5
  <2>7. CASE RecordDigestSent(p)
    <3> DEFINE i == pass[p].id
    <3>1. i \in Ids /\ record \in [Ids -> Record] /\ pass \in [Passes -> PassState]
      BY <1>0, <2>7 DEF TypeOK, RecordDigestSent
    <3>2. \/ record' = record
          \/ record' = [record EXCEPT ![i] = pass[p].listed[i]]
      BY <2>7 DEF RecordDigestSent
    <3>3. \A j \in Ids : record'[j] = record[j] \/ record'[j] = pass[p].listed[j]
      BY <3>1, <3>2
    <3>4. pass' = [pass EXCEPT ![p].at = "mail", ![p].id = NoId,
                               ![p].listed[i] = NoRecord]
      BY <2>7 DEF RecordDigestSent
    <3>5. \A q \in Passes, j \in Ids :
            pass'[q].listed[j] = pass[q].listed[j] \/ pass'[q].listed[j] = NoRecord
      BY <3>1, <3>4 DEF PassState
    <3>6. agreed' = agreed /\ handler' = handler /\ delivered' = delivered
      BY <2>7 DEF RecordDigestSent
    <3>7. RecordsAgreed' /\ RequestsAgreed' /\ OnlyAgreedMailed'
      BY <1>b, <3>3, <3>6
    <3>8. PassesAgreed' /\ ListedAreConfirmed'
      BY <1>a, <1>b, <3>5, <3>6
    <3> QED
      BY <3>7, <3>8
  <2>8. CASE PassEnds(p)
    BY <1>0, <1>a, <1>b, <2>8 DEF TypeOK, PassEnds, IdlePass, Nothing
  <2> QED
    BY <1>2, <2>1, <2>2, <2>3, <2>4, <2>5, <2>6, <2>7, <2>8, <2>b DEF Sender
<1>3. ASSUME NEW i \in Ids, Expire(i) PROVE Rest'
  BY <1>0, <1>a, <1>b, <1>3 DEF TypeOK, Expire
<1>4. CASE Tick
  BY <1>b, <1>4 DEF Tick
<1>5. CASE Crash
  BY <1>0, <1>a, <1>b, <1>5 DEF TypeOK, Crash, IdleHandler, IdlePass, Nothing
<1>6. CASE UNCHANGED vars
  BY <1>b, <1>6 DEF vars
<1> QED
  BY <1>1, <1>2, <1>3, <1>4, <1>5, <1>6 DEF Next

\* Nothing is sent before the confirmation link is opened, for any number of
\* addresses, requests, passes, faults and restarts (confirmSubscription,
\* listConfirmed, recordDigestSent).
THEOREM NothingUnagreed == Spec => []OnlyAgreedMailed
<1>1. Agreed => OnlyAgreedMailed
  BY DEF Agreed
<1> QED
  BY AgreedInit, AgreedStep, <1>1, PTL DEF Spec

-----------------------------------------------------------------------------
\* Why an address that unsubscribed is not walked: only a confirmation adds to
\* the set, and one under way is for an address that is not counted gone.
GoneAreNotConfirming ==
  \A h \in Handlers :
    handler[h].at \in {"writeConfirmed", "addMember"} => handler[h].id \notin gone

Left == TypeOK /\ GoneIsNotWalked /\ GoneAreNotConfirming

LEMMA LeftStep == Left /\ [Next]_vars => Left'
<1> SUFFICES ASSUME Left, [Next]_vars PROVE Left'
  OBVIOUS
<1> USE DEF store, history, spent, GoneIsNotWalked, GoneAreNotConfirming
<1>0. TypeOK /\ TypeOK'
  BY TypeStep DEF Left
<1> DEFINE Rest == GoneIsNotWalked /\ GoneAreNotConfirming
<1>b. Rest
  BY DEF Left
<1> SUFFICES Rest'
  BY <1>0 DEF Left
<1>1. ASSUME NEW h \in Handlers, Reader(h) PROVE Rest'
  <2>1. ASSUME NEW i \in Ids, NEW c \in Choices, ReadForRequest(h, i, c)
        PROVE  Rest'
    BY <1>0, <1>b, <2>1 DEF TypeOK, ReadForRequest
  <2>2. CASE WritePending(h)
    BY <1>0, <1>b, <2>2, HandlerGoesKeeps, HandlerEndsKeeps
       DEF WritePending, HandlerSteps
  <2>3. CASE SendConfirmation(h)
    BY <1>0, <1>b, <2>3, HandlerEndsKeeps DEF SendConfirmation
  <2>4. ASSUME NEW i \in Ids, ReadForConfirm(h, i) PROVE Rest'
    BY <1>0, <1>b, <2>4 DEF TypeOK, ReadForConfirm
  <2>5. CASE WriteConfirmed(h)
    BY <1>0, <1>b, <2>5, HandlerGoesKeeps, HandlerEndsKeeps
       DEF WriteConfirmed, HandlerSteps
  <2>6. CASE AddMember(h)
    BY <1>0, <1>b, <2>6, HandlerEndsKeeps DEF AddMember
  <2>7. ASSUME NEW i \in Ids, ReadForUnsubscribe(h, i) PROVE Rest'
    BY <1>0, <1>b, <2>7 DEF TypeOK, ReadForUnsubscribe
  <2>8. CASE RemoveMember(h)
    <3>1. \A g \in Handlers : handler'[g].at \in {"writeConfirmed", "addMember"}
                               => handler'[g] = handler[g]
      BY <1>0, <2>8, HandlerGoesKeeps, HandlerEndsKeeps
         DEF RemoveMember, HandlerSteps
    <3> QED
      BY <1>b, <2>8, <3>1 DEF RemoveMember, Confirming
  <2>9. CASE DeleteRecord(h)
    BY <1>0, <1>b, <2>9, HandlerEndsKeeps DEF DeleteRecord
  <2> QED
    BY <1>1, <2>1, <2>2, <2>3, <2>4, <2>5, <2>6, <2>7, <2>8, <2>9 DEF Reader
<1>2. ASSUME NEW p \in Passes, Sender(p) PROVE Rest'
  <2>1. members' \subseteq members
    BY <1>2 DEF Sender, ListMembers, ListMember, DropMember, AllListed,
       SkipSubscriber, SendDigest, SendDigestUnheard, RecordDigestSent, PassEnds
  <2>2. handler' = handler /\ gone' = gone
    BY <1>2 DEF Sender, ListMembers, ListMember, DropMember, AllListed,
       SkipSubscriber, SendDigest, SendDigestUnheard, RecordDigestSent, PassEnds
  <2> QED
    BY <1>b, <2>1, <2>2
<1>3. ASSUME NEW i \in Ids, Expire(i) PROVE Rest'
  BY <1>b, <1>3 DEF Expire
<1>4. CASE Tick
  BY <1>b, <1>4 DEF Tick
<1>5. CASE Crash
  BY <1>b, <1>5 DEF Crash, IdleHandler
<1>6. CASE UNCHANGED vars
  BY <1>b, <1>6 DEF vars
<1> QED
  BY <1>1, <1>2, <1>3, <1>4, <1>5, <1>6 DEF Next

\* Once an unsubscription has taken an address out of the set, only a new
\* confirmation puts it back, for any number of everything (unsubscribe,
\* confirmSubscription, listConfirmed, recordDigestSent).
THEOREM UnsubscribedNotWalked == Spec => []GoneIsNotWalked
<1>1. Init => Left
  BY TypeInit DEF Init, Left, GoneIsNotWalked, GoneAreNotConfirming, IdleHandler
<1>2. Left => GoneIsNotWalked
  BY DEF Left
<1> QED
  BY <1>1, <1>2, LeftStep, PTL DEF Spec
-----------------------------------------------------------------------------
\* Why the digests of one Monday are accounted for.  A pass may still send one
\* to an id if it holds a record of it that is due, or if the record kept is
\* due and the pass is not about to write another.  No pass sends twice until
\* something starts the count anew: a command not answered, a digest not heard
\* to be taken, a restart, or a confirmation.  Each of those lets every pass send once more.
Due(rec)        == rec.confirmed /\ rec.sent < clock
Holds(p, i)     == pass[p].listed[i] # NoRecord /\ pass[p].listed[i].sent < clock
Recording(p, i) == pass[p].at = "recordSent" /\ pass[p].id = i
MaySend(p, i)   == Holds(p, i) \/ (Due(record[i]) /\ ~Recording(p, i))
Senders(i)      == {p \in Passes : MaySend(p, i)}
Counts(i)       == 1 + faults + crashes + fresh[i]

\* What a pass records is the time of this Monday's digest; when the day is
\* over, only a pass that began before is left to record one.
RecordedNow ==
  \A p \in Passes :
    pass[p].at = "recordSent" =>
      IF IsMonday THEN pass[p].listed[pass[p].id].sent = clock
      ELSE pass[p].since # clock

InCount(i) ==
  IF IsMonday
  THEN digests[i] + Cardinality(Senders(i)) <= Cardinality(Passes) * Counts(i)
  ELSE digests[i] = 0

Accounted == /\ Agreed /\ RecordedNow
             /\ \A i \in Ids : InCount(i)

LEMMA SendersAreFew ==
  ASSUME NEW i \in Ids
  PROVE  /\ IsFiniteSet(Senders(i)) /\ Cardinality(Senders(i)) \in Nat
         /\ Cardinality(Passes) \in Nat
         /\ Cardinality(Senders(i)) <= Cardinality(Passes)
  <1>1. Senders(i) \in SUBSET Passes
    BY DEF Senders
  <1> QED
    BY <1>1, FS_Subset, FS_CardinalityType, PassesAssumption

LEMMA SendersAreFewThen ==
  ASSUME NEW i \in Ids
  PROVE  /\ IsFiniteSet(Senders(i)') /\ Cardinality(Senders(i)') \in Nat
         /\ Cardinality(Senders(i)') <= Cardinality(Passes)
  <1>1. Senders(i)' \in SUBSET Passes
    BY DEF Senders
  <1> QED
    BY <1>1, FS_Subset, FS_CardinalityType, PassesAssumption

LEMMA MoreCounts ==
  ASSUME NEW n \in Nat, NEW c \in Nat, NEW d \in Nat, c <= d
  PROVE  /\ n * c \in Nat /\ n * c <= n * d
         /\ n * (c + 1) = n * c + n
  OBVIOUS

LEMMA CountsAreNat ==
  ASSUME TypeOK, NEW i \in Ids
  PROVE  Counts(i) \in Nat /\ digests[i] \in Nat /\ faults \in Nat
         /\ crashes \in Nat /\ fresh[i] \in Nat /\ clock \in Nat
  BY DEF TypeOK, Counts

LEMMA CountsAreNatThen ==
  ASSUME TypeOK', NEW i \in Ids
  PROVE  Counts(i)' \in Nat /\ digests'[i] \in Nat
  BY DEF TypeOK, Counts

\* A step that lets no other pass send, and sends nothing.
LEMMA NoMoreSenders ==
  ASSUME TypeOK, TypeOK', NEW i \in Ids, InCount(i), clock' = clock,
         digests'[i] = digests[i], Counts(i) <= Counts(i)',
         \A p \in Passes : MaySend(p, i)' => MaySend(p, i)
  PROVE  InCount(i)'
  <1> DEFINE n == Cardinality(Passes)
             s == Cardinality(Senders(i))
             t == Cardinality(Senders(i)')
             c == Counts(i)
             d == Counts(i)'
  <1>1. CASE ~IsMonday
    BY <1>1 DEF InCount, IsMonday
  <1>2. CASE IsMonday
    <2>1. Senders(i)' \in SUBSET Senders(i)
      BY DEF Senders
    <2>2. t <= s
      BY <2>1, SendersAreFew, FS_Subset
    <2>3. digests[i] + s <= n * c
      BY <1>2 DEF InCount
    <2>4. n * c <= n * d /\ n * c \in Nat /\ n * d \in Nat
      BY SendersAreFew, CountsAreNat, CountsAreNatThen, MoreCounts
    <2>5. digests'[i] + t <= n * d
      <3>1. s \in Nat /\ t \in Nat /\ digests[i] \in Nat
        BY SendersAreFew, SendersAreFewThen, CountsAreNat
      <3> HIDE DEF n, s, t, c, d
      <3> QED
        BY <2>2, <2>3, <2>4, <3>1
    <2> QED
      BY <1>2, <2>5 DEF InCount, IsMonday
  <1> QED
    BY <1>1, <1>2

\* A step that starts the count anew, and sends nothing.
LEMMA CountedAnew ==
  ASSUME TypeOK, TypeOK', NEW i \in Ids, InCount(i), clock' = clock,
         digests'[i] = digests[i], Counts(i) + 1 <= Counts(i)'
  PROVE  InCount(i)'
  <1> DEFINE n == Cardinality(Passes)
             s == Cardinality(Senders(i))
             t == Cardinality(Senders(i)')
             c == Counts(i)
             d == Counts(i)'
  <1>1. CASE ~IsMonday
    BY <1>1 DEF InCount, IsMonday
  <1>2. CASE IsMonday
    <2>1. digests[i] + s <= n * c
      BY <1>2 DEF InCount
    <2>2. n * (c + 1) <= n * d /\ n * (c + 1) = n * c + n /\ n * c \in Nat
          /\ n * d \in Nat
      <3>1. c \in Nat /\ d \in Nat /\ n \in Nat /\ c + 1 <= d
        BY SendersAreFew, CountsAreNat, CountsAreNatThen
      <3> HIDE DEF n, c, d
      <3>2. c + 1 \in Nat
        BY <3>1
      <3> QED
        BY <3>1, <3>2, MoreCounts
    <2>3. digests'[i] + t <= n * d
      <3>1. s \in Nat /\ t \in Nat /\ digests[i] \in Nat /\ n \in Nat /\ t <= n
        BY SendersAreFew, SendersAreFewThen, CountsAreNat
      <3> HIDE DEF n, s, t, c, d
      <3> QED
        BY <2>1, <2>2, <3>1
    <2> QED
      BY <1>2, <2>3 DEF InCount, IsMonday
  <1> QED
    BY <1>1, <1>2

\* A step that sends: the pass that did may not send again.
LEMMA OneSenderLess ==
  ASSUME TypeOK, TypeOK', NEW i \in Ids, NEW p \in Passes, InCount(i), IsMonday,
         clock' = clock, digests'[i] = digests[i] + 1, Counts(i)' = Counts(i),
         MaySend(p, i), ~MaySend(p, i)',
         \A q \in Passes : MaySend(q, i)' => MaySend(q, i)
  PROVE  InCount(i)'
  <1> DEFINE s == Cardinality(Senders(i))
             t == Cardinality(Senders(i)')
  <1>1. Senders(i)' \in SUBSET (Senders(i) \ {p}) /\ p \in Senders(i)
    BY DEF Senders
  <1>2. IsFiniteSet(Senders(i) \ {p}) /\ Cardinality(Senders(i) \ {p}) = s - 1
    BY <1>1, SendersAreFew, FS_RemoveElement
  <1>3. t <= s - 1
    BY <1>1, <1>2, FS_Subset
  <1>4. digests[i] + s <= Cardinality(Passes) * Counts(i)
    BY DEF InCount
  <1>5. s \in Nat /\ t \in Nat /\ digests[i] \in Nat
    BY SendersAreFew, SendersAreFewThen, CountsAreNat
  <1>6. digests'[i] + t <= Cardinality(Passes) * Counts(i)
    <2>1. Cardinality(Passes) * Counts(i) \in Nat
      BY SendersAreFew, CountsAreNat, MoreCounts
    <2> HIDE DEF s, t
    <2> QED
      BY <1>3, <1>4, <1>5, <2>1
  <1> QED
    BY <1>6 DEF InCount, IsMonday

\* A step that sends and is not heard to: the count starts anew as well.
LEMMA SentUnheard ==
  ASSUME TypeOK, TypeOK', NEW i \in Ids, NEW p \in Passes, InCount(i), IsMonday,
         clock' = clock, digests'[i] = digests[i] + 1,
         Counts(i)' = Counts(i) + 1, MaySend(p, i)
  PROVE  InCount(i)'
  <1> DEFINE n == Cardinality(Passes)
             s == Cardinality(Senders(i))
             t == Cardinality(Senders(i)')
             c == Counts(i)
  <1>1. p \in Senders(i)
    BY DEF Senders
  <1>2. s # 0
    BY <1>1, SendersAreFew, FS_EmptySet
  <1>3. digests[i] + s <= n * c
    BY DEF InCount
  <1>4. n * (c + 1) = n * c + n /\ n * c \in Nat
    BY SendersAreFew, CountsAreNat, MoreCounts
  <1>5. s \in Nat /\ t \in Nat /\ n \in Nat /\ digests[i] \in Nat /\ t <= n
    BY SendersAreFew, SendersAreFewThen, CountsAreNat
  <1>6. (digests[i] + 1) + t <= n * (c + 1)
    <2> HIDE DEF n, s, t, c
    <2> QED
      BY <1>2, <1>3, <1>4, <1>5
  <1> QED
    BY <1>6 DEF InCount, IsMonday

LEMMA AccountedInit == Init => Accounted
  <1> SUFFICES ASSUME Init PROVE Accounted
    OBVIOUS
  <1>1. ~IsMonday
    BY DEF Init, IsMonday
  <1>2. \A i \in Ids : digests[i] = 0
    BY DEF Init
  <1>3. \A p \in Passes : pass[p].at = "idle"
    BY DEF Init, IdlePass
  <1> QED
    BY AgreedInit, <1>1, <1>2, <1>3 DEF Accounted, InCount, RecordedNow

\* What the steps of the requests, and those of the surroundings but for the
\* tick and the restart, do to the count.
Uncounted(i) == /\ digests'[i] = digests[i]
                /\ Counts(i) <= Counts(i)'
                /\ \/ Due(record[i])' => Due(record[i])
                   \/ Counts(i) + 1 <= Counts(i)'

LEMMA OutsidePasses ==
  ASSUME Accounted, TypeOK', UNCHANGED <<pass, clock>>,
         \A i \in Ids : Uncounted(i)
  PROVE  RecordedNow' /\ \A i \in Ids : InCount(i)'
  <1>1. RecordedNow'
    BY DEF Accounted, RecordedNow, IsMonday
  <1>2. ASSUME NEW i \in Ids PROVE InCount(i)'
    <2>1. InCount(i) /\ TypeOK
      BY DEF Accounted, Agreed
    <2>2. CASE Counts(i) + 1 <= Counts(i)'
      BY <2>1, <2>2, CountedAnew DEF Uncounted
    <2>3. CASE Due(record[i])' => Due(record[i])
      <3>1. \A p \in Passes : MaySend(p, i)' => MaySend(p, i)
        BY <2>3 DEF MaySend, Holds, Recording
      <3> QED
        BY <2>1, <3>1, NoMoreSenders DEF Uncounted
    <2> QED
      BY <2>2, <2>3 DEF Uncounted
  <1> QED
    BY <1>1, <1>2

LEMMA RequestsUncounted ==
  ASSUME Accounted, NEW h \in Handlers, Reader(h), NEW i \in Ids
  PROVE  Uncounted(i) /\ UNCHANGED <<pass, clock>>
<1> USE DEF store, history, spent
<1>0. TypeOK /\ RequestsAgreed
  BY DEF Accounted, Agreed
<1>a. Counts(i) \in Nat /\ faults \in Nat /\ crashes \in Nat /\ fresh[i] \in Nat
  BY <1>0, CountsAreNat
<1>1. ASSUME NEW j \in Ids, NEW c \in Choices, ReadForRequest(h, j, c)
      PROVE  Uncounted(i) /\ UNCHANGED <<pass, clock>>
  BY <1>a, <1>1 DEF ReadForRequest, Uncounted, Counts, Due
<1>2. CASE WritePending(h)
  <2>1. ~handler[h].seen.confirmed /\ handler[h].id \in Ids
    BY <1>0, <1>2 DEF RequestsAgreed, WritePending, TypeOK
  <2>2. Due(record[i])' => Due(record[i])
    BY <1>0, <1>2, <2>1 DEF WritePending, Due, TypeOK
  <2> QED
    BY <1>a, <1>2, <2>2 DEF WritePending, CountFault, Uncounted, Counts
<1>3. CASE SendConfirmation(h)
  BY <1>a, <1>3 DEF SendConfirmation, Uncounted, Counts, Due
<1>4. ASSUME NEW j \in Ids, ReadForConfirm(h, j)
      PROVE  Uncounted(i) /\ UNCHANGED <<pass, clock>>
  BY <1>a, <1>4 DEF ReadForConfirm, Uncounted, Counts, Due
<1>5. CASE WriteConfirmed(h)
  <2>1. handler[h].id \in Ids
    BY <1>0, <1>5 DEF WriteConfirmed, TypeOK
  <2>2. PICK r \in Replies :
          /\ CountFault(r)
          /\ IF Applied(r)
             THEN /\ record' = [record EXCEPT ![handler[h].id] = handler[h].seen]
                  /\ fresh' = [fresh EXCEPT ![handler[h].id] = @ + 1]
             ELSE UNCHANGED <<record, fresh>>
    BY <1>5 DEF WriteConfirmed
  <2>3. faults' \in Nat /\ faults <= faults' /\ crashes' = crashes
    BY <1>a, <1>5, <2>2 DEF CountFault, WriteConfirmed
  <2>4. digests' = digests /\ UNCHANGED <<pass, clock>>
    BY <1>5 DEF WriteConfirmed
  <2>5. CASE Applied(r) /\ i = handler[h].id
    <3>1. fresh'[i] = fresh[i] + 1
      BY <1>0, <2>2, <2>5 DEF TypeOK
    <3> QED
      BY <1>a, <2>3, <2>4, <3>1 DEF Uncounted, Counts
  <2>6. CASE ~(Applied(r) /\ i = handler[h].id)
    <3>1. fresh'[i] = fresh[i] /\ record'[i] = record[i]
      BY <1>0, <2>2, <2>6 DEF TypeOK
    <3> QED
      BY <1>a, <2>3, <2>4, <3>1 DEF Uncounted, Counts, Due
  <2> QED
    BY <2>5, <2>6
<1>6. CASE AddMember(h)
  BY <1>a, <1>6 DEF AddMember, CountFault, Uncounted, Counts, Due
<1>7. ASSUME NEW j \in Ids, ReadForUnsubscribe(h, j)
      PROVE  Uncounted(i) /\ UNCHANGED <<pass, clock>>
  BY <1>a, <1>7 DEF ReadForUnsubscribe, Uncounted, Counts, Due
<1>8. CASE RemoveMember(h)
  BY <1>a, <1>8 DEF RemoveMember, CountFault, Uncounted, Counts, Due
<1>9. CASE DeleteRecord(h)
  <2>1. ~NoRecord.confirmed /\ handler[h].id \in Ids
    BY <1>0, <1>9 DEF NoRecord, DeleteRecord, TypeOK
  <2>2. Due(record[i])' => Due(record[i])
    BY <1>0, <1>9, <2>1 DEF DeleteRecord, Due, TypeOK
  <2> QED
    BY <1>a, <1>9, <2>2 DEF DeleteRecord, CountFault, Uncounted, Counts
<1> QED
  BY <1>1, <1>2, <1>3, <1>4, <1>5, <1>6, <1>7, <1>8, <1>9 DEF Reader

\* A step of one pass that sends nothing: what has to be seen of that pass.
LEMMA OnePass ==
  ASSUME Accounted, TypeOK', NEW p \in Passes,
         UNCHANGED <<clock, digests, fresh, crashes>>, faults <= faults',
         \A q \in Passes : q # p => pass'[q] = pass[q],
         \A i \in Ids : record'[i] # record[i] => ~Due(record[i])',
         pass'[p].at # "recordSent",
         \A i \in Ids : MaySend(p, i)' => MaySend(p, i) \/ faults + 1 <= faults'
  PROVE  RecordedNow' /\ \A i \in Ids : InCount(i)'
  <1>1. RecordedNow'
    BY DEF Accounted, RecordedNow, IsMonday
  <1>2. ASSUME NEW i \in Ids PROVE InCount(i)'
    <2>1. InCount(i) /\ TypeOK
      BY DEF Accounted, Agreed
    <2>2. /\ Counts(i) <= Counts(i)'
          /\ faults + 1 <= faults' => Counts(i) + 1 <= Counts(i)'
      BY <2>1, CountsAreNat DEF Counts, TypeOK
    <2>3. CASE faults + 1 <= faults'
      BY <2>1, <2>2, <2>3, CountedAnew
    <2>4. CASE ~(faults + 1 <= faults')
      <3>1. Due(record[i])' => Due(record[i])
        BY DEF Due
      <3>2. ASSUME NEW q \in Passes, q # p, MaySend(q, i)' PROVE MaySend(q, i)
        BY <3>1, <3>2 DEF MaySend, Holds, Recording
      <3>3. \A q \in Passes : MaySend(q, i)' => MaySend(q, i)
        BY <2>4, <3>2
      <3> QED
        BY <2>1, <2>2, <3>3, NoMoreSenders
    <2> QED
      BY <2>3, <2>4
  <1> QED
    BY <1>1, <1>2

LEMMA PassesCounted ==
  ASSUME Accounted, TypeOK', NEW p \in Passes, Sender(p)
  PROVE  RecordedNow' /\ \A i \in Ids : InCount(i)'
<1> USE DEF store, history, spent
<1>0. TypeOK /\ ListedAreConfirmed /\ RecordedNow /\ pass \in [Passes -> PassState]
      /\ record \in [Ids -> Record]
  BY DEF Accounted, Agreed, TypeOK
<1>a. faults \in Nat /\ clock \in Nat
  BY <1>0 DEF TypeOK
<1> DEFINE Goal == RecordedNow' /\ \A i \in Ids : InCount(i)'
<1>1. CASE ListMembers(p)
  <2>1. \A q \in Passes : q # p => pass'[q] = pass[q]
    BY <1>0, <1>1 DEF ListMembers
  <2>2. /\ pass'[p].at = "read" /\ pass[p].at = "idle"
        /\ \A i \in Ids : pass'[p].listed[i] = NoRecord
    BY <1>0, <1>1 DEF ListMembers, IdlePass, Nothing
  <2>3. \A i \in Ids : MaySend(p, i)' => MaySend(p, i)
    BY <1>1, <2>2 DEF ListMembers, MaySend, Holds, Recording, Due
  <2> QED
    BY <1>a, <1>1, <2>1, <2>2, <2>3, OnePass DEF ListMembers
<1>2. ASSUME NEW j \in Ids, ListMember(p, j) PROVE Goal
  <2>1. \A q \in Passes : q # p => pass'[q] = pass[q]
    BY <1>0, <1>2 DEF ListMember
  <2>2. pass[p].at = "read" /\ pass'[p].at # "recordSent" /\ faults <= faults'
        /\ UNCHANGED <<record, clock, digests, fresh, crashes>>
    BY <1>a, <1>0, <1>2 DEF ListMember, CountFault, PassState
  <2>3. \A i \in Ids : \/ pass'[p].listed[i] = pass[p].listed[i]
                       \/ pass'[p].listed[i] = record[i] /\ record[i].confirmed
    BY <1>0, <1>2 DEF ListMember, Sendable, PassState
  <2>4. \A i \in Ids : MaySend(p, i)' => MaySend(p, i)
    BY <2>2, <2>3 DEF MaySend, Holds, Recording, Due
  <2> QED
    BY <2>1, <2>2, <2>4, OnePass
<1>3. CASE DropMember(p)
  <2>1. \A q \in Passes : q # p => pass'[q] = pass[q]
    BY <1>0, <1>3 DEF DropMember
  <2>2. pass[p].at = "drop" /\ pass'[p].at = "read" /\ faults <= faults'
        /\ UNCHANGED <<record, clock, digests, fresh, crashes>>
        /\ pass'[p].listed = pass[p].listed
    BY <1>a, <1>0, <1>3 DEF DropMember, CountFault, PassState
  <2>4. \A i \in Ids : MaySend(p, i)' => MaySend(p, i)
    BY <2>2 DEF MaySend, Holds, Recording, Due
  <2> QED
    BY <2>1, <2>2, <2>4, OnePass
<1>4. CASE AllListed(p)
  <2>1. \A q \in Passes : q # p => pass'[q] = pass[q]
    BY <1>0, <1>4 DEF AllListed, PassGoes
  <2>2. pass[p].at = "read" /\ pass'[p].at = "mail" /\ faults <= faults'
        /\ UNCHANGED <<record, clock, digests, fresh, crashes>>
        /\ pass'[p].listed = pass[p].listed
    BY <1>a, <1>0, <1>4 DEF AllListed, PassGoes, PassState
  <2>4. \A i \in Ids : MaySend(p, i)' => MaySend(p, i)
    BY <2>2 DEF MaySend, Holds, Recording, Due
  <2> QED
    BY <2>1, <2>2, <2>4, OnePass
<1>5. ASSUME NEW j \in Ids, SkipSubscriber(p, j) PROVE Goal
  <2>1. \A q \in Passes : q # p => pass'[q] = pass[q]
    BY <1>0, <1>5 DEF SkipSubscriber
  <2>2. pass[p].at = "mail" /\ pass'[p].at = "mail" /\ faults <= faults'
        /\ UNCHANGED <<record, clock, digests, fresh, crashes>>
    BY <1>a, <1>0, <1>5 DEF SkipSubscriber, PassState
  <2>3. \A i \in Ids : \/ pass'[p].listed[i] = pass[p].listed[i]
                       \/ pass'[p].listed[i] = NoRecord
    BY <1>0, <1>5 DEF SkipSubscriber, PassState
  <2>4. \A i \in Ids : MaySend(p, i)' => MaySend(p, i)
    BY <2>2, <2>3 DEF MaySend, Holds, Recording, Due
  <2> QED
    BY <2>1, <2>2, <2>4, OnePass
<1>6. ASSUME NEW j \in Ids, SendDigest(p, j) PROVE Goal
  <2>1. /\ pass[p].at = "mail" /\ pass[p].listed[j] # NoRecord
        /\ IsMonday /\ pass[p].listed[j].sent < clock
        /\ UNCHANGED <<record, clock, faults, crashes, fresh>>
        /\ digests' = [digests EXCEPT ![j] = @ + 1]
    BY <1>6 DEF SendDigest, Taken, IsDigestDue
  <2>2. \A q \in Passes : q # p => pass'[q] = pass[q]
    BY <1>0, <1>6 DEF SendDigest
  <2>3. pass'[p].at = "recordSent" /\ pass'[p].id = j
    BY <1>0, <1>6 DEF SendDigest, PassState
  <2>4. pass'[p].listed[j] = [pass[p].listed[j] EXCEPT !.sent = clock]
        /\ \A i \in Ids : i # j => pass'[p].listed[i] = pass[p].listed[i]
    BY <1>0, <1>6 DEF SendDigest, PassState
  <2>5. pass[p].listed[j] \in Record
    BY <1>0 DEF PassState
  <2>6. pass'[p].listed[j].sent = clock
    BY <2>4, <2>5, <2>1 DEF Record
  <2>7. RecordedNow'
    BY <1>0, <2>1, <2>2, <2>3, <2>6 DEF RecordedNow, IsMonday
  <2>8. ASSUME NEW i \in Ids PROVE InCount(i)'
    <3>1. InCount(i)
      BY DEF Accounted
    <3>2. ASSUME NEW q \in Passes, q # p, MaySend(q, i)' PROVE MaySend(q, i)
      BY <2>1, <2>2, <3>2 DEF MaySend, Holds, Recording, Due
    <3>3. CASE i = j
      <4>1. MaySend(p, i)
        BY <2>1, <3>3 DEF MaySend, Holds
      <4>2. ~MaySend(p, i)'
        BY <1>a, <2>1, <2>3, <2>6, <3>3 DEF MaySend, Holds, Recording
      <4>3. digests'[i] = digests[i] + 1 /\ Counts(i)' = Counts(i)
        BY <1>0, <2>1, <3>3 DEF TypeOK, Counts
      <4>4. \A q \in Passes : MaySend(q, i)' => MaySend(q, i)
        BY <3>2, <4>1
      <4> QED
        BY <1>0, <2>1, <3>1, <4>1, <4>2, <4>3, <4>4, OneSenderLess
    <3>4. CASE i # j
      <4>1. MaySend(p, i)' => MaySend(p, i)
        BY <2>1, <2>3, <2>4, <3>4 DEF MaySend, Holds, Recording, Due
      <4>2. digests'[i] = digests[i] /\ Counts(i) <= Counts(i)'
        BY <1>0, <2>1, <3>4, CountsAreNat DEF TypeOK, Counts
      <4>3. \A q \in Passes : MaySend(q, i)' => MaySend(q, i)
        BY <3>2, <4>1
      <4> QED
        BY <1>0, <2>1, <3>1, <4>2, <4>3, NoMoreSenders
    <3> QED
      BY <3>3, <3>4
  <2> QED
    BY <2>7, <2>8
<1>b. ASSUME NEW j \in Ids, SendDigestUnheard(p, j) PROVE Goal
  <2>1. /\ pass[p].at = "mail" /\ pass[p].listed[j] # NoRecord
        /\ IsMonday /\ pass[p].listed[j].sent < clock
        /\ UNCHANGED <<record, clock, crashes, fresh>>
        /\ digests' = [digests EXCEPT ![j] = @ + 1]
        /\ faults' = faults + 1
    BY <1>b DEF SendDigestUnheard, Taken, IsDigestDue, CountFault, Answered
  <2>2. \A q \in Passes : q # p => pass'[q] = pass[q]
    BY <1>0, <1>b DEF SendDigestUnheard
  <2>3. pass'[p].at = "mail"
    BY <1>0, <1>b, <2>1 DEF SendDigestUnheard, PassState
  <2>4. RecordedNow'
    BY <1>0, <2>1, <2>2, <2>3 DEF RecordedNow, IsMonday
  <2>5. ASSUME NEW i \in Ids PROVE InCount(i)'
    <3>1. InCount(i) /\ Counts(i)' = Counts(i) + 1
      BY <1>0, <2>1, CountsAreNat DEF Accounted, Counts
    <3>2. CASE i = j
      <4>1. MaySend(p, i)
        BY <2>1, <3>2 DEF MaySend, Holds
      <4>2. digests'[i] = digests[i] + 1
        BY <1>0, <2>1, <3>2 DEF TypeOK
      <4> QED
        BY <1>0, <2>1, <3>1, <4>1, <4>2, SentUnheard
    <3>3. CASE i # j
      <4>1. digests'[i] = digests[i] /\ Counts(i) + 1 <= Counts(i)'
        BY <1>0, <2>1, <3>1, <3>3, CountsAreNat DEF TypeOK
      <4> QED
        BY <1>0, <2>1, <3>1, <4>1, CountedAnew
    <3> QED
      BY <3>2, <3>3
  <2> QED
    BY <2>4, <2>5
<1>7. CASE RecordDigestSent(p)
  <2> DEFINE j == pass[p].id
  <2>1. pass[p].at = "recordSent" /\ j \in Ids
        /\ UNCHANGED <<clock, digests, fresh, crashes>>
    BY <1>0, <1>7 DEF RecordDigestSent, TypeOK
  <2>2. \A q \in Passes : q # p => pass'[q] = pass[q]
    BY <1>0, <1>7 DEF RecordDigestSent
  <2>3. pass'[p].at = "mail"
    BY <1>0, <1>7 DEF RecordDigestSent, PassState
  <2>4. pass'[p].listed[j] = NoRecord
        /\ \A i \in Ids : i # j => pass'[p].listed[i] = pass[p].listed[i]
    BY <1>0, <1>7, <2>1 DEF RecordDigestSent, PassState
  <2>5. PICK r \in Replies :
          /\ CountFault(r)
          /\ record' = IF Applied(r)
                       THEN [record EXCEPT ![j] = pass[p].listed[j]] ELSE record
    BY <1>7 DEF RecordDigestSent
  <2>6. faults <= faults' /\ (~Applied(r) => faults + 1 <= faults')
    BY <1>a, <2>5 DEF CountFault, Applied, Answered
  <2>7. CASE IsMonday
    <3>1. pass[p].listed[j].sent = clock
      BY <1>0, <2>1, <2>7 DEF RecordedNow
    <3>2. \A i \in Ids : record'[i] # record[i] => ~Due(record[i])'
      BY <1>0, <1>a, <2>1, <2>5, <3>1 DEF Due
    <3>3. ASSUME NEW i \in Ids, MaySend(p, i)'
          PROVE  MaySend(p, i) \/ faults + 1 <= faults'
      <4>1. CASE ~Applied(r)
        BY <2>6, <4>1
      <4>2. CASE Applied(r) /\ i = j
        <5>1. record'[i] = pass[p].listed[j]
          BY <1>0, <2>1, <2>5, <4>2
        <5> QED
          BY <1>a, <2>1, <2>4, <3>1, <3>3, <4>2, <5>1 DEF MaySend, Holds, Due
      <4>3. CASE i # j
        <5>1. record'[i] = record[i]
          BY <1>0, <2>1, <2>5, <4>3
        <5> QED
          BY <2>1, <2>4, <3>3, <4>3, <5>1 DEF MaySend, Holds, Due, Recording
      <4> QED
        BY <4>1, <4>2, <4>3
    <3> QED
      BY <2>1, <2>2, <2>3, <2>6, <3>2, <3>3, OnePass
  <2>8. CASE ~IsMonday
    <3>1. RecordedNow'
      BY <1>0, <2>1, <2>2, <2>3 DEF RecordedNow, IsMonday
    <3> QED
      BY <2>1, <2>8, <3>1 DEF Accounted, InCount, IsMonday
  <2> QED
    BY <2>7, <2>8
<1>8. CASE PassEnds(p)
  <2>1. \A q \in Passes : q # p => pass'[q] = pass[q]
    BY <1>0, <1>8 DEF PassEnds
  <2>2. /\ pass'[p].at = "idle" /\ pass[p].at = "mail"
        /\ \A i \in Ids : pass'[p].listed[i] = NoRecord
    BY <1>0, <1>8 DEF PassEnds, IdlePass, Nothing
  <2>3. \A i \in Ids : MaySend(p, i)' => MaySend(p, i)
    BY <1>8, <2>2 DEF PassEnds, MaySend, Holds, Recording, Due
  <2> QED
    BY <1>a, <1>8, <2>1, <2>2, <2>3, OnePass DEF PassEnds
<1> QED
  BY <1>1, <1>2, <1>3, <1>4, <1>5, <1>6, <1>7, <1>8, <1>b DEF Sender

LEMMA TickCounted ==
  ASSUME Accounted, TypeOK', Tick
  PROVE  RecordedNow' /\ \A i \in Ids : InCount(i)'
  <1>0. TypeOK /\ RecordedNow
    BY DEF Accounted, Agreed
  <1>1. clock \in Nat /\ clock' = clock + 1 /\ pass' = pass
        /\ \A i \in Ids : digests'[i] = 0
    BY <1>0 DEF Tick, TypeOK
  <1>2. \A p \in Passes : pass[p].at = "recordSent" => pass[p].since = clock
    BY DEF Tick
  <1>3. RecordedNow'
    <2>1. CASE IsMonday
      <3>1. ~IsMonday'
        BY <1>1, <2>1 DEF IsMonday
      <3>2. \A p \in Passes : pass[p].at = "recordSent" => pass'[p].since # clock'
        BY <1>1, <1>2
      <3> QED
        BY <1>1, <3>1, <3>2 DEF RecordedNow
    <2>2. CASE ~IsMonday
      BY <1>0, <1>1, <1>2, <2>2 DEF RecordedNow
    <2> QED
      BY <2>1, <2>2
  <1>4. ASSUME NEW i \in Ids PROVE InCount(i)'
    <2> DEFINE n == Cardinality(Passes)
               d == Counts(i)'
               t == Cardinality(Senders(i)')
    <2>1. n \in Nat /\ t \in Nat /\ d \in Nat /\ t <= n
      BY SendersAreFew, SendersAreFewThen, CountsAreNatThen
    <2>2. 1 <= d
      BY CountsAreNatThen DEF Counts, TypeOK
    <2>3. n * 1 <= n * d
      <3> HIDE DEF n, d
      <3> QED
        BY <2>1, <2>2, MoreCounts
    <2>4. 0 + t <= n * d
      <3>1. n * d \in Nat /\ n * 1 = n
        <4> HIDE DEF n, d
        <4> QED
          BY <2>1
      <3> HIDE DEF n, d, t
      <3> QED
        BY <2>1, <2>3, <3>1
    <2> QED
      BY <1>1, <2>4 DEF InCount
  <1> QED
    BY <1>3, <1>4

LEMMA CrashCounted ==
  ASSUME Accounted, TypeOK', Crash
  PROVE  RecordedNow' /\ \A i \in Ids : InCount(i)'
  <1>0. TypeOK
    BY DEF Accounted, Agreed
  <1>1. RecordedNow'
    BY DEF Crash, IdlePass, RecordedNow
  <1>2. ASSUME NEW i \in Ids PROVE InCount(i)'
    <2>1. Counts(i) + 1 <= Counts(i)' /\ clock' = clock /\ digests' = digests
      BY <1>0, CountsAreNat DEF Crash, Counts, history
    <2> QED
      BY <1>0, <2>1, CountedAnew DEF Accounted
  <1> QED
    BY <1>1, <1>2

LEMMA AccountedStep == Accounted /\ [Next]_vars => Accounted'
<1> SUFFICES ASSUME Accounted, [Next]_vars PROVE Accounted'
  OBVIOUS
<1>0. Agreed /\ Agreed' /\ TypeOK /\ TypeOK'
  BY AgreedStep DEF Accounted, Agreed
<1> SUFFICES RecordedNow' /\ \A i \in Ids : InCount(i)'
  BY <1>0 DEF Accounted
<1>1. ASSUME NEW h \in Handlers, Reader(h)
      PROVE  RecordedNow' /\ \A i \in Ids : InCount(i)'
  <2>1. UNCHANGED <<pass, clock>>
    BY <1>1 DEF Reader, ReadForRequest, WritePending, SendConfirmation,
       ReadForConfirm, WriteConfirmed, AddMember, ReadForUnsubscribe,
       RemoveMember, DeleteRecord
  <2> QED
    BY <1>0, <1>1, <2>1, RequestsUncounted, OutsidePasses
<1>2. ASSUME NEW p \in Passes, Sender(p)
      PROVE  RecordedNow' /\ \A i \in Ids : InCount(i)'
  BY <1>0, <1>2, PassesCounted
<1>3. ASSUME NEW j \in Ids, Expire(j)
      PROVE  RecordedNow' /\ \A i \in Ids : InCount(i)'
  <2>1. ~NoRecord.confirmed /\ UNCHANGED <<pass, clock, digests, faults, crashes, fresh>>
    BY <1>3 DEF Expire, NoRecord, history, spent
  <2>2. \A i \in Ids : Due(record[i])' => Due(record[i])
    BY <1>0, <1>3, <2>1 DEF Expire, Due, TypeOK
  <2>3. \A i \in Ids : Uncounted(i)
    BY <1>0, <2>1, <2>2, CountsAreNat DEF Uncounted, Counts
  <2> QED
    BY <1>0, <2>1, <2>3, OutsidePasses
<1>4. CASE Tick
  BY <1>0, <1>4, TickCounted
<1>5. CASE Crash
  BY <1>0, <1>5, CrashCounted
<1>6. CASE UNCHANGED vars
  BY <1>6 DEF vars, Accounted, RecordedNow, InCount, IsMonday, Senders, MaySend,
     Holds, Recording, Due, Counts
<1> QED
  BY <1>1, <1>2, <1>3, <1>4, <1>5, <1>6 DEF Next

\* No address gets more digests of one Monday than there are passes, but for
\* as many again for each command not answered, digest taken and not heard to
\* be, restart, and confirmation that starts its record afresh, for any number
\* of addresses, requests and passes (isDigestDue, listConfirmed, sendEmail,
\* recordDigestSent).
THEOREM DigestsAccountedFor == Spec => []DuplicatesAccountedFor
<1>1. Accounted => DuplicatesAccountedFor
  <2> SUFFICES ASSUME Accounted, NEW i \in Ids
               PROVE  digests[i] <= Cardinality(Passes)
                                    * (1 + faults + crashes + fresh[i])
    BY DEF DuplicatesAccountedFor
  <2>1. InCount(i) /\ TypeOK
    BY DEF Accounted, Agreed
  <2> DEFINE m == Cardinality(Passes) * Counts(i)
             s == Cardinality(Senders(i))
  <2>2. m \in Nat /\ s \in Nat /\ digests[i] \in Nat
    BY <2>1, SendersAreFew, CountsAreNat, MoreCounts
  <2>3. digests[i] = 0 \/ digests[i] + s <= m
    BY <2>1 DEF InCount
  <2>4. digests[i] <= m
    <3> HIDE DEF m, s
    <3> QED
      BY <2>2, <2>3
  <2> QED
    BY <2>4 DEF Counts
<1> QED
  BY AccountedInit, AccountedStep, <1>1, PTL DEF Spec
=============================================================================
