---------------------------- MODULE TelegramLinks ----------------------------
(***************************************************************************)
(* The links between a chat of the Telegram bot and an address: the store's *)
(* side (src/lib/telegram/links.ts), the browser that asks for a link and   *)
(* forgets it (connectTelegramAction.ts), the chat that claims it, toggles  *)
(* its alerts and stops (handleUpdate.ts), and the pass that follows every  *)
(* claimed link (checkWatches.ts).                                          *)
(*                                                                          *)
(* A link is four things in the store that no transaction ties together:   *)
(* the record of its token, the key of its chat, which names a token, its  *)
(* token's place in the set the pass walks, and a mark that every link has *)
(* its chat's key.  One action is one command of the store.                *)
(*                                                                          *)
(* Of a record, only whose it is is kept: the address, the language and     *)
(* what the pass saw last go where the record goes.                         *)
(***************************************************************************)
EXTENDS Naturals, FiniteSets

CONSTANTS
  Tokens,       \* tokens, numbered in the order they are minted
  Legacy,       \* tokens claimed before there were keys of chats
  Chats,
  Browsers,
  Handlers,     \* requests the server is answering at one time
  Passes,       \* scheduled passes that may run at one time
  MaxLinked,    \* MAX_LINKED_CHATS
  Budget,       \* LINKS_PER_PASS
  MaxRequests,  \* bound on requests of browsers and chats
  MaxFaults,    \* bound on commands that are not answered
  MaxCrashes,   \* bound on process restarts
  NoToken,
  NoBrowser,
  NoChat,       \* no chat, and the chat of a link nobody has claimed
  NoLink        \* a record that is not there

ASSUME BoundsAssumption ==
  {MaxLinked, Budget, MaxRequests, MaxFaults, MaxCrashes} \subseteq Nat
ASSUME TokensAssumption == Tokens \subseteq Nat /\ Legacy \subseteq Tokens
ASSUME NullAssumption ==
  NoToken \notin Tokens /\ NoChat \notin Chats \cup {NoLink} /\ NoLink \notin Chats
ASSUME ProcessAssumption == Handlers \cap Passes = {}

VARIABLES
  link,         \* whose the record of each token is
  chatKey,      \* the token each chat's key names
  watches,      \* the set of tokens the pass walks
  built,        \* the mark that every link has its chat's key
  cookie,       \* the token each browser remembers
  minted,       \* tokens minted so far
  proc,         \* what each request and each pass is doing
  presented,    \* which chat has presented which token       (history)
  followed,     \* chats told "linked", and nothing undone     (history)
  crossed,      \* chats whose claims were not in order        (history)
  gone,         \* tokens let go, not presented since          (history)
  stopped,      \* chats told "stopped", nothing presented since (history)
  taken,        \* claimed links that another browser's request ended (history)
  spent         \* requests, faults and crashes so far

stored  == <<link, chatKey, watches, built>>
site    == <<cookie, minted>>
history == <<presented, followed, crossed, gone, stopped, taken>>
vars    == <<stored, site, proc, history, spent>>

Processes == Handlers \cup Passes

-----------------------------------------------------------------------------
Link == Chats \cup {NoChat, NoLink}

ForgetSteps == {"forgetRead", "forgetKey", "forgetDelKey", "forgetDel", "forgetLeave"}
ClaimSteps  == {"claimGet", "claimCount", "claimKey", "claimWrite", "claimAdd",
                "claimAgain"}
FindSteps   == {"findLink", "findDelKey", "findBuilt", "findMembers", "findRead",
                "findDrop", "findKey"}
IndexSteps  == {"indexGet", "indexOther", "indexTake", "indexSet"}
PassSteps   == {"buildMembers", "build", "buildDrop", "buildMark", "passMembers",
                "passRead", "passDrop", "passIndex", "tell", "digest",
                "positions", "snapshot"}
Steps == {"idle", "mint", "stop", "toggle"} \cup ForgetSteps \cup ClaimSteps
           \cup FindSteps \cup IndexSteps \cup PassSteps

Nothing == [t \in Tokens |-> NoLink]
Idle == [at |-> "idle", back |-> "idle", browser |-> NoBrowser, chat |-> NoChat,
         token |-> NoToken, held |-> NoLink, other |-> NoToken, owner |-> NoChat,
         todo |-> {}, kept |-> Nothing, whole |-> TRUE]

ProcessState ==
  [at : Steps, back : Steps,
   browser : Browsers \cup {NoBrowser},   \* who asks, if a browser does
   chat  : Chats \cup {NoChat},      \* whose key is at stake
   token : Tokens \cup {NoToken},    \* the link at hand
   held  : Link,                     \* whose it was when it was read
   other : Tokens \cup {NoToken},    \* the link to be let go, or set against
   owner : Chats \cup {NoChat},      \* whose that one was when it was read
   todo  : SUBSET Tokens,            \* tokens a walk has still to read
   kept  : [Tokens -> Link],         \* links a walk has read
   whole : BOOLEAN]                  \* whether a walk has read all it met

TypeOK ==
  /\ link \in [Tokens -> Link]
  /\ chatKey \in [Chats -> Tokens \cup {NoToken}]
  /\ watches \subseteq Tokens
  /\ built \in BOOLEAN
  /\ cookie \in [Browsers -> Tokens \cup {NoToken}]
  /\ minted \subseteq Tokens
  /\ proc \in [Processes -> ProcessState]
  /\ presented \subseteq Tokens \X Chats
  /\ followed \subseteq Chats
  /\ crossed \subseteq Chats
  /\ gone \subseteq Tokens
  /\ stopped \subseteq Chats
  /\ taken \subseteq Tokens
  /\ spent \in [requests : Nat, faults : Nat, crashes : Nat]

\* Links claimed before there were keys are followed, and no chat has a key.
Init ==
  /\ \E owner \in [Legacy -> Chats] :
       /\ link = [t \in Tokens |-> IF t \in Legacy THEN owner[t] ELSE NoLink]
       /\ presented = {<<t, owner[t]>> : t \in Legacy}
  /\ chatKey = [c \in Chats |-> NoToken]
  /\ watches = Legacy
  /\ built = (Legacy = {})
  /\ cookie = [b \in Browsers |-> NoToken]
  /\ minted = Legacy
  /\ proc = [p \in Processes |-> Idle]
  /\ followed = {}
  /\ crossed = {}
  /\ gone = {}
  /\ stopped = {}
  /\ taken = {}
  /\ spent = [requests |-> 0, faults |-> 0, crashes |-> 0]

-----------------------------------------------------------------------------
(***************************************************************************)
(* The store, as redisKeyValueStore.ts answers for the Redis behind it     *)
(* (external): a command is answered and done, or not answered,            *)
(* and then it was done or was not.  A read that is not answered is lost.  *)
(***************************************************************************)
Replies == {"done", "lost", "unheard"}

Answered(r) == r = "done"
Applied(r)  == r # "lost"

CountFault(r) ==
  /\ Answered(r) \/ spent.faults < MaxFaults
  /\ spent' = IF Answered(r) THEN spent ELSE [spent EXCEPT !.faults = @ + 1]

SetKeyToItself(r, c, t) ==                \* mutant: the chat stored, not the token
  chatKey' = IF Applied(r) THEN [chatKey EXCEPT ![c] = c] ELSE chatKey
SetKey(r, c, t) ==
  chatKey' = IF Applied(r) THEN [chatKey EXCEPT ![c] = t] ELSE chatKey
WriteLink(r, t, whose) ==
  link' = IF Applied(r) THEN [link EXCEPT ![t] = whose] ELSE link
Leave(r, t) == watches' = IF Applied(r) THEN watches \ {t} ELSE watches

Request ==
  /\ spent.requests < MaxRequests
  /\ spent' = [spent EXCEPT !.requests = @ + 1]
RequestUnread ==                          \* ... whose first read is not answered
  /\ spent.requests < MaxRequests /\ spent.faults < MaxFaults
  /\ spent' = [spent EXCEPT !.requests = @ + 1, !.faults = @ + 1]

Ends(p)       == proc' = [proc EXCEPT ![p] = Idle]
Goes(p, step) == proc' = [proc EXCEPT ![p].at = step]

Claimed(t) == link[t] \in Chats
Presenters(t) == {c \in Chats : <<t, c>> \in presented}
Claiming(t) == \E h \in Handlers : proc[h].token = t /\ proc[h].at \in ClaimSteps

\* Some process is letting a token go, or dropping it from the set.
Leaving(t) ==
  \E p \in Processes :
    /\ proc[p].other = t
    /\ proc[p].at \in ForgetSteps \cup {"indexTake", "findDrop", "passDrop", "buildDrop"}

\* A request is under way that is the chat's, or about a token it presented.
Serving(c) ==
  \E h \in Handlers :
    /\ proc[h].at # "idle"
    /\ \/ proc[h].chat = c
       \/ \E t \in {proc[h].token, proc[h].other} : <<t, c>> \in presented
Served == {c \in Chats : Serving(c)}

-----------------------------------------------------------------------------
(***************************************************************************)
(* forgetLink, wherever it is called from: proc[p].other is let go, and    *)
(* then the caller goes on at proc[p].back.  No reply is looked at.        *)
(***************************************************************************)
ForgetRead(p) ==
  /\ proc[p].at = "forgetRead"
  /\ \/ /\ Claimed(proc[p].other)
        /\ proc' = [proc EXCEPT ![p].at = "forgetKey",
                                ![p].owner = link[proc[p].other]]
        /\ UNCHANGED spent
     \/ ~Claimed(proc[p].other) /\ Goes(p, "forgetDel") /\ UNCHANGED spent
     \/ CountFault("lost") /\ Goes(p, "forgetDel")
  /\ UNCHANGED <<stored, site, history>>

ForgetKey(p) ==
  /\ proc[p].at = "forgetKey"
  /\ \/ chatKey[proc[p].owner] = proc[p].other /\ Goes(p, "forgetDelKey") /\ UNCHANGED spent
     \/ chatKey[proc[p].owner] # proc[p].other /\ Goes(p, "forgetDel") /\ UNCHANGED spent
     \/ CountFault("lost") /\ Goes(p, "forgetDel")
  /\ UNCHANGED <<stored, site, history>>

ForgetDelKey(p) ==
  /\ proc[p].at = "forgetDelKey"
  /\ \E r \in Replies : CountFault(r) /\ SetKey(r, proc[p].owner, NoToken)
  /\ Goes(p, "forgetDel")
  /\ UNCHANGED <<link, watches, built, site, history>>

\* A claimed link that a browser gave up as pending is taken from its chat.
ForgetDel(p) ==
  /\ proc[p].at = "forgetDel"
  /\ \E r \in Replies : CountFault(r) /\ WriteLink(r, proc[p].other, NoLink)
  /\ Goes(p, "forgetLeave")
  /\ taken' = IF proc[p].back = "mint" /\ Claimed(proc[p].other) /\ ~Claimed(proc[p].other)'
              THEN taken \cup {proc[p].other} ELSE taken
  /\ UNCHANGED <<chatKey, watches, built, site, presented, followed,
                 crossed, gone, stopped>>

ForgetLeave(p) ==
  /\ proc[p].at = "forgetLeave"
  /\ LET t == proc[p].other IN
     \E r \in Replies :
       /\ CountFault(r)
       /\ Leave(r, t)
       /\ gone' = IF Applied(r) /\ ~Claiming(t) THEN gone \cup {t} ELSE gone
       /\ stopped' = IF proc[p].back = "idle" /\ proc[p].chat \in Chats
                     THEN stopped \cup {proc[p].chat} ELSE stopped
       /\ IF proc[p].back = "idle" THEN Ends(p)
          ELSE proc' = [proc EXCEPT ![p].at = proc[p].back, ![p].back = "idle",
                                    ![p].other = NoToken, ![p].owner = NoChat,
                                    ![p].kept[t] = NoLink]
  /\ UNCHANGED <<link, chatKey, built, site, presented, followed, crossed, taken>>

-----------------------------------------------------------------------------
(***************************************************************************)
(* The browser.  Asking gives up the pending link its cookie names, then   *)
(* mints another; the other button forgets whatever the cookie names.      *)
(***************************************************************************)
Forgets(p, t, next) ==
  proc' = [proc EXCEPT ![p].at = "forgetRead", ![p].other = t, ![p].back = next]

\* A chat whose link a browser's request is about to let go is not followed,
\* and is crossed if the request overlaps another about it.
Undone(t) == /\ followed' = followed \ Presenters(t)
             /\ crossed' = crossed \cup (Presenters(t) \cap Served)

\* A cookie that names no token is not read, and one that is read unanswered
\* lets nothing go: either way another link is minted.
MintsFor(h, b) == /\ proc' = [proc EXCEPT ![h].at = "mint", ![h].browser = b]
                  /\ UNCHANGED <<followed, crossed>>

Connect(h, b) ==
  /\ proc[h].at = "idle"
  /\ \/ /\ Request
        /\ cookie[b] \in Tokens /\ link[cookie[b]] = NoChat
        /\ proc' = [proc EXCEPT ![h].at = "forgetRead", ![h].back = "mint",
                                ![h].other = cookie[b], ![h].browser = b]
        /\ Undone(cookie[b])
     \/ /\ Request
        /\ ~(cookie[b] \in Tokens /\ link[cookie[b]] = NoChat)
        /\ MintsFor(h, b)
     \/ RequestUnread /\ cookie[b] \in Tokens /\ MintsFor(h, b)
  /\ UNCHANGED <<stored, site, presented, gone, stopped, taken>>

\* Tokens are minted in the order of their numbers.
Mint(h) ==
  /\ proc[h].at = "mint"
  /\ \E t \in Tokens \ minted :
       /\ \A u \in minted : u < t
       /\ \A u \in Tokens \ minted : t <= u
       /\ minted' = minted \cup {t}
       /\ \E r \in Replies :
            /\ CountFault(r)
            /\ WriteLink(r, t, NoChat)
            /\ cookie' = IF Answered(r) THEN [cookie EXCEPT ![proc[h].browser] = t]
                       ELSE cookie
  /\ Ends(h)
  /\ UNCHANGED <<chatKey, watches, built, history>>

Disconnect(h, b) ==
  /\ proc[h].at = "idle" /\ Request
  /\ cookie[b] \in Tokens
  /\ Forgets(h, cookie[b], "idle")
  /\ Undone(cookie[b])
  /\ cookie' = [cookie EXCEPT ![b] = NoToken]
  /\ UNCHANGED <<stored, minted, presented, gone, stopped, taken>>

-----------------------------------------------------------------------------
(***************************************************************************)
(* claimLink: a chat presents a token.  A claim that is refused, or whose  *)
(* first read is not answered, changes nothing and is not a step.          *)
(***************************************************************************)
Present(h, c, t) ==
  /\ proc[h].at = "idle" /\ Request
  /\ link[t] \in {NoChat, c}
  /\ proc' = [proc EXCEPT ![h].at = "claimGet", ![h].chat = c, ![h].token = t,
                          ![h].held = link[t]]
  /\ presented' = presented \cup {<<t, c>>}
  /\ crossed' = crossed \cup ({c} \cap Served)
       \cup (IF Leaving(t) \/ (\E u \in Tokens : u > t /\ <<u, c>> \in presented)
             THEN {c} ELSE {})
       \cup (IF link[t] = NoChat /\ Presenters(t) \ {c} # {}
             THEN Presenters(t) \cup {c} ELSE {})
  /\ gone' = gone \ {t}
  /\ stopped' = stopped \ {c}
  /\ UNCHANGED <<stored, site, followed, taken>>

\* What the chat's key names, to be let go at the end.
ClaimGet(h) ==
  /\ proc[h].at = "claimGet"
  /\ LET previous == chatKey[proc[h].chat] IN
     \/ /\ proc' = [proc EXCEPT
                      ![h].other = previous,
                      ![h].at = IF proc[h].held = NoChat /\ previous = NoToken
                                THEN "claimCount" ELSE "claimKey"]
        /\ UNCHANGED spent
     \/ CountFault("lost") /\ Ends(h)
  /\ UNCHANGED <<stored, site, history>>

ClaimCount(h) ==
  /\ proc[h].at = "claimCount"
  /\ \/ Cardinality(watches) < MaxLinked /\ Goes(h, "claimKey") /\ UNCHANGED spent
     \/ Cardinality(watches) >= MaxLinked /\ Ends(h) /\ UNCHANGED spent
     \/ CountFault("lost") /\ Ends(h)
  /\ UNCHANGED <<stored, site, history>>

ClaimKey(h) ==
  /\ proc[h].at = "claimKey"
  /\ \E r \in Replies :
       /\ CountFault(r)
       /\ SetKey(r, proc[h].chat, proc[h].token)
       /\ IF ~Answered(r) THEN Ends(h)
          ELSE Goes(h, IF proc[h].held = NoChat THEN "claimWrite" ELSE "claimAdd")
  /\ UNCHANGED <<link, watches, built, site, history>>

ClaimWrite(h) ==
  /\ proc[h].at = "claimWrite"
  /\ \E r \in Replies :
       /\ CountFault(r)
       /\ WriteLink(r, proc[h].token, proc[h].chat)
       /\ IF Answered(r) THEN Goes(h, "claimAdd") ELSE Ends(h)
  /\ UNCHANGED <<chatKey, watches, built, site, history>>

\* The token is in the set; what the key named before, if another, is let go.
\* The chat is followed from here.
ClaimAdd(h) ==
  /\ proc[h].at = "claimAdd"
  /\ LET c == proc[h].chat  t == proc[h].token IN
     \E r \in Replies :
       /\ CountFault(r)
       /\ watches' = IF Applied(r) THEN watches \cup {t} ELSE watches
       /\ followed' = IF Answered(r) THEN followed \cup {c} ELSE followed
       /\ IF Answered(r) /\ proc[h].other \notin {NoToken, t}
          THEN Forgets(h, proc[h].other, "claimAgain")
          ELSE Ends(h)
  /\ UNCHANGED <<link, chatKey, built, site, presented, crossed, gone,
                 stopped, taken>>

ClaimAgain(h) ==
  /\ proc[h].at = "claimAgain"
  /\ \E r \in Replies :
       CountFault(r) /\ SetKey(r, proc[h].chat, proc[h].token)
  /\ Ends(h)
  /\ UNCHANGED <<link, watches, built, site, history>>

-----------------------------------------------------------------------------
(***************************************************************************)
(* findByChat, and the commands that begin with it: /stop, which lets the  *)
(* link go, and /smart and /weekly, which write the record back whole.     *)
(***************************************************************************)
Commands == {"stop", "toggle"}

\* The chat's key is read; what it names is read next.
Command(h, c, what) ==
  /\ proc[h].at = "idle" /\ Request
  /\ proc' = [proc EXCEPT ![h].at = IF chatKey[c] = NoToken THEN "findBuilt" ELSE "findLink",
                          ![h].chat = c, ![h].token = chatKey[c], ![h].back = what]
  /\ crossed' = crossed \cup ({c} \cap Served)
  /\ UNCHANGED <<stored, site, presented, followed, gone, stopped, taken>>

FindLink(h) ==
  /\ proc[h].at = "findLink"
  /\ \/ /\ link[proc[h].token] = proc[h].chat
        /\ proc' = [proc EXCEPT ![h].at = proc[h].back, ![h].held = link[proc[h].token]]
        /\ UNCHANGED spent
     \/ link[proc[h].token] # proc[h].chat /\ Goes(h, "findDelKey") /\ UNCHANGED spent
     \/ CountFault("lost") /\ Ends(h)
  /\ UNCHANGED <<stored, site, history>>

FindDelKey(h) ==
  /\ proc[h].at = "findDelKey"
  /\ \E r \in Replies : CountFault(r) /\ SetKey(r, proc[h].chat, NoToken)
  /\ Goes(h, "findBuilt")
  /\ UNCHANGED <<link, watches, built, site, history>>

\* Once the mark is there, a chat with no key has no link.
FindBuilt(h) ==
  /\ proc[h].at = "findBuilt"
  /\ \/ built /\ Ends(h) /\ UNCHANGED spent
     \/ ~built /\ Goes(h, "findMembers") /\ UNCHANGED spent
     \/ CountFault("lost") /\ Ends(h)
  /\ UNCHANGED <<stored, site, history>>

\* Before that, the set is walked for one: readWatches.
FindMembers(h) ==
  /\ proc[h].at = "findMembers"
  /\ \/ proc' = [proc EXCEPT ![h].at = "findRead", ![h].todo = watches] /\ UNCHANGED spent
     \/ CountFault("lost") /\ Ends(h)
  /\ UNCHANGED <<stored, site, history>>

\* One token of a walk: kept, or to be dropped from the set, or passed over.
WalkRead(p, t, drop) ==
  /\ t \in proc[p].todo
  /\ \/ /\ Claimed(t)
        /\ proc' = [proc EXCEPT ![p].todo = @ \ {t}, ![p].kept[t] = link[t]]
        /\ UNCHANGED spent
     \/ /\ ~Claimed(t)
        /\ proc' = [proc EXCEPT ![p].at = drop, ![p].todo = @ \ {t}, ![p].other = t]
        /\ UNCHANGED spent
     \/ /\ CountFault("lost")
        /\ proc' = [proc EXCEPT ![p].todo = @ \ {t}]
  /\ UNCHANGED <<stored, site, history>>

WalkDrop(p, next) ==
  /\ \E r \in Replies : CountFault(r) /\ Leave(r, proc[p].other)
  /\ proc' = [proc EXCEPT ![p].at = next, ![p].other = NoToken]
  /\ UNCHANGED <<link, chatKey, built, site, history>>

FindRead(h, t) == proc[h].at = "findRead" /\ WalkRead(h, t, "findDrop")
FindDrop(h)    == proc[h].at = "findDrop" /\ WalkDrop(h, "findRead")

FindEnds(h) ==
  /\ proc[h].at = "findRead" /\ proc[h].todo = {}
  /\ LET mine == {t \in Tokens : proc[h].kept[t] = proc[h].chat} IN
     IF mine = {} THEN Ends(h)
     ELSE \E t \in mine :
            proc' = [proc EXCEPT ![h].at = "findKey", ![h].token = t,
                                 ![h].held = proc[h].kept[t], ![h].kept = Nothing]
  /\ UNCHANGED <<stored, site, history, spent>>

FindKey(h) ==
  /\ proc[h].at = "findKey"
  /\ \E r \in Replies : CountFault(r) /\ SetKey(r, proc[h].chat, proc[h].token)
  /\ Goes(h, proc[h].back)
  /\ UNCHANGED <<link, watches, built, site, history>>

\* forgetChatLink: the chat's key first, whatever it names, then the link.  The
\* chat's pool watches are read before, and if that is not answered nothing goes.
Stop(h) ==
  /\ proc[h].at = "stop"
  /\ \/ /\ \E r \in Replies : CountFault(r) /\ SetKey(r, proc[h].chat, NoToken)
        /\ Forgets(h, proc[h].token, "idle")
        /\ followed' = followed \ {proc[h].chat}
     \/ CountFault("lost") /\ Ends(h) /\ UNCHANGED <<chatKey, followed>>
  /\ UNCHANGED <<link, watches, built, site, presented, crossed, gone,
                 stopped, taken>>

\* Mutant: the token is added to the set too, as a pool watch's chat is.
ToggleAndAdd(h) ==
  /\ proc[h].at = "toggle"
  /\ link' = [link EXCEPT ![proc[h].token] = proc[h].held]
  /\ watches' = watches \cup {proc[h].token}
  /\ Ends(h)
  /\ UNCHANGED <<chatKey, built, site, history, spent>>

\* setSmartAlerts and setWeeklyDigest write the link as it was read.
Toggle(h) ==
  /\ proc[h].at = "toggle"
  /\ \E r \in Replies : CountFault(r) /\ WriteLink(r, proc[h].token, proc[h].held)
  /\ Ends(h)
  /\ UNCHANGED <<chatKey, watches, built, site, history>>

-----------------------------------------------------------------------------
(***************************************************************************)
(* indexLink: the link proc[p].token of proc[p].chat, as it was read, set  *)
(* against what the chat's key names.  Of two links of one chat the one    *)
(* minted later stays.                                                     *)
(***************************************************************************)
Indexes(p, t, c, next) ==
  proc' = [proc EXCEPT ![p].at = "indexGet", ![p].token = t, ![p].chat = c,
                       ![p].back = next, ![p].todo = @ \ {t}]

IndexEnds(p) ==
  proc' = [proc EXCEPT ![p].at = proc[p].back, ![p].back = "idle",
                       ![p].token = NoToken, ![p].chat = NoChat,
                       ![p].other = NoToken]

IndexGet(p) ==
  /\ proc[p].at = "indexGet"
  /\ LET named == chatKey[proc[p].chat] IN
     \/ /\ named \in {NoToken, proc[p].token}
        /\ Goes(p, "indexSet") /\ UNCHANGED spent
     \/ /\ named \notin {NoToken, proc[p].token}
        /\ proc' = [proc EXCEPT ![p].at = "indexOther", ![p].other = named]
        /\ UNCHANGED spent
     \/ CountFault("lost") /\ IndexEnds(p)
  /\ UNCHANGED <<stored, site, history>>

LaterMintedReversed(t, u) == t < u         \* mutant: compared the wrong way round
LaterMinted(t, u) == t > u

\* Mutant: a key that names what is not this chat's link is left alone.
IndexOtherLeft(p) ==
  /\ proc[p].at = "indexOther"
  /\ IF link[proc[p].other] = proc[p].chat THEN Goes(p, "indexTake") ELSE IndexEnds(p)
  /\ UNCHANGED <<stored, site, history, spent>>

IndexOther(p) ==
  /\ proc[p].at = "indexOther"
  /\ LET t == proc[p].token  other == proc[p].other IN
     \/ /\ link[other] # proc[p].chat
        /\ proc' = [proc EXCEPT ![p].at = "indexSet", ![p].other = NoToken]
        /\ UNCHANGED spent
     \/ /\ link[other] = proc[p].chat /\ LaterMinted(other, t)
        /\ proc' = [proc EXCEPT ![p].at = "forgetRead", ![p].other = t,
                                ![p].token = NoToken, ![p].chat = NoChat]
        /\ UNCHANGED spent
     \/ /\ link[other] = proc[p].chat /\ ~LaterMinted(other, t)
        /\ Goes(p, "indexTake") /\ UNCHANGED spent
     \/ CountFault("lost") /\ IndexEnds(p)
  /\ UNCHANGED <<stored, site, history>>

IndexTake(p) ==
  /\ proc[p].at = "indexTake"
  /\ \E r \in Replies : CountFault(r) /\ SetKey(r, proc[p].chat, proc[p].token)
  /\ proc' = [proc EXCEPT ![p].at = "forgetRead", ![p].token = NoToken,
                          ![p].chat = NoChat]
  /\ UNCHANGED <<link, watches, built, site, history>>

IndexSet(p) ==
  /\ proc[p].at = "indexSet"
  /\ \E r \in Replies : CountFault(r) /\ SetKey(r, proc[p].chat, proc[p].token)
  /\ IndexEnds(p)
  /\ UNCHANGED <<link, watches, built, site, history>>

-----------------------------------------------------------------------------
(***************************************************************************)
(* The pass: buildChatIndex until the mark is there, then the links it     *)
(* takes are read and indexed, and then each is followed: its digest, its  *)
(* alerts, and what was seen written back with the link as it was read.    *)
(***************************************************************************)
PassStart(p) ==
  /\ proc[p].at = "idle"
  /\ Goes(p, IF built THEN "passMembers" ELSE "buildMembers")
  /\ UNCHANGED <<stored, site, history, spent>>

BuildMembers(p) ==
  /\ proc[p].at = "buildMembers"
  /\ \/ proc' = [proc EXCEPT ![p].at = "build", ![p].todo = watches] /\ UNCHANGED spent
     \/ CountFault("lost") /\ Goes(p, "passMembers")
  /\ UNCHANGED <<stored, site, history>>

BuildRead(p, t) ==
  /\ proc[p].at = "build" /\ t \in proc[p].todo
  /\ \/ Claimed(t) /\ Indexes(p, t, link[t], "build") /\ UNCHANGED spent
     \/ /\ ~Claimed(t)
        /\ proc' = [proc EXCEPT ![p].at = "buildDrop", ![p].todo = @ \ {t}, ![p].other = t]
        /\ UNCHANGED spent
     \/ /\ CountFault("lost")
        /\ proc' = [proc EXCEPT ![p].todo = @ \ {t}, ![p].whole = FALSE]
  /\ UNCHANGED <<stored, site, history>>

BuildDrop(p) == proc[p].at = "buildDrop" /\ WalkDrop(p, "build")

\* The mark is left only by a walk that read every link.
BuildMark(p) ==
  /\ proc[p].at = "build" /\ proc[p].todo = {}
  /\ IF proc[p].whole
     THEN \E r \in Replies : CountFault(r) /\ built' = (built \/ Applied(r))
     ELSE UNCHANGED <<built, spent>>
  /\ proc' = [proc EXCEPT ![p].at = "passMembers", ![p].whole = TRUE]
  /\ UNCHANGED <<link, chatKey, watches, site, history>>

\* Which of the set's tokens a pass takes is a matter of the cursor; how many
\* is not.
PassMembers(p) ==
  /\ proc[p].at = "passMembers"
  /\ \/ /\ \E some \in SUBSET watches :
             /\ \/ Cardinality(some) = Budget
                \/ some = watches /\ Cardinality(some) < Budget
             /\ proc' = [proc EXCEPT ![p].at = "passRead", ![p].todo = some]
        /\ UNCHANGED spent
     \/ CountFault("lost") /\ Ends(p)
  /\ UNCHANGED <<stored, site, history>>

PassRead(p, t) == proc[p].at = "passRead" /\ WalkRead(p, t, "passDrop")
PassDrop(p)    == proc[p].at = "passDrop" /\ WalkDrop(p, "passRead")

PassAllRead(p) ==
  /\ proc[p].at = "passRead" /\ proc[p].todo = {}
  /\ proc' = [proc EXCEPT ![p].at = "passIndex",
                          ![p].todo = {t \in Tokens : proc[p].kept[t] # NoLink}]
  /\ UNCHANGED <<stored, site, history, spent>>

\* A link let go meanwhile, by this pass itself, is neither set nor followed.
PassIndex(p, t) ==
  /\ proc[p].at = "passIndex" /\ t \in proc[p].todo
  /\ IF proc[p].kept[t] = NoLink THEN proc' = [proc EXCEPT ![p].todo = @ \ {t}]
     ELSE Indexes(p, t, proc[p].kept[t], "passIndex")
  /\ UNCHANGED <<stored, site, history, spent>>

PassIndexed(p) ==
  /\ proc[p].at = "passIndex" /\ proc[p].todo = {}
  /\ Goes(p, "tell")
  /\ UNCHANGED <<stored, site, history, spent>>

\* A link is followed: a digest first if one is due, then its positions.
Follow(p, t) ==
  /\ proc[p].at = "tell" /\ proc[p].kept[t] # NoLink
  /\ \E step \in {"digest", "positions"} :
       proc' = [proc EXCEPT ![p].at = step, ![p].token = t,
                            ![p].chat = proc[p].kept[t],
                            ![p].kept[t] = NoLink]
  /\ UNCHANGED <<stored, site, history, spent>>

\* The digest is sent first, then recordDigestSent writes the link.
Digest(p) ==
  /\ proc[p].at = "digest"
  /\ \E r \in Replies : CountFault(r) /\ WriteLink(r, proc[p].token, proc[p].chat)
  /\ Goes(p, "positions")
  /\ UNCHANGED <<chatKey, watches, built, site, history>>

\* Positions that cannot be read end this link's turn.
Positions(p) ==
  /\ proc[p].at = "positions"
  /\ \/ Goes(p, "snapshot")
     \/ proc' = [proc EXCEPT ![p].at = "tell", ![p].token = NoToken, ![p].chat = NoChat]
  /\ UNCHANGED <<stored, site, history, spent>>

\* recordSnapshot.
Snapshot(p) ==
  /\ proc[p].at = "snapshot"
  /\ \E r \in Replies : CountFault(r) /\ WriteLink(r, proc[p].token, proc[p].chat)
  /\ proc' = [proc EXCEPT ![p].at = "tell", ![p].token = NoToken, ![p].chat = NoChat]
  /\ UNCHANGED <<chatKey, watches, built, site, history>>

PassEnds(p) ==
  /\ proc[p].at = "tell" /\ proc[p].kept = Nothing
  /\ Ends(p)
  /\ UNCHANGED <<stored, site, history, spent>>

-----------------------------------------------------------------------------
\* A link nobody claims lapses within half an hour.
Expire(t) ==
  /\ link[t] = NoChat
  /\ link' = [link EXCEPT ![t] = NoLink]
  /\ UNCHANGED <<chatKey, watches, built, site, proc, history, spent>>

\* The server restarts: whatever it was doing is cut off where it was.
Crash ==
  /\ spent.crashes < MaxCrashes
  /\ spent' = [spent EXCEPT !.crashes = @ + 1]
  /\ proc' = [p \in Processes |-> Idle]
  /\ UNCHANGED <<stored, site, history>>

Forget(p) == \/ ForgetRead(p) \/ ForgetKey(p) \/ ForgetDelKey(p) \/ ForgetDel(p)
             \/ ForgetLeave(p)

\* What the server does next for a request that has begun.
Serve(h) ==
  \/ Forget(h) \/ Mint(h)
  \/ ClaimGet(h) \/ ClaimCount(h) \/ ClaimKey(h) \/ ClaimWrite(h)
  \/ ClaimAdd(h) \/ ClaimAgain(h)
  \/ FindLink(h) \/ FindDelKey(h) \/ FindBuilt(h) \/ FindMembers(h)
  \/ (\E t \in Tokens : FindRead(h, t)) \/ FindDrop(h) \/ FindEnds(h) \/ FindKey(h)
  \/ Stop(h) \/ Toggle(h)

Ask(h) ==
  \/ \E b \in Browsers : Connect(h, b) \/ Disconnect(h, b)
  \/ \E c \in Chats : \/ \E t \in Tokens : Present(h, c, t)
                       \/ \E what \in Commands : Command(h, c, what)

Walk(p) ==
  \/ Forget(p)
  \/ IndexGet(p) \/ IndexOther(p) \/ IndexTake(p) \/ IndexSet(p)
  \/ BuildMembers(p) \/ (\E t \in Tokens : BuildRead(p, t)) \/ BuildDrop(p) \/ BuildMark(p)
  \/ PassMembers(p) \/ (\E t \in Tokens : PassRead(p, t)) \/ PassDrop(p) \/ PassAllRead(p)
  \/ (\E t \in Tokens : PassIndex(p, t)) \/ PassIndexed(p)
  \/ (\E t \in Tokens : Follow(p, t)) \/ Digest(p) \/ Positions(p) \/ Snapshot(p)
  \/ PassEnds(p)

Next ==
  \/ \E h \in Handlers : Serve(h) \/ Ask(h)
  \/ \E p \in Passes : Walk(p) \/ PassStart(p)
  \/ \E t \in Tokens : Expire(t)
  \/ Crash

Spec == Init /\ [][Next]_vars

\* A request that has begun goes on, and so does a pass, and another follows.
FairSpec ==
  /\ Spec
  /\ \A h \in Handlers : WF_vars(Serve(h))
  /\ \A p \in Passes : WF_vars(Walk(p) \/ PassStart(p))

-----------------------------------------------------------------------------
(***************************************************************************)
(* Properties.                                                             *)
(***************************************************************************)
\* A link let go, whichever side asked, is not in the set the passes walk until
\* its token is presented again, even where a stale write brought its record
\* back (forgetLink, recordSnapshot, setSmartAlerts).
GoneIsNotWalked == gone \cap watches = {}

\* "One command, and nothing left behind": once /stop has been answered, no link
\* in the set is the chat's until it presents a token again, where each of the
\* chat's requests followed the last and nothing was cut off.
StoppedIsNotWalked ==
  spent.faults = 0 /\ spent.crashes = 0 =>
    \A c \in stopped \ crossed : \A t \in watches : link[t] # c

HasWatchedLink(c) == \E t \in watches : link[t] = c
StillAdding(c) == \E h \in Handlers : proc[h].at = "claimAdd" /\ proc[h].chat = c

\* A chat told it is linked, that nobody asked to unlink, has a link in the set
\* whatever it presents next and whatever passes run meanwhile: swapping one
\* link for another never loses both.
StaysFollowed ==
  spent.faults = 0 /\ spent.crashes = 0 =>
    \A c \in followed : HasWatchedLink(c) \/ StillAdding(c)

\* So it is while each chat's requests follow one another, the tokens of its
\* claims in the order they were minted, and no two chats present the same one.
InOrderStaysFollowed ==
  spent.faults = 0 /\ spent.crashes = 0 =>
    \A c \in followed \ crossed : HasWatchedLink(c) \/ StillAdding(c)

\* "A link already claimed is left alone ... only that chat, or the button that
\* forgets it, ends it": asking for another link never ends a claimed one.
OnlyOwnerEnds == taken = {}

\* Once requests, faults and restarts are over, the passes put everything
\* right and keep it right: every token in the set has a claimed link, its
\* chat's key names it, and so no chat has two.
Settled == /\ built
           /\ \A t \in watches : Claimed(t) /\ chatKey[link[t]] = t
EventuallySettled == <>[]Settled
=============================================================================
