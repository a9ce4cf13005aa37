# LiquidityWise: specifications

LiquidityWise shows what a liquidity position on Uniswap earns and where its
price range stands, and tells readers about it: by a Telegram bot that follows
an address or a pool, and by a Monday digest sent by e-mail. These modules
specify the parts of it that keep state and change it from several places at
once. Paths below are those of the repository, which is mounted at `src/`, so the application's
own code is under `src/src/`.

## The system

One Node process serves the site. Beside it run Redis (or a hosted one over
HTTP), a cron job that calls `/api/telegram/check` every five minutes, and two
small workers at Cloudflare for the backup and for watching that the site is up.
Within the process nothing runs in parallel, but every `await` is a point where
anything else may run: requests of readers, updates from Telegram, and the
scheduled pass, which nothing keeps from overlapping the pass before.

| Component | State it keeps | Operations | What is hard about it | What makes it correct |
|---|---|---|---|---|
| E-mail digest (`lib/email`) | a record per address, the set of confirmed ids | form, confirmation link, unsubscribe link, pass | record and set are two keys and no transaction; the pass writes back what it listed long before; a command may be applied and not heard answered | nothing is mailed that the mailbox did not agree to; gone is gone; one digest a Monday |
| Telegram links (`lib/telegram/links.ts`) | a record per token, a key per chat, the set of claimed tokens, a mark | connect, disconnect, claim, /stop, /smart, /weekly, the pass | four keys and no transaction; the pass repairs and the commands race it | a chat told it is linked is followed; a chat told it is stopped is not; the pass puts right what was cut off |
| Pool watches (`poolWatches.ts`) | a record per chat, the set of watchers | /watch, /unwatch, /stop, the pass | as above, with a write that adds to the set again | what is kept is what the chat was told; once a day; every chat has its turn |
| Store client (`lib/store/redisClient.ts`) | one socket, its queue of commands waiting, a connection being opened | command, reply, timeout, close | replies are matched by order alone; late events of a socket already given up | every caller gets its own reply or none; nobody waits for ever |
| Kept reads (`lib/cache/keptReads.ts`, `getHookChecks.ts`) | entries in order of age, reads under way | read, a page that stops waiting | joins, reads that throw, reads nobody waits for any longer, a full table | one read of a key at a time; everybody is answered; what was heard is kept for its time |
| Limits (`lib/cache/concurrency.ts`) | places taken, a line, the number let in | ask, end | a place handed to one who wakes later, a count given back later still | so many at once, in turn; turned away only when full |
| Measurement caches (`lib/advisor`) | a value per chain, a read under way, a warmer's timer, a measurement and a series in the store | get, refresh, hydrate, persist | refresh against readers, a restart between steps, a series read, appended to and written back | no reader waits; an older value never takes the place of a newer; the series and the value agree |
| Rate limits (`lib/ratelimit`, `proxy.ts`) | windows in memory, counters in the store | check, increment | boundaries, eviction, a count that comes after its window, a store that does not answer | no more than the share in a window, and nobody spends everybody's |
| Explanations (`lib/ai`) | a cache, a ceiling by the hour, gates, a warmer's round | stream, write, warm | every gate must settle whichever way the answer ends; a round that finds an entry about to lapse | no panel waits for ever; what was paid for is not paid again; the front page is not bare for long |
| Uptime (`lib/health`, `deploy/uptime-worker`, `deploy/health-check.sh`) | a memory per site in a store of the worker's; a state file of the script's | the worker's run, the script's | a message taken and its write lost, a message not taken, a machine that is off | every outage is told, and none that was not one; no "it is over" from a site that is silent |
| Backup (`lib/backup`, `deploy/`) | snapshots of the store, a stamp | store and read back, restore | a backup that stops and nobody hears; a restore cut off | nobody runs out of copies untold; what is restored was there |
| RPC pacing (`ethereumRpcTransport.ts`) | a queue of batches | send | failures in the queue | one batch at a time and a pause |
| Range arithmetic, pages, languages, schemas | none | pure functions | numbers of 256 bits | - |

They meet in the store. The pass of the bot reads the links, then the pool
watches, then mails the digests; `/stop` removes a link and the pool watches
both; every operation goes through the one store client. The pages meet in the
process: what they ask of a chain, a service or a model is kept there, read once
for all of them, stood in line for and counted, and warmers read ahead of them by
timers of their own. Outside, a worker and a script watch the site, and a backup
that the script watches in its turn.

## The modules

| Module | Models | Status |
|---|---|---|
| `EmailSubscriptions` | `subscriptions.ts`, `sendDigests.ts`, the form, the two links | done |
| `EmailSubscriptionsProofs` | theorems about it | done |
| `MCEmail` | its instance for TLC | done |
| `TelegramLinks` | `links.ts`, `connectTelegramAction.ts`, the commands on a link in `handleUpdate.ts`, the link half of `checkWatches.ts` | done |
| `TelegramLinksProofs` | theorems about it | done |
| `MCLinks` | its instance for TLC | done |
| `RedisClient` | `redisClient.ts` over `nodeRedisSocket.ts` | done |
| `RedisClientProofs` | theorems about it | done |
| `MCRedis` | its instance for TLC | done |
| `PoolWatches` | `poolWatches.ts`, `/watch`, `/unwatch`, `/stop` in `handleUpdate.ts`, the pool half of `checkWatches.ts`, `rotation` of `links.ts` | done |
| `PoolWatchesProofs` | types and what each step leaves of the process that takes it; theorems about it | done |
| `MCPools` | its instance for TLC | done |
| `Line` | what `limitConcurrency` promises: a line served in turn | done |
| `ConcurrencyLimit` | `concurrency.ts`; implements `Line` | done |
| `MCLimit` | its instance for TLC | done |
| `Tables` | the Map with a ceiling that `keptReads.ts`, `fixedWindowLimiter.ts` and `interpretationCache.ts` keep | done |
| `HookChecks` | `keptReads.ts` as `getHookChecks.ts` uses it, over `Line` and `Tables` | done |
| `KeptProofs` | theorems about `Tables`, `HookChecks` and `Explanations` | done |
| `MCHooks` | its instance for TLC | done |
| `Measurements` | `getSmartLiquidity.ts`, `smartStore.ts`, `warmMostTraded.ts`, `startMostTradedWarmer.ts` | done |
| `MeasurementsProofs` | theorems about it | done |
| `MCMeasure` | its instance for TLC | done |
| `FixedWindow` | the algorithm of `fixedWindowLimiter.ts`, over `Tables` | done |
| `RateLimits` | `proxy.ts`, `rateLimitStore.ts`, `actionBudget.ts` over `FixedWindow` | done |
| `LimitsProofs` | theorems about `FixedWindow`, `RateLimits` and `ConcurrencyLimit`, the refinement among them | done |
| `MCRates` | its instance for TLC | done |
| `Explanations` | `getRangeInterpretation.ts`, `interpretationCache.ts`, `sectionGates.ts`, `warmExplanations.ts`; the ceiling is `FixedWindow`, the cache is `Tables` | done |
| `MCExplain` | its instance for TLC | done |
| `Watch` | `uptime.ts` and its worker, `health-check.sh`, `backup.sh` and its worker | done |
| `WatchProofs` | theorems about it | done |
| `MCWatch` | its instance for TLC | done |

### How state and actions correspond to the code

In the modules of the store's users **one action is one command of the store**, or one
message or mail, together with the synchronous code up to the next `await`. A
request or a pass is a record whose field `at` names the `await` it is at, and
whose other fields are the local variables that are still read later. That is
the grain at which the program really interleaves: it is one thread, and a
client of a store that runs single commands.

A command of the store ends in one of three ways (`Replies`): it is answered and
done; it is lost; or it is done and the answer is not heard before the client's
two seconds are over. The code cannot tell the last two apart, and
`Answered`/`Applied` keep apart what the code sees and what happened. A read
that is not answered is only lost. The actions follow what each caller does
with the answer: most return, `forgetLink` and `recordDigestSent` go on
regardless. A mail, too, may be taken and not be heard to be
(`SendDigestUnheard`).

What a record says is reduced to what the properties tell apart. A subscription
is the choice of network and language (`choice`), whether it is confirmed and
when its last digest went out. A link is the chat it belongs to, `NoChat` while
nobody has claimed it and `NoLink` when there is none; the address, the language
and what the pass saw last go where the record goes. Tokens are numbers in the
order they were minted, which is what `createdAt` orders them by. A chat's
record of pools is which pools it names and when each was last told.

In `RedisClient` **one action is one event of the loop**, a chunk of data, a
close, a timer or a connect that ended, **or one continuation of a promise**.
Continuations run before the next event (`Quiet`), as microtasks do. `socket`,
`opening`, `buffer` and `pending` are the client's own variables; `attempt[a]` is
the function that opens connection `a` and `caller[c]` the call of `command`,
each at its `await`. A connection is on this side `open` or `gone`, with so many
calls of its close listener still to come (`closing`), and carries the commands
the server has been sent and has not answered (`wire`), in order. A reply is the
command it answers. It may arrive in two parts, and bytes that follow those of
another connection make a reply of neither (`Garbled`), an incomplete one, or no
RESP at all, which drops the connection.

In `ConcurrencyLimit`, `HookChecks`, `Measurements` and `Explanations` one action
is what runs in the process between two awaits. `running`, `waiting` and
`admitted` are the variables of `concurrency.ts`; `at[c]` is where a call is:
`woken` when it has been handed a place and has not run yet, `leaving` when its
work is over and the budget's own `finally` has not run. `entries` and `running`
of `HookChecks` are those of `keptReads.ts`, a sequence in the order of the Map,
and `reading[r]` is one read from the line to its `finally`. An entry is kept as
the time it has left, which `HookTick` takes from everything at once, so nothing
bounds how long a behaviour goes on. `HookChecks` stands its reads in `Line`, the
abstract line, and not in `ConcurrencyLimit`: that the code's limit is such a
line is what the run `limit` and a theorem show. `Measurements` has `cache` and
`running` of `getSmartLiquidity.ts`, `hydration` and `warmer` for the two things
a process begins when it starts, `latest` and `series` for what the store keeps,
and a `writer` for each measurement being put down. A measurement is the moment
it was finished. In `Explanations`, `panel[r]` is a page from its question to the
end of its answer with the gate of each section, and `round` the warmer's walk.

`Tables` has the Map with a ceiling that three files keep, a sequence of entries in
the order of the Map, and what they do to it. `FixedWindow`, on a table of windows,
is an algorithm with no state of its own. `RateLimits` keeps one for each
process, and `Explanations` one with a single name for the ceiling. In
`RateLimits` a request is a record from its entry to its last count. The clock
stands still while a command of the store has used up its patience (`Tick`).

`Watch` puts three programs together that share no memory: the worker (`worker`,
`memory`), the script (`check`, `recorded`), and the backup (`stamp`, `copies`).
One action is what each does between two calls to the outside. A tick is one
round of the cron, five minutes in the code; each job has one turn in it (`due`).
The machine's being off stops the script and the backup, not the worker. The
time since the last stamp counts to `Never`, one more than a copy is kept: from
there on nothing depends on it. A run of the worker whose read or write of its
store fails ends there (`WorkerAsks`, `WorkerPuts`). A check the site answers may
have judged the backup or not (`Current`): the stamp is read or not, one bad
reading drops all, and the answer is parsed or not, which leave the script with the
same empty list and so are one choice, `judged`.

Steps that change nothing are left out (a first read that ends the request, a
claim that is refused). Everything else a handler does is there: the drop of a
stale member in the middle of a walk, the key written a second time at the end of
a claim, the key written when a chat was found the old way.

Where the models need to remember what was promised, they keep history
variables that no action reads: in `EmailSubscriptions` the choices a mailbox
has confirmed (`agreed`), what was delivered, the digests of this Monday, and
the ids taken out (`gone`); in `TelegramLinks` which chat presented which token,
the chats told they are linked (`followed`) or stopped (`stopped`), the tokens
let go (`gone`), and the chats whose requests overlapped or whose tokens came
out of order (`crossed`); in `RedisClient` whether a socket ever took the place of
another (`crossed`) and the commands written ahead of a greeting (`early`); in
`PoolWatches` the pools each chat was told it follows (`promised`), when it was
last told of each (`heard`), whether that was too soon (`soon`), and the chats
of which two things were done at once, or half of one (`crossed`); in
`ConcurrencyLimit` who asked before whom (`before`); in `HookChecks` what the
service last said of a hook, for how long that is good (`heard`), and the hooks
written since (`newer`); in `Measurements` that the last round went well and in
time (`warm`), and that two measurements were put down at once or one not to its
end (`untidy`); in `RateLimits` what each counter granted and when a process let
a client in; in `Explanations` the calls of the last hour, when each key was last
written (`written`) and the keys written since (`later`); in `Watch` how often in a row a site was not reached (`missed`),
what the operator was told (`heard`, `heardOf`), and what a loss has set apart
(`astray`, `behind`, `deaf`), and what the last check had to go by (`stale`,
`unjudged`).

## The runs

| Run | Checks | Expected | Shows |
|---|---|---|---|
| `email` (`MCEmail.cfg`) | `TypeOK`, `OnlyAgreedMailed`, `GoneIsNotWalked`, `DuplicatesAccountedFor` | pass | Two requests and a pass about one address over two Mondays, with two commands or mails not answered and a restart: nothing is mailed that the mailbox did not agree to, nothing unsubscribed is walked, and every digest beyond one has its reason. |
| `links` (`MCLinks.cfg`) | `GoneIsNotWalked`, `InOrderStaysFollowed` | pass | Two requests at a time and a pass, two chats, two tokens, five requests: a link let go stays out of the set, and a chat whose requests follow one another never loses the link it was told it has. |
| `links_live` (`MCLinksLive.cfg`) | `TypeOK`, `EventuallySettled` | pass | Two links made before there were keys and one asked for since, with a command not answered and a restart: the passes put the keys, the set and the records right in the end. |
| `redis` (`MCRedis.cfg`) | `TypeOK`, `OwnReplyWhileOne`, `OpeningIsLive`, `EveryCommandEnds` | pass | Three commands and three connections that are greeted twice, lost, refused, timed out and read in pieces: nobody is given the reply of another unless two sockets were open at once, no dead attempt is kept, and everyone is answered. |
| `redis_crossed` (`MCRedisCrossed.cfg`) | `OwnReply` | violation | The close of a socket already given up lets a second connection be opened beside the first, and a command is given the reply of another. |
| `limit` (`MCLimit.cfg`) | `IsALine`, `TurnedAwayWhenFull`, `EveryoneBegins` | pass | Five callers, two places and two to wait, who call again as often as they like: the counters, the hand-over and the late wake-ups amount to a line served in turn, nobody is turned away while there is room, and whoever is let in begins. |
| `hooks` (`MCHooks.cfg`) | `OneReadPerKey`, `KeptAsPromised`, `EveryoneIsAnswered` | pass | Two pages and a warmer ask about three hooks with a table of two and a service that takes one at a time, answers, answers badly, throws or never ends: each hook is asked about once at a time, what was heard is kept for its time, and everybody is answered. |
| `measure` (`MCMeasure.cfg`) | `TypeOK`, `NoReaderWaits`, `SeriesInOrder`, `NeverBack`, `WarmerGoesOn` | pass | A measurement that takes its time, the warmer, pages, a restart or a read or command that fails: no reader waits on a read while the rounds go well, the value kept never goes back, the series agrees with the store, and the warmer goes on. |
| `rates` (`MCRates.cfg`) | `BudgetHolds`, `NothingOfEverybodys`, `BurstBounded` | pass | Three clients, a table of two, four pages or actions, two at a time, with a restart or a command unheard: no window grants more than its share, a client over its share spends nothing of everybody's, and a remembered client has less than twice its limit in a window. |
| `explain` (`MCExplain.cfg`) | `WrittenIsThere`, `WarmedWithin`, `CappedWhenSpent`, `EveryGateSettles` | pass | Two pages and the warmer over three keys, a cache of two and one call an hour: what was written is found for its hour, a page is refused only when the hour is spent, the front page is never bare for longer than the warmer's bound, and no gate stays open. |
| `watch` (`MCWatch.cfg`) | `HeardAsKept`, `OutOfCopiesIsHeard`, `DownOnlyInARow`, `SilenceIsNoCheer`, `OutageIsTold` | pass | Two sites, four turns of what befalls the machine, its sites and the backup, a message, read or write that is lost, and checks that judge no backup: the operator hears of an outage, of none that was not, of the backup before the last copy runs out, and from a site that is silent not that it is over. |
| `pools` (`MCPools.cfg`) | `TypeOK`, `InOrderIsKept`, `InOrderOnceADay`, `StaleLeave`, `TurnComes` | pass | Two chats, two pools, three requests and a pass with room for two pools, with a restart or a command not answered: what is kept of a chat is what it was told, once a day, unless two things were done at once; members that follow nothing leave, and every chat has its turn. |

### Bounds, and why they are enough

* **email**: one address, two choices, two requests at a time, one pass, a clock
  of two Mondays (`MaxClock = 3`), the form sent twice, two commands or mails
  not answered, one restart. Addresses share nothing but the set, in which each is a
  member of its own, so a second one only interleaves. Two choices are what it
  takes to see one replaced by the other; two requests at a time, to see a form
  or an unsubscription overtake a confirmation.
* **links**: two chats, two tokens, two requests at a time, one pass, five
  requests in all. Five is enough for two links to be asked for, two claims and
  a `/stop` or a disconnect. `MaxLinked = 1` makes the ceiling count: a chat that
  swaps its link is let in and a new one is turned away.
* **links_live**: one chat with two links made before there were keys and a third
  token to ask for, one request at a time, two requests, one fault, one restart:
  enough for the browser's read that is not answered and for every repair of the pass, among them the key written back, the older link dropped,
  the stale member dropped and the mark put off.
* **pools**: two chats, two pools, one request at a time and one pass, three
  requests in all, two days, and one restart, command or message that is not
  answered. The budget of a pass is two pools, so a chat with two of them makes
  the other wait for the next pass. Three requests are enough to follow two
  pools and to leave one, or to leave all. Requests of a chat that overlap are
  left out of `InOrderIsKept` by what it says, so one at a time is enough.
* **redis**: three commands, each of which opens at most one connection, so three
  connections; two greetings. A command that times out, one that begins a
  connection while the close of the last is still to come, and one that begins
  another beside it are what it takes to have two sockets at once.
* **limit**: five callers, two places, two to wait: one is turned away while the
  others hold every place there is. Callers call again without bound.
* **hooks**: two pages and a warmer, three hooks, two reads, a table of two, one
  read at the service at a time: pages that join and give up, a read that waits
  in line behind another, and a table that lets its oldest go. Nothing is bounded
  but these numbers.
* **measure**: two measurements being put down, a series of two points, a clock of
  five, which is a whole lifetime of what is kept (`Ttl = 5`, `WarmEvery = 2`),
  and one restart, failed read or command not answered.
* **rates**: one process, three clients, a table of two, four requests of which two
  at once, a clock of two windows of the store, one restart or command unheard.
  Processes share only the store's counters, which the requests of one process
  reach in every order already.
* **explain**: two pages, three keys of which two on the front page, a cache of two,
  one call an hour, two pages asked, one failure of the warmer, a clock of three
  lifetimes. The keys of the front page are fixed here, and follow the list and the
  ticks of its ranges in the code: `WarmedWithin` says nothing of a key that is new,
  which is bare until a round comes to it.
* **watch**: two sites, four turns of the machine, the sites and the store of the
  backup, one loss, and any number of checks that judge no backup; a
  backup every two ticks, late after two and kept for four, so that one missed is
  late and two more leave none. Time is not bounded.
* `redis_crossed` takes the smallest instance that shows the violation.

`Budget` (links a pass reads) is 2, so a pass reads the whole set; which tokens a
pass takes of a larger set is left open by `PassMembers`. Requests, faults and
restarts are bounded in the guards of the actions that spend them. Passes are
not bounded.

`CHECK_DEADLOCK FALSE` is set where the requests of the readers are bounded: once
they are spent and nothing is under way, nothing has to happen.

### Fairness

`TelegramLinks!FairSpec`: a request that has begun goes on
(`WF` of `Serve`), because every `await` in it is answered or times out; a pass
goes on, and when one has ended another follows (`WF` of
`Walk(p) \/ PassStart(p)`), because cron calls it every five minutes whatever
became of the last. Nothing is assumed of readers, of the store's faults, or of
restarts. `EventuallySettled` is what the comment at the head of `links.ts`
promises of a crash between two steps, that "the next pass puts [it] right"; its
premise that faults and restarts come to an end is the bound on them.

`PoolWatches!FairSpec`: the same, requests go on and passes follow one another.
`TurnComes` needs that the turn moves on: nothing is assumed of which chats a
pass takes.

`RedisClient!FairSpec`: continuations run, a connect ends one way or the other
(`nodeRedisConnect` has a timer of its own), and the timer of a command that
waits fires. Nothing is assumed of the server or the network. `EveryCommandEnds`
is the contract at the head of the file: everything that did not work comes back
as `null`, and it comes back.

`ConcurrencyLimit!LimitFairSpec`: whoever was woken runs, work settles, and a budget's
`finally` runs. Work settles because every read it stands for has a limit in
time. `HookChecks!HookFairSpec` asks nothing of the service: a page is answered by
its own timer even if the service never ends a request. For whoever waits for
the answer itself the property has its premise, that requests end
(`ServiceEnds`), in its own statement.

`Measurements!FairSpec`: a read ends, well or not, the warmer goes on after it, and
commands of the store end. `Explanations!FairSpec`: an answer of the model ends,
because the client of the model gives its headers so long and no longer
(`getRangeInterpretation.ts:215`, 317), and the runtime's own `fetch` the silence within its
body.
`Watch!FairSpec`: the worker, the script and the backup have their turns, and
time goes on; no fairness is given to what befalls them.

## What is proved

`EmailSubscriptionsProofs` proves of `EmailSubscriptions`, for any number of
addresses, choices and requests at a time, any finite set of passes, and any
bounds, from `BoundsAssumption`, `PassesAssumption` and `NullAssumption`:

* `TypeCorrect`: `Spec => []TypeOK`.
* `NothingUnagreed`: `Spec => []OnlyAgreedMailed`. That what was delivered was
  agreed to is not inductive: a digest is sent from what a pass listed, which
  was read from a record, which a request wrote from what it had read. The
  invariant `Agreed` follows that chain: every confirmed record in the store
  (`RecordsAgreed`), in the hands of a request about to write it
  (`RequestsAgreed`) and of a pass (`PassesAgreed`) has a choice the mailbox
  agreed to, and a pass lists confirmed records only (`ListedAreConfirmed`).
* `UnsubscribedNotWalked`: `Spec => []GoneIsNotWalked`. The only step that adds
  to the set is the last of a confirmation, so the invariant adds that an
  address which is gone is not being confirmed (`GoneAreNotConfirming`).
* `DigestsAccountedFor`: `Spec => []DuplicatesAccountedFor`. A bound on how often
  something has happened is not inductive without what may still happen. So
  `InCount` adds, on a Monday, to the digests an address was sent the passes that
  may yet send it one (`Senders`): those that hold a record that is due, and,
  while the stored one is due, all but those about to write another over it.
  Sending takes the pass out of them; what puts passes back in (a command not
  answered, a restart, a confirmation that starts the record afresh) adds one to
  `Counts`, that is a whole set of passes to the bound. `RecordedNow` says that
  what a pass records is this Monday's digest, and on other days that the pass
  began on an earlier one. The sum is of cardinalities, hence `PassesAssumption`.
  A mail the provider takes without being heard to take it (`SendDigestUnheard`)
  is one of what `Counts` counts: the pass is out, and every pass after it may be
  in again.

`TelegramLinksProofs` proves of `TelegramLinks`, for any number of chats, browsers,
tokens, requests and passes, from its assumptions:

* `TypeCorrect`: `Spec => []TypeOK`. Types alone are not inductive: `forgetLink`
  goes on where its caller left word, so the invariant says what a process knows
  at each step (`Shape`: which token, which chat, where it goes on).
* `LetGoIsNotWalked`: `Spec => []GoneIsNotWalked`. A stale write may bring the
  record of a link back, but only a claim adds to the set; the invariant adds
  that no claim under way is of a link that is gone (`GoneAreNotAdding`). Every
  other action keeps both because it begins no claim (`Carries`), lets nothing
  go and adds nothing (`Keeps`).
* `LinkedStaysFollowed`: `Spec => []InOrderStaysFollowed`. The invariant `Order`
  says of every chat that is not crossed that it alone presents its tokens
  (`Alone`), one request at a time (`Single`), and that a claim under way is of the
  last of them (`ClaimsLast`); that what is pending no set or walk has met
  (`PendingUntouched`); and that a chat told it is linked has a link that is in the
  set or being added, is let go by nobody, and is later than any other that is the
  chat's or may be written back as the chat's (`Current`, `HasCurrent`). What
  a process may do to all this is said once: it learns only what it read, and lets
  go of a link only when nobody has it or its chat has a later one (`GoesOn`,
  `StoreGoesOn`). Each action is shown to be one of these, but the five that
  begin, write or end a claim, let a pending token lapse, or cut a process off,
  which have lemmas of their own.

`RedisClientProofs` proves of `RedisClient`, for any number of commands and
attempts and for no, one or two greetings, from its `BoundsAssumption` and
`NullAssumption`:

* `TypeCorrect`: `Spec => []TypeOK`.
* `RepliesMatch`: `Spec => []OwnReplyWhileOne`. The invariant (`OneSocket`) says
  that while no socket took the place of another, the only open connection is
  the client's, the queue is exactly what that connection was sent and has not
  answered, the buffer holds its unfinished reply or nothing (`InOrder`), and
  whoever is about to write holds that socket (`HoldersHoldIt`).
* `AttemptIsLive`: `Spec => []OpeningIsLive`. It needs that whoever began the
  attempt `opening` names still waits for it (`OpenerWaits`), so that a failure
  is cleared before the next event, and that who is in the queue is there once
  and waits for that reply alone (`QueueWaits`).

`PoolWatchesProofs` proves of `PoolWatches`, for any number of chats, pools, requests and passes at a time, and any bounds, from its
assumptions:

* `TypeCorrect`: `Spec => []TypeOK`. There is a lemma for every
  action, which says what the process that took it is left with (`WatchGoes`,
  `PassReadGoes`, ...), and that it keeps the shape of its kind (`Shape`: a
  request that is to write knows its chat and its pool, a pass that has pools
  still to see has read them).
* `KeptIfInOrder`: `Spec => []InOrderIsKept`, and `OnceADayIfInOrder`:
  `Spec => []InOrderOnceADay`. Neither is inductive: a record is written long
  after it was read, by a request or by a pass that listed it. The invariant
  `InOrder` says of every chat that is not crossed that one process at most is
  about it (`Alone`); that what a request holds is what the chat was told but
  for the pool it asks about (`Asked`); that what a pass has listed or holds
  names the pools the chat was told, with the times it was told (`Seen`); and
  that with no request under way the record is so too, but while a pass is about
  to write what it has just told (`Quiet`). A step about another chat leaves all
  of it (`OtherRequest`, `PassMoves`); for the chat itself, being alone leaves
  only the process's own part to be shown (`OwnRequest`, `OwnPass`).

`KeptProofs` begins with what the operators of `Tables` do to any table in which no
key has two entries. `PutLastIs`: the new entry is last; whatever else is there was
there before; and an entry of another key is still there, with nothing behind it
but what was behind it and the new one, or the table is full and all of it came
after (`GivesWay`). `FullOfOthers`: a table has no more entries than keys.

It proves of `HookChecks`, for any pages and warmers, any finite sets of hooks and
reads, and any times, from `HooksAssumption`:

* `HooksTypeCorrect`: `HookSpec => []HookTypeOK`.

* `AskedOnceAtATime`: `HookSpec => []OneReadPerKey`. Every read that is under way, or
  whose `finally` has not run, is the one a caller would join
  (`IsTheOneJoined`). It does not matter to it what the table keeps or how the
  line is served.
* `AnswersKept`: `HookSpec => []KeptAsPromised`. The entry of the last answer on a hook
  stands in the table with time enough left, and every entry behind it is of a
  hook written since (`HoldsTheAnswer`). Entries are of different hooks, so when
  the one in front is given up to make room, as many others have been written
  since as the table holds.

And of `Explanations`, for any pages, keys, sections and times and any front page,
from `ExplanationsAssumption`. The invariant `Explained` has four parts, each kept
by the steps that touch what it is about:

* `ExplanationsTypeCorrect`: `Spec => []TypeOK`.
* `WrittenStaysThere`: `Spec => []WrittenIsThere`, from `CacheInv`, which says of the
  cache what is said above of the table of hooks, and that every entry in it is the
  last writing of its key (`FromWritings`).
* `CappedOnlyWhenSpent`: `Spec => CappedWhenSpent`, from `SpentInv`: a window that is
  open has counted no more than the calls that were made since it began, and those
  are all of the last hour (`OpenInLastHour`).
* `WarmedInTime`: `Spec => []WarmedWithin`. `DoneBy` is when the warmer will have seen
  to a pool at the latest, from where it stands in its round; `RoundInv` says that
  what the pool has will do until then. A pool that is passed by or written is good
  for a round from now, and a round is what it takes to come back to it (`WalkIs`); a
  failure makes all of them due no more than a round later (`FailureAllows`).

`MeasurementsProofs` proves of `Measurements`, for any limits in time that satisfy
`RoundAssumption`, and any number of measurements put down at once:

* `TypeCorrect`, and with it that the series keeps its bound (`AppendToIs`,
  `NewestIs`: what `AppendTo` returns, by what it keeps of each point).
* `WarmedIsEnough`: `Spec => []NoReaderWaits`. `RoundsInTime` relates what is kept
  to when the next round is due, and that to the clock: at most the rest of one
  round, the pause and a whole round lie between two measurements, which is less
  than a lifetime.
* `SeriesKept`: `Spec => []SeriesInOrder`. `OneAtATime` says what the one that puts
  a measurement down holds at each of its commands.
* `NeverOlder`: `Spec => NeverBack`, from `Past`: nothing was measured later than
  now, so a measurement finished now is no older than what is kept.

`LimitsProofs` proves of `RateLimits`, for any processes, clients, requests and
windows, from `LimitsAssumption` and `PatienceAssumption`:

* `TypeCorrect`: `Spec => []TypeOK`; `StoreTypeCorrect` is its half that is about the
  store.
* `BudgetKept`: `Spec => []BudgetHolds`. Grants are fewer than counts (`Counted`);
  a count never begins anew in its window, because a counter lives until its
  window and the next are over (`CountersLast`) and a request is at its last
  command no later than two patiences after it came (`InTime`). With a counter
  that lived one window the middle one fails, and TLC shows a share granted
  twice.
* `EverybodysPaidFor`: `Spec => []NothingOfEverybodys`. Each grant of a client's own
  share is a ticket (`Tickets`); what has been counted of everybody's, and what is
  about to be, is no more than the tickets (`PaidFor`), and a client has `PerClient`
  of them at most.
* `BurstKept`: `Spec => []BurstBounded`. `Remembers` relates the table to when pages
  were let through: the last `count` of them came within the window, the first of
  these when it began; those before came before, and all but the last `Limit - 1`
  of them a whole window before it (`Follows`). So of `2 * Limit` in a row the first
  and the last are a window apart (`Spread`). The lemmas on `FixedWindow` say what
  `Check` returns: one window for each key, and what it was, or one more, or begun.
* `OldestGiveWay`: `Spec => []` that of each table the windows are of different
  clients and in the order they began, so that `EvictUntilRoom`, which takes the
  first, takes the oldest.

It proves of `ConcurrencyLimit`, for any finite set of callers, any number of
places and any length of line, from `LimitAssumption`:

* `LimitTypeCorrect`, which here says that neither counter goes below zero.
* `NobodyTurnedAwayForNothing`: `LimitSpec => TurnedAwayWhenFull`. The invariant
  `Counters` says that `running` and `admitted` are the numbers of the callers
  they stand for, and that nobody waits beside a free place.
* `LimitIsALine`: `LimitSpec => IsALine`, the refinement. It needs that the queue
  holds those that wait, each once (`Queue`), and that those that asked before one
  that has a place have places themselves, and those before one that waits have
  places or stand in front of it (`Order`): so when a place is handed to the head of
  the queue, fewer than `AtOnce` that came before it are not over.

`WatchProofs` proves of `Watch`, for any sites and any periods, from
`WatchAssumption`:

* `TypeCorrect`: `Spec => []TypeOK`.
* `ToldAsKept`: `Spec => []HeardAsKept`, and `DownWhenMissed`: `Spec => DownOnlyInARow`.
  The worker holds what it is about to store while it tells and after (`AsHeard`:
  between the two, what was heard is what it holds); and the failures it counts are
  those that were missed running, but of sites whose failures a read or a write
  that was lost has wrong (`InARow`). Such a site is right again (`Catches`) when a
  run stores of it, or finds stored, that it is reached.
* `NoCheerFromSilence`: `Spec => SilenceIsNoCheer`. What a run is about to say is
  over was found to be, or not judged by a site that answered (`OverIfFound`), and
  the backup runs at another time of the tick.
* `ToldBeforeTheLast`: `Spec => []OutOfCopiesIsHeard`. The last copy outlives its
  lateness (`LastIsKept`, from `StaleAfter + 1 < KeepFor`); while the backup is on
  time the script's file does not name it (`OnTime`), and from the end of the first
  run that finds it late it is written down and has been told (`LateIsTold`).

## Refinement

`ConcurrencyLimit!IsALine` is the specification of `Line` with `line` as the
callers between asking and the end of their work and `begun` as those that work:
`Line` knows who came before whom and lets a caller begin when fewer than
`AtOnce` of those that came before it are not over; the code knows a number, a
queue and a promise resolved some turns earlier. TLC checks the refinement as a
property and `LimitIsALine` proves it. It is what licenses `HookChecks` to use
`Line` in the place of the code.

## What the runs found

* `OwnReply` (`redis_crossed`): src/src/lib/store/redisClient.ts:12-16 says "replies are matched to commands by order alone. ... a late reply would be handed to the *next* command — so a command that times out ... drops the connection rather than carrying on". drop itself lets it happen: the close event of a socket given up after a timeout comes later (line 157), when a command may have begun the next attempt, and line 75 clears that attempt's opening while its connect goes on. The next command begins another. Both sockets end up open, both feed one buffer and one queue, and a reply on the one is given to the command waiting on the other.

## Further configurations

Beside the runs above, which are the ones to repeat on a change, these
configurations are kept. Three check the type invariants of modules whose runs
check other things: `MCExplainTypes.cfg`, `MCRatesTypes.cfg`, `MCWatchTypes.cfg`.
Each of the others checks one property that a comment of the code states, and TLC
finds it violated by what the code does:

* `MCEmailLost.cfg` (module `MCEmail`), `ConfirmedIsWalked`: src/src/lib/email/subscriptions.ts:51 calls the set "The set of ids whose addresses are confirmed: what the sender walks and the weekly report counts." The code writes the confirmed record at line 165 and adds the id at line 166; cut off in between, or with the second not answered, the record is confirmed and the id is in no set, and opening the link again answers already-confirmed at line 162 without adding it. The form writes nothing for a confirmed address either, so the reader is told twice it is done and is sent nothing until the record lapses.
* `MCLinksStop.cfg` (module `MCLinks`), `StoppedIsNotWalked`: src/src/lib/telegram/handleUpdate.ts:137 says of /stop "Both kinds of record, whichever the chat had: one command, and nothing left behind." A pass that read the old link before a swap writes the chat's key back to the old token (links.ts:370) and, with the digest or the snapshot, the old record; /stop then finds and forgets the old link, answers stopped, and the new link stays claimed and in the set.
* `MCLinksOwner.cfg` (module `MCLinks`), `OnlyOwnerEnds`: src/src/lib/telegram/connectTelegramAction.ts:37-38 says "A link already claimed is left alone: it belongs to a chat now, and only that chat, or the button that forgets it, ends it." The check at line 63 reads the record and then calls forgetLink, which deletes whatever is there: a chat that claims the token in between is told it is linked, and its link is deleted.
* `MCLinksSwap.cfg` (module `MCLinks`), `StaysFollowed`: src/src/lib/telegram/links.ts:342-344 says that of two links of one chat "the newer one stays: the one the chat claimed last, and the one claiming it today would have left." Line 358 compares when the links were minted, not when they were claimed. A chat with a newer link that presents an older token keeps neither: the pass meets both between the claim's writes and forgets the older token, and the claim then forgets the newer one and answers claimed.
* `MCRedisEarly.cfg` (module `MCRedis`), `HandshakeFirst`: src/src/lib/store/redisClient.ts:161 says "The handshake runs before the connection is handed out". Line 158 assigns the socket before the first greeting is written, and line 144 hands it to whoever asks: a command asked for while AUTH is not answered is written before SELECT, so it runs against database 0 (no command goes ahead of AUTH, which is written at once).
* `MCPoolsBack.cfg` (module `MCPools`), `StoppedIsForgotten`: src/src/lib/telegram/poolWatches.ts:28 promises "deleted from the server the moment `/unwatch` or `/stop` asks". A pass that listed the chat before sends it a message and then writes the record it had listed, and the chat into the set of watchers (lines 114 and 116), after /stop deleted both and answered "stopped": the chat is followed and told again until it stops a second time. In the same way /unwatch of one pool, or /watch of another, is undone.
* `MCWatchCheer.cfg` (module `MCWatch`), `NoCheerOnNoEvidence`: src/deploy/health-check.sh:192-195 says of a site that does not answer that what was reported is carried forward, "otherwise a crash would be followed by a cheerful line saying the disk is no longer full, on no evidence whatever". A check the site does answer may have no evidence either: its stamp is not read (lines 152-155), what came back is not parsed (169-176), or another reading was bad and src/src/lib/health/outsideReadings.ts:51 drops them all, against the comment above it (lines 36-42: a reading that is unexpected "must not cost the operator the readings that did arrive"). Nothing is carried forward then, and the operator is told that a late backup has recovered.

Some disagreements were met while modelling and have no configuration; the
properties above are stated so as to leave them out, and each says how:

* **A digest that was taken and not heard to be.** `sendDigests.ts:22` says that
  the first pass that finds an address due sends and every later one finds it sent.
  A mail the provider took and did not say so in its ten seconds, or with an
  answer that has no id (`provider.ts:75-99`), is recorded by nobody and sent again
  by the next pass. `DuplicatesAccountedFor` counts such mails.
* **A lost read or write of the uptime worker.** `worker.ts:104-111` says that a message
  sent twice is better than one swallowed, which is why it tells before it puts.
  But if the write that follows "reachable again" is lost, `down` stays stored:
  the next outage changes nothing in the memory and is told to nobody. If the
  write that follows "down" is lost and the site comes back before the next run,
  that it is reachable again is told to nobody. And if the write of a
  reset to no failures is lost, one failed check may call a site down, against
  `uptime.ts:30-38`. So may it when the read of the memory fails in a run that
  reached the site (`worker.ts:101`): the run ends there, and the failure before it
  stays stored. `HeardAsKept` and `OutageIsTold` leave sites out whose last
  word or write was lost (`astray`), `DownOnlyInARow` those whose
  failures a lost read or write has wrong (`behind`).
* **A message of the script that is not taken.** `worker.ts:105-106` says the
  server's own check does the same; `health-check.sh:200-218` records what it
  found whether or not the message was taken, so a problem may be told to nobody.
  `OutOfCopiesIsHeard` leaves out what happens from then to the next backup
  (`deaf`), and so it does for a check that could say nothing of the backup: one the
  site did not answer, or one that judged none.
* **The front page between two rounds.** `warmExplanations.ts:10-12` and 22 set a
  round every fifty minutes against a lifetime of sixty, so that a reader of the
  front page finds its explanation kept. A round that finds an entry kept passes
  it by: written at minute zero, it is passed by at fifty, lapses at sixty and is
  written again at a hundred. `WarmedWithin` states the bound that holds.
* **Two pages of one pool.** `getRangeInterpretation.ts:68-71` speaks of one call
  rather than one per visitor. Pages that ask while the first answer is being
  written do not join it and pay for one each. `WrittenIsThere` speaks of what has
  been written.
* **A count that comes late.** `actionBudget.ts:18-21` and
  `connectTelegramAction.ts:33-34` bound the pending links by twice the budget of
  a window. A record is written after its count, and lives its time from there:
  one counted at the end of one window and written in the next is there beside
  those of the two windows that follow. `BudgetHolds` speaks of what each window
  grants.
* **Half a count of a page.** Pages are counted by INCR and PEXPIRE sent as one
  pipeline (`upstashRateLimitStore.ts:75-78`), which is not one step as the script of
  the actions is. Were only the first applied, the counter would have no lifetime
  until it is counted again; its key names its window, so no later window would be
  refused for it. `Incremented` takes the pipeline to be applied whole.
* **A new key in a full table.** `keptReads.ts:53-57` says that letting the oldest
  go never costs an entry that could still have answered. That is so of a key
  written again; a new key in a full table lets the oldest go although it has not
  run out. `KeptAsPromised` allows for it: an entry is promised its time unless as
  many others have been written since as the table has room for.
* **A read that fails before the store has answered.** After a restart, a page whose
  read fails before hydration has ended is told the measurement is not available,
  although the store has a good one (`getSmartLiquidity.ts:98-115`).

## What is only model-checked

Liveness, which is out of the prover's reach: `EventuallySettled`, `StaleLeave`,
`TurnComes`, `EveryCommandEnds`, `EveryoneBegins`, `EveryoneIsAnswered`,
`WarmerGoesOn`, `EveryGateSettles`, `OutageIsTold`. Every other property of the passing
runs is a theorem. Of `WarmedWithin` the run reaches the bound of a warmer that has not
failed, and its clock stops short of the bound of one that has: there the theorem
is what shows it.

## What is not modelled, and why

* What a message says, the languages, the pages and the schemas: pure functions.
* Signatures (`signedToken.ts`): a link in a mail is taken as known only to who
  received it, which is what `mailed` and `delivered` stand for.
* The lifetime of a claimed record and of a chat's key, a year from the last
  write, and of a chat's pools. The half hour and the day of pending records are modelled (`Expire`).
* The bytes of RESP (`resp.ts`) beyond what is said above, and `close` of the
  client, which only tests call.
* `forget` of `keptReads.ts`, which `getHookChecks.ts` does not call, and the other
  tables of kept reads; the two other services a hook check asks, which differ in
  their numbers.
* The lists of the most traded pools (`getMostTraded.ts`), and what a measurement
  finds: whose positions, at what range, with what outcome.
* Which requests are chargeable and how a client is named (`chargeableRequest.ts`,
  `clientKey.ts`); the limiter before the form of the digest, which only lets
  through less.
* Prompts, the schema and the rules of an answer, prices and usage; the retries
  inside one call of the model.
* The readings of the health check other than the backup: each is told and carried
  forward in the same way.
* The export and the restore (`storeBackup.ts`): run once a day, and by hand. A
  restore that is cut off leaves part of a snapshot; nothing else runs then.
* The pause between batches (`ethereumRpcTransport.ts`): timing inside one queue.
* Floating point and 256-bit arithmetic (`v3TickMath.ts`, `feeGrowth.ts`,
  `smartLiquidity.ts`, `recentringReplay.ts`): numbers that go wrong, where they
  do, at sizes a model checker cannot enumerate.

Much the larger part of the repository is of these kinds: dictionaries and copy in
every language, pages and their components, prompts, schemas, scripts that replay
market data. They keep no state between calls, and a state machine of them would
say nothing.

## The plan

Done, in the order of what matters most: the digest and its proofs; the links;
the store client and its proofs; the pool watches and their proofs; the limit as
an implementation of a line served in turn, and kept reads over that line; the
measurement caches; rate limits and budgets; explanations; what tells the
operator.

Left, in order:

1. By how much the sets of chats and of watchers may pass their ceilings.
2. The lists of the most traded pools, in `Measurements`; the export of the backup
   beside commands under way, and a restore into a store that is not empty.
