# A formal model of the Moving backend

Moving is a marketplace for house moves: customers open an estimate request,
movers answer it with estimates, the customer accepts one, pays a deposit, moves
and pays the balance. The backend is an Express application over Postgres
(Prisma, READ COMMITTED), with a Redis response cache, Socket.IO chat, SSE
notifications and the payment provider Toss. This directory holds TLA+ modules
of its core, their TLC configurations and TLAPS proofs. Paths below are relative
to the repository root (`src/modules/...`).

The difficulty of this code is almost entirely in one pattern. A handler reads
rows, checks them in JavaScript, and then opens a transaction that writes *by
id*. Handlers of one process interleave at every `await`, and several processes
may run. Nothing is re-checked at the write, so what protects the data is: the
unique indexes, the few conditional `updateMany` calls, and the hourly batch that
repairs the rest. The models put each read and each write in a step of its own,
and ask what survives.

## Inventory

| Component | State it keeps | Operations that change it | Talks to | Correct means |
|---|---|---|---|---|
| estimate-request | `EstimateRequest.status`, `moveDate`; `CustomerProfile.activeEstimateRequestId` | `create`, `createDesignated`, `closePastEstimateRequests`, MOVE_DAY in `getActive` | estimate (same tables), notification | one open request per customer; link and status agree; a past request ends closed |
| estimate | `Estimate.status`, `price`, `isDesignated` | `createEstimate`; `updateEstimateStatus` to PROPOSED, REJECTED, ACCEPTED | request, notification, mover cache | one accepted estimate exactly on a confirmed request; limits; every offer has a price |
| payment | `Payment` row per estimate and kind | `createOrder`, `confirm` | estimate, request, Toss | a PAID row is backed; no balance before the deposit; charged once |
| scheduler | none of its own | hourly `closePastEstimateRequests`, per server process | estimate-request | repeated, overlapping and failing runs are harmless |
| notification | `Notification` rows; open SSE streams in the server's memory | `create` inside the transactions of the others, `publishCreated` after commit, read marks, opening and closing a stream | every writer | a stream is sent every committed row and no other; the badge ends at the stored count; one MOVE_DAY each |
| chat | messages, read marks; sockets and their rooms in memory | `sendMessage`, `markRead`, `join-room`, `leave-room` | estimate and request status | only the two parties of an accepted estimate; nobody misses a message; receipts are true; read-only once completed |
| auth | `User.refreshToken` (a hash), password; the cookies of browsers; signed tokens held by the client | sign-up with a proved email, login, social login, `refresh`, logout, password change | mail, OAuth providers | an ended session stays ended; a live one is held by somebody; an account belongs to its email |
| rate limit | counters in Redis, or in memory when it is down | `increment`, `decrement`, `resetKey` | Redis | at most the limit per window, failures given back |
| response cache | entries with a TTL | fill on GET, `deleteCacheByPrefix` | Redis; like, review, estimate, mover | a page is current, or stale for a reason that passes |
| like, review | one row per (customer, mover), per estimate | create, delete, bulk delete; `createReview` | cache | never two; both show on the mover page |
| profiles and images | profile row, image in S3 | create and update profile | image storage, cache | a row never names a deleted image; no image is forgotten |
| mover list | none; a cursor held by the client | read-only queries | cache | a full scroll shows everybody once |
| statistics | none | read-only SQL | | |
| ai, http shell | none | | | |

How they interact: estimate and estimate-request share their two tables and run in each
other's transactions; payment, chat and review read `Estimate.status` and
`EstimateRequest.status` and rely on "ACCEPTED exactly when CONFIRMED or
COMPLETED"; every writer creates notifications in its transaction and publishes
them after the commit.

`PROJECT.json` lists every hazard at its line. The hard behaviours are:

* *stale reads*: a check before a transaction, a write by id inside it;
* *counting without a lock*: the limits of 5 open and 3 designated estimates;
* *the batch*: a snapshot of targets, written by id, on several processes, while
  handlers that read earlier are still to write;
* *lost answers*: a payment approval that took effect but whose answer did not
  arrive, retried with the same or with another payment key;
* *read, then push*: unread counts and receipts that overtake each other;
* *fill after invalidation* in the cache, and invalidation while Redis is away;
* *rotation races*: a refresh stores a new token before anybody holds it;
* *state that the client holds*: signed tokens that are not used up, a cookie that
  all tabs share, a cursor into a list that changes;
* *no transaction across two stores*: images in S3 and rows in Postgres, counts in
  Redis and in memory.

## Modules

| Module | What it is |
|---|---|
| `Matching`, `MatchingProperties` | estimate-request, estimate and the scheduler's batch, composed over their shared tables |
| `RequestLifecycle` | the abstract life of a request: opened, awarded at most once, closed, as long as it is not contended |
| `ContestedLifecycle` | what is left of it when handlers and batches overlap at one request |
| `Payment`, `PaymentProperties` | the two payments of one estimate, and Toss as the code relies on it |
| `Settlement` | the abstract order in which money may move |
| `Quote` | the price of an estimate from the mover's proposal to the two payment rows: estimate, batch and payment composed |
| `Notification`, `NotificationProperties` | rows in transactions, pushes after the commit, badge, streams, MOVE_DAY |
| `Chat`, `ChatProperties` | messages, receipts and sockets, composed with `ContestedLifecycle` |
| `AuthSession`, `AuthSessionProperties` | one account, its stored refresh token, the cookie jars, the login limiter |
| `EmailVerification` | the signed tokens by which a sign-up proves its email, and their limiter |
| `SocialLogin` | the state cookie of a social login in several tabs |
| `MoverList` | one page of the mover list as a function: no state |
| `MoverPage`, `MoverPageProperties` | cache, the writers that empty it (profile, review, like, accept), profile images, a scrolling visitor |
| `AiQuota` | the daily quota of AI requests over Redis and memory |
| `MC...` | instances for TLC |
| `...Proofs` | theorems: `MatchingProofs`, `MatchingUncontendedProofs`, `PaymentProofs` (with `Quote`), `NotificationProofs`, `ChatProofs`, `AuthSessionProofs` (with `EmailVerification` and `SocialLogin`), `MoverPageProofs`, `AiQuotaProofs` |

Two conventions. Variables and fields called *history* in a module's header record
what happened, so that a property can except a case the code cannot avoid or count how
often it was met; no guard reads them, but for those of the bounds. Operators called *plausible bugs* are used by nothing: each is
a mutated form of the definition that follows it, and shows that a property can fail.

### Matching

`request`, `past`, `active`, `estimate`, `isDesignated`, `priced` are columns: the
request's status, whether its `moveDate` lies before now, the profile's
`activeEstimateRequestId`, the estimate's status, flag and whether its price is
not null. An estimate is identified by its request and mover, which is the
table's unique index. `handler` says what a handler in flight is about to write;
`batch` holds the targets a running batch has read.

| Code | Actions |
|---|---|
| `estimateRequestRepository.createEstimateRequest` | `CreateEstimateRequest`, guarded by the partial unique index `OtherOpen` |
| `createDesignated` | `ReadForDesignate`, `CountDesignated`, `InsertDesignated` |
| `createEstimate`, `createGeneral` | `ReadForGeneral`, `CountGeneral`, `InsertGeneral` |
| `updateEstimateStatus` | `ReadForTransition`, then `Propose`, `Reject` or `ConfirmAndCloseOthers` |
| `closePastEstimateRequests` | `ReadTargets`, `CloseTargets` |
| a rolled-back transaction, a crash | `Abort`, `AbortBatch` (`runSafely`) |
| the clock | `MoveDayPasses` |

A transaction's writes form one step: Postgres makes them visible at commit, and
the statements that follow a write block on the rows it locked. Where a
transaction reads or counts first, that read is a step of its own. An error answer
that writes nothing is the absence of a step, except where it ends a handler
already in flight. The notifications created in these transactions are
in `Notification`.

Handlers and batches overlap freely, in every run. The history variable `contended` records the
requests that two of them, handlers or batches, have ever had in hand at once (`TakenUp`, `InHand`). The properties of
`MatchingProperties` come in three parts accordingly: what holds of a request that is not
contended, whatever races beside it (the sequential promises: one winner, exact limits, the transition
rules); what holds of every request; and what the comments say of every request and is refuted. The
first part separates what the logic of the code gets wrong by itself (of these properties,
`ShownArePriced` alone) from what only two handlers at one request can break. No guard
keeps them apart: on a contended request two winners, an overwritten
rejection or a late offer are reached, and the first part says nothing of them.

There are two abstract specifications. `RequestLifecycle` is what the code's comments
promise: one winner, awarded while the request is pending; it lets a request become contended at any time, and then keeps
one promise, that its customer has no other open request. `ContestedLifecycle` is what holds
of every request: several acceptances, one withdrawn by a mover's late answer, a closed
request confirmed once more; but a request opens once and is never pending again, a customer
has one open request at a time, nothing is accepted before its request is confirmed, and what was never
confirmed is never completed. `Chat` stands on the second.

### Payment

One estimate with its price. `accepted` and `completed` are what payment reads of the estimate and its
request. They change as `ContestedLifecycle` lets them, in both directions: `AcceptEstimate`,
`WithdrawEstimate` (an answer of the mover that was under way is written over ACCEPTED,
`estimateService.ts:275` and `:302`), `CompleteMove`, `ReopenRequest` (a late accept sets the request to CONFIRMED
again). `rows` holds the payment row of each kind,
`orders[o]` the kind the order id `o` was generated for, `toss` what Toss knows of
each payment key, `handler` the next step of each handler. `createOrder` is
`OrderRequest` (the estimate) and `CheckOrder` (the payments), then `CreateOrGet` or `ResetForRetry`; `confirm` is
`ConfirmRequest` (row, estimate and request), `CheckRows` (the payments), one of `TossDecides`, `TossRefuses`,
`TossAlreadyProcessed`, perhaps `LookUp`, then `MarkPaid`, `MarkFailed` or
`SavePaymentKey`; `GiveUp` stands for every way to end without writing (timeout,
5xx, crash). `canPay` looks at what two reads brought: `Payable` is its part about the first,
`RowsAllow` its part about the second. The conditional `updateMany` calls keep their conditions and the
unconditional ones have none.

`Settlement` says accordingly what remains true: a payment is *granted* when a confirmation finds it due, and only
a granted one is charged, the balance on top of a charged deposit. It does not say that
it is still due: `paymentService.ts` answers that only a confirmed estimate's deposit can be
paid, but an estimate taken back between the first read of `confirm` and its call of Toss is
charged all the same: nine steps refute the stronger formula.

Toss is external and modelled only as the code and its comments rely on it: a payment
key is decided at most once, an order id is taken by at most one key (it is sent
as the idempotency key), an answer may be lost after it took effect, a waiting payment
may settle later without telling the server. `Verdicts` without `"WAITING"`
is the card-only deployment the comments presuppose.

### Quote

`Matching` knows only whether an estimate has a price, `Payment` has one price for
good. `Quote` puts the handlers of both around one estimate: `price`, `offer`,
`request`, `dayIsOver` are its columns and those of its request, `invoice` the row
of each share with its status and amount, `caller` what a handler or a batch has
read and will write.

| Code | Actions |
|---|---|
| `updateEstimateStatus` | `ReadForProposal`, `ReadForRejection`, `ReadForAcceptance`, `ReadForAnother` (another estimate of the request); then `WritePrice`, `WriteRejection`, `WriteAcceptance`, `WriteAnother`, all by id |
| `closePastEstimateRequests` | `ReadTargets`, `CloseTargets` |
| `createOrder` | `ReadForOrder` (the estimate, hence the amount), `ReadPayments`, then `CreateInvoice` or `ReopenInvoice` |
| `confirm` | `ReadForConfirm`, `CheckPayments`, `TossAnswers` |
| an error, a crash | `Stop` |

Order ids, keys and the kinds of answers of Toss are `Payment`'s and left out here.
`repriced` records that a price was written when a deposit had already been asked
for. The proviso is needed: a proposal that read DESIGNATED, was overtaken by another
one (say, from a second tab), by its acceptance and by `createOrder`, still writes its price,
and deposit and balance then come from different prices and add up to neither.
`src/docs/paymentSwagger.ts:63` says that they do; without the proviso TLC finds the
schedule in 17 steps with two handlers.

### Notification

`row` is the table, in the order of the ids; a row is *written* inside an open
transaction and *committed* after it. `job` is what each handler does: `Notify` is
the transaction of another service that writes rows for the parties, `NotifyMoveDay` is `getActive`
with `CheckMoveDay` and `InsertMoveDay` for one recipient after the other, then
`Commit` or `Rollback`, `PublishCreated` and, for each user, `CountUnread` and
`PushUnreadCount`. `stream` is a place for an `EventSource`: `Open`, `FirstCount`,
`FirstSend`, `Close`. `ReadNotification` and `ReadAllNotifications` update and then push.
`Crash` empties the map of streams, rolls open transactions back and forgets pushes.

### Chat

The statuses of requests and the `accepted` estimates move as `ContestedLifecycle` says, which
`Matching` implements whatever overlaps (`ContestedImplemented`): a request may have two rooms, an
accepted estimate may be withdrawn, and a batch may expire a request whose chat has begun. `awarded`
records every estimate that was ever accepted. A handler reads its access (`StartSend`, `StartMarkRead`,
`AskToJoin`) and acts on it in later steps (`InsertMessage`, `BroadcastMessage`,
`ImageFails`; `MarkRead`, `BroadcastReceipt`; `Join`). A message's number is its
`createdAt`. `Leave` takes effect at once, and so may come before the join it answers. A socket that
joins is taken to know what was stored until then: the client fetches the messages when it has joined,
and that fetch is not modelled. `untold` records the messages whose image could not be signed for
the broadcast, `late[r][h]` how many messages handler `h` stored since `r` stopped being writable.

### AuthSession

One account. A refresh token is a JWT of the user and the second it was signed in,
so a token *is* that second and two of the same second are equal. `stored` is the
token of the row, `cookie` the jar of each browser, which its tabs share.
Sign-up, social login, login, refresh, logout and change of password each read,
write and answer in steps of their own; `Answer` sets the jar, `AnswerIsLost` does
not. Sign-up and social login look for the email and create the user later
(`FindForSignUp`, `FindForSocialLogin`, `Create`). The login limiter counts before
(`StartLogin`), takes off a success afterwards (`ForgetSuccess`), and a success also resets
the count (`ResetLoginRateLimit`), in this order.

### EmailVerification

`issued` is the set of tokens handed out: the server keeps none of them and they can be used
again until they expire. `SendEmailVerification` and `ConfirmEmailVerification` go
through the window of their limiter (`Admitted`), `CheckSignUp` is `signUp` up to the hash
of the password, `CreateUser` what follows. An identity is an email with a role, since the code always
compares the two together; codes and tokens of different mails do not collide.
`TimeAssumption` has `CodeLife <= Window`, as 5 minutes are to 10.

### SocialLogin

`jar` is the state cookie: which start it belongs to. `StartSocial` overwrites it,
`Accept` and `Refuse` are the check in `socialLoginCallback`, `Exchange` what passport and
`socialLogin` do, `AnswerCallback` the answer, whose `clearCookie` also clears the
cookie of another start. `StateExpires` is its ten minutes. States are random and differ.

### MoverList and MoverPage

`PageAt` is the query with `LIST_ORDER_BY` and `buildCursorClause` and the cut of
`paginateByCursor`. In `MoverPage` a reader takes three steps (`Ask`, `Query`,
`Respond`: `cacheResponse` around `findMany`), a writer commits (`SaveProfile`, `Write`,
`DeleteMany`) and then deletes the cached pages (`Invalidate`); nothing orders the
two, and Redis may be down at any step. A profile writer uploads first (`Upload`), and ends with `Cleanup` of
the old image or `Rollback` of the new one; `SaveFails` is an error of the
database, after which the row may have been written all the same. The visitor
(`StartScroll`, `ScrollOn`, `ScrollOnCached`) follows `nextCursor`; `jumped` records that a page was asked
for after a mover that had moved by then. `UploadFails` is S3 refusing an image, or storing
it and losing the answer. `WriteUnannounced` changes what a page shows and deletes none:
the database did not answer, or a mover's proposal or rejection (`StartAnswer`) is written over an ACCEPTED estimate, which
lowers the number of confirmed estimates in a branch that has no `deleteCacheByPrefix`. All keys of
`/mover` are deleted together, so the pages of one list stand for every query string.

### AiQuota

`count` in each of the two stores of `RedisOrMemoryStore`; `Count` picks Redis, or memory when it
does not answer (it may have counted all the same), `Serve` and `Fail` are the two ends of
a request, `GiveBack` is `decrement` in whichever store answers then, whose script does not
touch a key that does not exist; `Restart` empties the memory and drops what is in flight. One day: the keys of
the next are others; one server, since every process has a memory of its own. `used`
are the requests answered, by the store that had counted them, and `earlier` those
counted in the memory of servers since restarted: they remain answered. `faults` counts what the surroundings
did to a store (its answer was lost, it was not the one there when a count was given back,
the server ended under a request), never what became of the counts, so that the properties can be
wrong about the code.

## Runs

| Run | Bounds | Shows |
|---|---|---|
| `matching_uncontended` | 2 customers, 3 requests of which 2 are opened (`TwoRequests`: in succession or side by side), 2 movers, 2 handlers, 1 server, limits 1 and 1; at most one of the requests contended, and then at most two estimates | refinement of `RequestLifecycle`; of a request that is not contended, the agreement of request, estimates and link, exact limits, the transition rules |
| `matching_races` | 1 customer, 2 requests, 1 mover, 2 handlers, 2 servers | `LinkPointsToOpen` and `HistoryIsFinal` survive every race; refinement of `ContestedLifecycle` |
| `matching_limits` | 1 request, 3 movers, 2 handlers, 1 server, fairness | the limits and the one winner are overshot by less than the handlers in flight, offers are priced, past requests end closed for good |
| `matching_transition_rules` | 1 request, 2 movers, 2 handlers | refuted: the status checked is not the status overwritten |
| `matching_shown_priced` | the same, 1 handler | refuted: an EXPIRED estimate without a price is shown |
| `payment` | 2 handlers, 2 payment keys, 3 order ids, price 10, all verdicts, an estimate and a request that change back and forth; `Quote`: 3 handlers, prices 5 and 14 | refinement of `Settlement`; PAID rows are backed, kept and apart; the amounts add up to the accepted price, a price below ten is never paid |
| `payment_charged_once` | 1 handler, 3 keys, 2 order ids, cards only | refuted: two approvals of one deposit |
| `payment_pending_key` | 2 handlers, 2 keys, 2 order ids, cards only | refuted: a row waits on a key of another order |
| `notification` | 2 users, 2 handlers, 1 stream place, 3 rows, crashes | no stream is sent a ghost or misses a row; a wrong badge and a second MOVE_DAY need an overlap |
| `chat` | 1 request, 2 movers (two rooms), 2 handlers, 1 socket place that shows one room at a time, 2 messages (the second without images, receipts or a socket; images and receipts not together), crashes | private and complete rooms, true receipts, at most one late message of each handler |
| `auth` | 2 browsers, 2 handlers, 2 passwords, 1 profile, limit 1, 2 seconds without wrong passwords or 1 second with them; email: 2 identities, 1 code, limit 1, 3 moments, 1 restart; social: 2 tabs, 2 choices, 3 starts | sessions are held and stay ended, failures and guesses are limited, the first sign-up wins, a sign-up is proved, a social login keeps its choice and is refused only when crossed |
| `mover_page` | 3 movers, 1 of them new, pages of 1, 2 handlers, one of six budgets of writes, images and readers; quota: 2 requests, limit 2, 2 faults, 1 restart | the cache is current but for stated races, a scroll shows those who did not move, images exist and are accounted for; a failed request is free and the quota holds, but for one count a fault |

Why the bounds suffice. Requests of different customers share no row but through
movers, and no guard relates them, so one customer with two requests shows all
competition for the one open place; where requests are worked on in parallel, a neighbour's
stands beside them; with one of them contended, the other shows that nothing spills over. One message can be
stored before, between or after the two halves of a
receipt and of a join, which is all a second could do; the second mover gives it a second room to leak into. A
second message matters where messages are counted (`LateMessagesBounded`), and there it comes alone. Two handlers and two servers give every
pairwise race; a limit of 1 makes the third mover meet the limit and two handlers
overshoot it. Three movers give a winner, a loser and a bystander. Two payment
keys serve the two payments, or compete for one; where a
key is spent in vain (`payment_charged_once`) there are three. The three
order ids allow both kinds and one reopening. Amounts are those of the two kinds, so that a mismatch is possible.
In `Quote` three handlers let a proposal and an acceptance overlap an order; 14 is
a price whose shares round, 5 one whose deposit is nothing. Three rows fill the table
with both parties of one event and one more; a stream place and a socket place are used
by one tab after the other. Two seconds make tokens equal or different; two
tabs and three starts let a start be overwritten, answered and started again. Pages of one mover
make a scroll of three pages with a tie in the counts.

Parts that share no state move alone: `MCAuthSession`, `MCPaymentQuote` and
`MCMoverPage` hold several, and a variable that never changes says which one
moves, so each is checked as if it were the only one. Likewise a budget of
`MCMoverPage` chooses what a behaviour may do at most: every kind of writer against readers, and
uploads against each other, an acceptance and the late answer over it, without the product of all. In `MCAuthSession` a session
moves either without wrong passwords or within one second: a failed login touches no token.

Symmetry is declared for sets whose members no definition tells apart and only
where the properties are invariants or safety. `matching_limits`, which checks a
liveness property, declares none.

`CHECK_DEADLOCK FALSE`: every instance has finitely many requests, keys, order
ids, rows, messages or moments, so a state in which everything is used up is legitimate.

### Fairness

`FairSpec` assumes that a handler in flight ends, by its write or by an error (the
event loop and Postgres answer or time out); that the cron entry fires again
(`node-cron`, `startScheduler`), hence weak fairness of `ReadTargets`; and that a
batch does not fail every hour for ever, hence strong fairness of `CloseTargets`,
which a failing `AbortBatch` keeps disabling. Nothing is assumed of
customers, movers or the clock. `ClosedForGood` starts from `r \in past`. It is the one
liveness property: nowhere else does the code come back by itself. A lost push, a stale page
or an abandoned login is put right by the next user or by a TTL, which nothing here forces.

### What the refuted runs show

Each states what a comment of the code says; `PROJECT.json`, `findings`, has the lines.

* *TransitionRules.* Two accepts that both read PROPOSED leave two ACCEPTED
  estimates; a late propose overwrites a rejection or an expiry. A condition on the status in
  the `update` would prevent it. That it takes a contended request is `RulesUnlessContended`. The batch does the same to a request: it reads PENDING, an accept that is
  under way commits, and the request is expired with an ACCEPTED estimate, although
  `src/modules/chat/chatService.ts:23` counts on CONFIRMED or COMPLETED from then on: the chat, which asks for both
  statuses, is closed to both sides. `ContestedLifecycle` allows this, and TLC finds it in 10 steps.
* *ShownArePriced.* No race is needed: a designation nobody answered expires
  without a price, and the filter hides DESIGNATED and REJECTED only.
* *ChargedOnce.* Needs a lost answer: key 1 is approved, its answer lost; key 2 of the same
  order is refused with a 4xx; the row becomes FAILED and is opened again with a
  new order id, which the idempotency key no longer protects.
* *PendingKeyIsCurrent.* A `createOrder` that read FAILED resets a row that a late
  confirm has meanwhile made PAID. The stale key makes it look pending for ever.

## Proofs

Assumptions on the constants are named in the modules that declare them: owners
are customers, limits are positive, movers and handlers are finite sets; keys are
not the null key, prices are natural numbers; a code does not outlive a window.
No bound of a run is assumed. All theorems are proved for every value of the constants;
`PROJECT.json`, `theorems`, lists them with the property each states.

`MatchingProofs`
* `TypeCorrect`: `TypeOK` is inductive, here and in the other components; no run spends a check on it.
* `LinkSafe`: inductive with `TypeOK`. The argument: only the batch closes, and
  in the same step it unlinks every target; `ConfirmAndCloseOthers` only opens.
* `OffersPriced`: needs `AcceptingPriced`, that an accept in flight concerns a priced
  estimate. It holds since the price is never taken back, although the *status*
  the accept read may be long gone.
* `Overshoot`, about estimates (`FewOffers`): that bound is not inductive, since a handler past its count
  will insert whatever the count has become. `Bounded` adds to the estimates the
  handlers about to insert; a count below the limit admits one more handler, an
  insert moves one from the second summand to the first. `RowsExist` is needed so
  that no transition creates a row. Cardinalities are handled by lemmas from `FiniteSetTheorems`.
* `Overshoot`, about winners (`FewWinners`): nor is `WinnersBounded`, since an accept in flight will add a
  winner whatever has become of the request. `Places` counts the accepted estimates and the accepts
  under way together; a new accept is let in only while the request is PENDING, when by
  `Awarded` nothing is accepted yet, and each accept that commits gives up its place.
* `HistoryFinal`, an action property: once a closed request is in nobody's hand, every guard
  (`Answerable`, `Targets`, `OtherOpen`) keeps later steps away from it. It uses what each write
  touches: `WritesAtItsRequest` and `BatchWritesAtTargets`, which say that a write by id
  stays at the request its handler or batch has in hand. That nobody starts on it follows from
  the guards, that no link to it is left from `LinkSafe`.
* `ContestedImplemented`: the refinement of `ContestedLifecycle`, step by step. It needs
  `InHandExist`: what a handler or batch has in hand was created, and what a batch will complete
  was confirmed once, both of which no later step undoes.

`PaymentProofs` rests on one inductive invariant, `MoneyInv`: `HandlerInv` (what a
handler carries is Toss's verdict on its order, and a deposit
found paid remains charged while Toss is asked for the balance), `RowInv` (the order id and key of a row belong to its
kind, and are approved if PAID), `TossInv` (what Toss has taken of a balance
stands on a deposit). `Grows` collects what no step undoes, from which each step's
preservation follows. From it:
* `PaidBacked`, `KeysStayApart`: consequences of `RowInv` and `HandlerInv`;
* `SettlementImplemented`: initial states map, and a step maps to a `Grant`, `Charge`, `Wait`,
  `EndWithoutCharge`, `Settle`, a change of the estimate or a stutter; what is granted are the kinds
  some handler is at `check` or `toss` with, so that the estimate may change under them;
* `RecordKept`: an action property, from `TypeOK` alone: MarkFailed, MarkPaid and
  SavePaymentKey are conditional, and ResetForRetry keeps the key.

* `SharesAddUpToPrice`, `SmallPricesAreNeverPaid` (about `Quote`): `QuoteInv` says that,
  unless repriced, what a handler carries and what a row holds is the share of the
  present price (`SharesArePresent`), that a deposit asked for means the present price is the
  accepted one (`DepositIsAccepted`), and that a balance stands on a deposit (`DepositFirst`).
  The last is why a deposit of nothing stops everything.

`MatchingUncontendedProofs` proves what `matching_uncontended` checks, with no assumption on who overlaps:
`OneWinner`, `ProposalsEnd`, `LinksAgree`, `LimitsKept`, `RulesFollowed`
and `Implements`, the refinement.
The invariant `SerialInv` is `TypeOK` with `Serial`: `Alone` (a request that two have in hand
is contended), `ReadsHold` (what a handler or batch has read of an uncontended request is still true, since
the others write by id at other requests), and with `CountsHold` (so is what it counted) and `Settled` (the status of an
uncontended request determines those of its estimates and its link). The last is the property one wants; the others
make it inductive. The profile link needs care: a contended request of the same customer shares it, and the
partial unique index keeps the two from being open together.
`RulesFollowed` is an action property: by `ReadsHold` the status a transition has checked is the one
it overwrites, and an acceptance touches other estimates only to pass them over.

`NotificationProofs`: a handler's `new` rows are its own while its transaction is
open, so no other handler publishes or rolls them back (`NoGhosts`); a stream knows what was
committed before its first count, was pushed, or is still to be pushed by a handler at
`publish` (`FeedIsComplete`); a handler that ran alone since its check or count
still knows the table (`MoveDayIsOnce`, `BadgeIsExact`).

`ChatProofs`: access, once granted, makes its user `Entitled`, a party of an estimate that was accepted at
some time, and that is `Recorded` for good, whatever withdraws the estimate or closes the request
(`PrivateRooms`); what a socket has not been told is older than its join or in
the hands of a sender, or untold (`FeedIsComplete`); `TrueReceipts`; `FewLateMessages`: a handler that has stored a late message
is past its insert, and no handler begins another while the room is not writable (`LateCounts`).

`AuthSessionProofs`. `EndedForGood`: once a session is over, no refresh in flight is past its check
(`Errands` says what each request in flight may still store), so only credentials store a token. `SessionHeld`:
that a jar holds the stored token is not inductive, since an answer under way may overwrite the jar. `Keeps` adds that
every request which is alone at its browser is `Gentle`: it will hand out the same token again, or is a
logout that ends the session. A request that is not alone and overwrites the jar counts as
a disturbance (`Overtaken`), and `AloneOnes` says that no two requests of one browser are marked alone.
`HeldByArrival` turns an answer that carries the token into a jar that keeps it. `FirstWins`:
`Create` writes only where there is nobody. `LimitedFailures`: `AttemptsAreCounted`, the failed logins and those in flight
against the counter and the handlers that have been forgiven; cardinalities from `FiniteSetTheorems`.
`SignUpsAreProved`: behind each verified token stands a typed code of the same moment, behind
each sign-up in flight and each account one that was fresh then. `FewGuesses`:
while a code lives, its answers are those counted in the window that was open when it was mailed,
or one window more than the restarts; a window that opened after the mail outlives the code.
`ChoicesAreKept`, `OnlyCrossingRefuses`: a tab at the provider is the one the cookie belongs to, or has been crossed.

`AiQuotaProofs`: three facts of each store are inductive together. `Free`, that it has not counted too much, is `FailuresAreFree`. The
quota needs the converse, `Owed`: a store has not counted too little, but for its faults
and what earlier lives of the server were granted; then a count within the limit
bounds what is answered (`Within`).

`MoverPageProofs`. `CurrentCache`: a page is stale only while a writer that committed is
on its way to `Invalidate`, or it is excused. `ExistingImages`, `NoForgottenImage`: `ImageInv` gives
every image one owner (a row, a handler or nobody), keys of uploads are new, and what a
handler may delete is no longer named by the row. `ExactScroll`: from lemmas on `PageAt`
(`PageHasNoGap`: a page and its cursor leave out nobody in between, for any
order of counts), `ScrollInv` says that of the movers that did not move those not yet seen stand after the cursor, and those seen
before it unless the cursor had itself moved (`StandsAt`, `jumped`).

Only model-checked: `ClosedForGood`, which is liveness under fairness, and of the refuted properties the counterexamples. Liveness stays with TLC, as would anything that uses ENABLED, induction over data
or RECURSIVE operators, which are out of the prover's reach. Every other property of a passing
run is stated by a theorem.

## Plan

Done: the core (`Matching`, `Payment`, their abstract specifications), every component with state of its
own, the price from estimate to payment, both refinements of a request's life, the chat over the contested one, and
a theorem for every safety property and action property of the passing runs.

Left, in this order:

1. Expiry of a session after seven days, which refresh, jar and row see at different times.
2. The other sort keys of the mover list; `PaidAddsUp` without its proviso as a refuted run.

## Not modelled

* *Reads that change nothing*: lists, details, histories and counts of every module (`getRooms`,
  `getMessages`, the payment list, filters by keyword, region and service), statistics, and the
  other sort keys of the mover list, which differ in a column.
* *What is kept nowhere*: the typing event of the chat, signed upload addresses, the
  language-model calls.
* *Plain writes of one row by its owner*: name and phone in `updateMe`. A customer's
  profile goes through the same steps as a mover's, without the cache.
* *Time of a session*: its seven days, and the fifteen minutes of an access token, which nothing stores.
* *Other rate limits* by address, which are counters of express-rate-limit with its own memory.
* *Process set-up*, routing, request validation, error formatting, API documentation, seed data and formatting.
  These are most of the repository's lines (`prisma/seed.ts` and `src/docs/` alone are more than a
  third) and hold no state that the properties could be about, which is why the mapped share of lines stays low:
  the map names what is translated, and nothing else.

User and ownership checks precede every modelled guard and are left out: each
modelled caller is the owner. Cascading deletes of users are left out, since no
operation deletes a user. One server process is assumed where the code keeps state
in its memory (streams, sockets, the limiters); `Matching` alone has several.
Mail is configured: without it `sendEmailVerification` always fails.
