# Verification of the Amisache backend

TLA+ models of the parts of the Amisache backend (NestJS, TypeORM over MySQL,
Redis, BullMQ, Socket.io) where requests overlap: the chat and its assistant,
the requests, their terms and their payments, the churches and who follows
them, sessions and tokens, one-time codes, notifications, the mail queue.  Paths are
relative to the root of the repository; the modules say in their comments
which code each definition stands for, and `PROJECT.json` maps every
definition to its lines.

## 1. The system

One Node process serves HTTP requests, sockets, cron jobs and a BullMQ worker.
JavaScript runs without preemption, so a handler is interrupted exactly at its
`await`s; between two of them anything else may run, and nearly every service
method is "read with one statement, decide, write with another".  Transactions
are rare: only `sendMessage`, `sendMessageWithFiles` and `handoff` open one.
What remains is protected by unique indexes, foreign keys (CASCADE, RESTRICT,
SET NULL) and InnoDB's row locks, or by nothing.

| Component | State | Operations | What makes it correct |
|---|---|---|---|
| Conversations (`src/chat/services`) | `chat_conversations` (mode, list cache, escalation), `chat_messages`, `chat_participants` | send, send with files, reply of the assistant, handoff, release, add a participant, open, mark read, delete a message | the list shows the newest message; the assistant answers the requester only, once, and is silent when a human has taken over; an agent has one seat; whatever is accepted ends |
| Gateway (`src/chat/gateways`) | in memory: rooms, presence, `socket.data`, `authenticating` | connect, authenticate, join, leave, typing, disconnect | rooms, lists and presence agree; everyone is told who is online; only participants listen; no ghost |
| Assistant (`src/assistant`) | locals of a run; escalation columns; notifications | reply: rounds of model calls and tools, retry, fallback; escalate; alert | a run ends; silence means transmitted; nothing is said after a re-escalation; the right people are told |
| Requests, donations, payments (`src/liturgy`, `src/payment`) | `requests`, `donations`, `payments`, `payment_methods`, `tariffs` | create, submit, confirmOrReject, updateStatus, deletions | only the active clergy of the church of the method decides; a payment goes to the church of its form, is decided once, is never orphaned |
| Churches and memberships (`src/church`) | `churches`, `memberships`, `users.home_church_id`, `clergy_members` | create, update, delete, photos, follow, unfollow, home church, affectations | the hierarchy is ranked; slugs are unique; the home church is followed |
| Sessions (`src/auth`, `src/users`) | `user_sessions`, `users.status`, `users.roles`, the claims of tokens, the blacklist in Redis | register, three logins, confirm, refresh, logout, revoke, block, delete, change roles, nightly clean-up | what a token reaches follows the account once it expires; a token logged out reaches nothing; a closed session is not revived |
| Codes and attempts (`src/auth`) | in Redis: code, counter, lock, each with a time to live | send, verify, check a PIN, count, lock | a code cannot be guessed by overlapping calls; a counter does not live for ever |
| Guards (`src/core`) | none; metadata of the routes | API key, client, token, status, role | every route applies the five in their order |
| Notifications (`src/notifications`) | `notifications`, `notification_states` | notify, list, count, read, dismiss, purge | the count agrees with the list; nobody loses what they could still read |
| Mail (`src/mail`) | BullMQ queue, `mail_failed_jobs` | enqueue, attempt, record a failure, retry, abandon | no mail is lost; none that was sent stays recorded as failed |
| Schedules and terms (`src/liturgy`) | `schedules`, `tariffs` | create, update, delete; occurrence, next occurrence, notice, terms of the nearest ancestor | the next celebration shown is the next; a request saved gave the notice and pays the offering in force; a tariff sets something |
| The rest | single rows | CRUD on groups, publications, FAQ, contact, settings, addresses, types; seeds; dashboard | – |

They interact by direct calls inside the process.  `ChatService` commits a
message, emits it through the gateway's rooms and starts the reply without
waiting for it; the reply calls the assistant, whose tools call `ChatService`
back (history, escalation, participants) and the notifications; requests and
donations create their payment through `PaymentService.submit`; the authorisation
of payments and of most writes of a church is `ClergyMemberService`.  Every HTTP
call passes the guards first, which read the claims of the access token and the
blacklist, never the account.

What is hard: sends and replies on one conversation; a handoff during a reply
that lasts up to a minute; joins and disconnections of a socket during the
query that authorises it; runs of the assistant that overlap and all escalate;
two members of the clergy deciding on one payment while affectations,
methods, churches and users are deleted; rows that vanish between a check and
the insert that relies on it; a token that outlives the rights it carries; calls
that all pass a lock before any of them is counted; retries of a mail that
overlap with its late failure; a crash between any two statements.  The list
`hazards` of `PROJECT.json` has them line by line.

## 2. The modules

| Module | Models | State in the code |
|---|---|---|
| `Conversation` | one conversation of `ChatService`, its replies and their typing indicator | `mode`, `cached` (the three `lastMessage*` columns, as the index of the message they describe), `thread` (messages in order of insertion, open until their transaction ends), `seats` (rows of participants with no `left_at`), `typing` (last event emitted for the assistant), and for each request `pc` and its local variables |
| `Inbox` | `createOrOpen`, `openGuestConversation`, `markRead`, `getUnreadCount`, `deleteMessage`, over several conversations | `chat` (rows of conversations, by the call that inserted them), `seat` (rows of participants, several for one actor possible), `open`/`stand` (a call), `message`, `reading` and `deleting` (calls of markRead and deleteMessage between two statements) |
| `ChatGateway` | `ChatGateway` | `rooms` (Socket.io), `presence`, `joined` (`socket.data.conversations`), `auth` (the promise in `authenticating`), `join` (where `onJoinConversation` waits, for the authentication or for the query), `seen` (last `presence:update` received), `members` and `former` (participants in the database) |
| `Assistant` | `LlmChatBotService.reply`, `AssistantToolsService.escalate`, `ChatService.escalate`, the notifier | `job` (local variables of a run), `reEscalated`, `outcome` (what `reply` returned), `escalation` (columns of the conversation), `participants`, `notices` |
| `Decision` | what the decision on payments promises (abstract) | `verdict`, `open` (calls that are deciding) |
| `Offering` | `RequestService`, `DonationService`, `PaymentService`, affectations, and the deletions; implements `Decision` | `form`/`step` (a call of `create`), `payment`, `document` (the request or donation row), `call`/`stand` (a call of `confirmOrReject` or `updateStatus`), `churches`, `users`, `methods`, `clergy` |
| `Liturgy` | `liturgy.util`, `ScheduleService`, `TariffService`, `RequestService.validate` and the amount in `create` | `now`, `schedule`, `tariff` (rows), `edit` (updates that have read their row), `request`/`stage` (a request, the form its date is written in, and what its validation has found), `seen` (history: what each church has set since the search of a term began) |
| `Church` | `ChurchService`, `MembershipService` | `church` (rows), `follow` (memberships, by the call that inserted them), `home`, `left` (history), `call`/`stand` |
| `Access` | middleware, the five global guards, the metadata of every route | none: constants and predicates on a credential |
| `Session` | `AuthService`, `SessionService`, status and roles of `UserService`; extends `Access` | `account`, `session` (row of a user and device, known by the pair of tokens it holds the hash of), `pair` (claims of the tokens signed), `revoked` (blacklist), `call`/`stand`, `clock` |
| `Otp` | `OtpService`, `checkPin` | the three keys of one user and operation with the time they have left, `stand`/`guess` of the calls, `wrong` (history) |
| `Mail` | `MailService`, `MailProcessor`, `MailFailedService` | `job` (queue), `row` (`mail_failed_jobs`), histories of what was accepted, delivered, and met by a crash or database error |
| `Notifications` | `NotificationService` | `notice` (rows), `stateRead` and `dismissed` (`notification_states`), `used` (identifiers), `call` (calls and purges between two statements), `seen` (history: what a count should and may count) |

The theorems stand in eight modules: `ChatGatewayProofs`, `AssistantProofs`,
`ChurchProofs`, `SessionProofs` and `OtpProofs` are about the module they are named
after, `ChatProofs` about `Conversation` and `Inbox`, `RequestProofs` about
`Offering` and `Liturgy`, `DeliveryProofs` about `Mail` and `Notifications`.  Where
one module of proofs extends two components, the second has names of its own
(`InboxInit`, `LiturgyNext`, `NotificationsTypeOK`); the components of such a pair
share no variable, and their theorems are of one specification each.
`MC<module>` extends a module with the
definitions of its instances (symmetry sets, functions between model values).

One action is the code from one `await` to the next, or one whole transaction
statement; a request that returns early is an action that goes to its end, or,
where nothing at all changed, an action that is not enabled.  Requests are
elements of a constant set and are used at most once (a slot of `Otp` and a
call of `Notifications` again and again), so that the bound on their number is
the bound on their concurrency.

`Conversation` makes InnoDB's locks explicit because correctness rests on
them.  Inserting a message or a participant takes a shared lock on the
conversation row through the foreign key; the update of the list cache or of
the mode needs it exclusively.  Two sends that have both inserted can therefore
not both update: one of them is rolled back.  That, and not the code's order of
statements, is what keeps the list cache in order.

`Access` writes down the decorators of every controller, as sets of routes with
one policy each, and the guards as predicates.  `Session` uses them twice: to
decide who may call the account routes it models, and in its properties, which
quantify over the policies of all routes.

`Offering` and `Decision`: a payment's verdict is mapped to its status, the open
decisions on it to the calls that stand between reading SUBMITTED and writing.
The refinement says that verdicts come only from calls that read the payment
undecided, each once, whatever rows are deleted meanwhile; not that there is
one verdict, which the code does not ensure.

`Liturgy` describes a table by its columns and the values each may have
(`ScheduleColumns`, `TariffColumns`); a body of an update is a function of some of
them (`Fits`), and `Written` is what `update()` does with it.  The hour of a schedule
is two digits that nothing keeps under 24 (`Hours`).  The date of a request is a
string: `IsDateString` lets through `YYYY-MM-DD`, the same with a time behind it, and
`YYYYMMDD` (`DateForms`), and `RespectsLead` compares them as the code does, as
strings.  `Chain` defines the ancestors of a church without recursion, as the least
set closed under `Parent`.  `findInHierarchy` climbs one read after another while
tariffs are edited, so that there is no single "nearest church" to compare its answer
with: `Resolves` says what it may be, from what each church has set during the climb.

Two histories are kept next to the steps and not in them: `Watch`, in `Liturgy` and in
`Notifications`, says how `seen` follows whatever else happens, and the next-state
relation is the conjunction of the two (`LiturgyNext == LiturgySteps /\ Watch`).

External behaviour, modelled from how the code relies on it: expiry of Redis
keys, BullMQ's states of a job (a stalled job runs again, the events are those
of the process that ran it), InnoDB's locks, foreign keys and rounding of
DATETIME columns, the clock.

## 3. What is checked

Passing runs, all exhaustive over their instance:

| Run | Instance | Distinct states | Shows |
|---|---|---|---|
| `conversation` | 3 requests, 1 agent, 1 crash | 649,462 | the list cache follows people's messages, the assistant is never left typing, every request ends |
| `gateway` | 2 sockets of a faithful, 1 of an admin, 1 conversation | 103,928 | rooms, `socket.data` and the registry agree; everyone joined has seen who is online; no one listens who was not a participant |
| `assistant` | 2 runs of 2 rounds of up to 2 calls, deadline of 1 unit, 1 church with 1 member of its clergy, no admin, clock to 1 | 1,129,958 | a silent run has transmitted its question, whoever is notified can open the thread, every run ends |
| `offering` | 1 form, 2 calls, 2 churches, 1 user | 181,040 | decisions implement `Decision`; only the clergy of the church decides; an offering goes to the church of its method |
| `church` | 4 calls, 3 churches, 4 of the 8 types | 46,905 | the hierarchy keeps its levels and has no cycle; a home church was followed |
| `session` | 1 account, 1 device and the unknown one, 3 calls, clock to 3 | 835,542 | rights catch up with the account, a token logged out reaches nothing, a closed session is not revived |
| `otp` | 3 slots of calls, 2 codes, limit 2, 1 crash | 293,516 | wrong codes compared with one code are bounded; a counter expires |
| `mail` | 2 mails, 3 jobs, 2 rows, 2 attempts, 1 crash | 95,548 | no mail is lost, a mail recorded as failed was not sent |
| `notifications` | 2 users, 2 keys, 2 identifiers, 2 calls, clock to 2 | 3,094,372 | a count is of its time; only what is done with disappears |
| `inbox` | 2 calls that open, 1 user, 1 guest, 1 message, 1 reading | 1,933,428 | a thread opened is one where the actor has a seat and the existing one if any; only reading clears the unread |
| `liturgy` | 1 schedule, a parish and its diocese with terms of their own, 2 updates, 1 request in 3 forms of dates | 1,113,376 | tariffs set something, the next celebration shown is the next, a request meets the terms of the nearest church and gave the notice |

The bounds are the smallest at which the cases happen.  Two requests suffice
for every race found; the third lets a handoff or a release fall into a race of
two others.  Two sockets of one actor are needed for "the last socket leaves",
a third of another actor for the announcement.  Two runs suffice for one to
overwrite the escalation of the other; two rounds and two calls are the least
that go back for another of each.  Three churches give a parent, a child
and a grandchild; four types cover ranked levels that are not adjacent, the
level leaves may hang under, and a leaf.  Three calls of `Session` give a login,
a refresh of its token and whatever interferes, on an account that exists or
not; lifetimes of 1 and 2 ticks are the least with which a user's token and one
of the staff live differently.  In `Otp` the counter allows two attempts, so
that the first (which asks for the expiry) and the last differ; the third slot is a
call that passes the lock while another, past the limit, is about to set it.  In `Mail` the
third job lets two retries of one mail overlap while another mail fails.  The
calendar of `Liturgy` is three weeks around the end of February 2026, looked at
in the last hour of a day in local time and in the first hour of a UTC day; its
schedules are daily, monthly and weekly over midnight.  Its parish and its diocese
differ in both terms (notices of 25 and 49 hours, offerings of 0 and 5), so that the
nearest church is told from a farther one, and the hours are such that a
celebration may be on the first day allowed and before the first hour.  Symmetry is
used on interchangeable model values, and not in the two runs that check liveness
(`conversation`, `assistant`).

`CHECK_DEADLOCK FALSE` everywhere: when every request of the instance has been
used the system stops, which is the end of the instance and not a deadlock.
That no request waits for ever is what `EveryRequestEnds` and `EveryRunEnds`
check.

What the properties of the newer modules say:

- `RightsCatchUp`: a change of status or roles is felt on every route of every
  controller once the longest life of an access token has passed, although no
  guard reads the database; `LoggedOutReachesNothing`: the blacklist outlasts
  the token it names, whoever was promoted meanwhile;
  `RefreshRevivesNothing`: a refresh in flight cannot bring a closed session
  back.
- `GuessesBounded`: calls that overlap all pass the lock before one of them is
  counted, and again while the call past the limit has yet to set the lock, and
  still the wrong codes compared with one code stay bounded by the limit and the
  number of calls.  `CounterExpires`: a counter without expiry takes a crash between
  INCR and EXPIRE.
- `TypingHasAReply`: the typing indicator is one event for all replies; whichever of
  them fails, and wherever, it is off when none is left.
- `EveryRunEnds`: the loop goes back for another tool and for another round, and yet
  rounds, calls, the retry and the deadline end it, whatever the model answers.
- `NoMailLost` and `RecordedIsUnsent`: a mail asked for is sent, on its way or in
  the table, and one that is only in the table was not sent, unless a crash or
  a database error met it.
- `CountIsOfItsTime`: the badge is the sum of two queries, between which notifications
  are read, dismissed, removed and purged; it counts nothing that was done with before
  it began, and misses nothing that the list has shown unread ever since.
  `OnlyTheDoneGo`: what
  disappears was removed by its recipient, expired, or read and kept long enough.
- `OpenedIsReused`: a user is answered a thread in which he has a seat, and an
  existing one if there was one when the call began.  `OnlyReadingClears`: no
  send, commit, deletion or reading by another clears what somebody has not read.
- `TariffsSaySomething`: two updates that each take a term away leave one.
  `NearbyShowsNext`: the search day by day finds the least live day.
  `TermsOfNearest`: the notice checked and the offering asked are those of a church
  that has set them since the search began, when no nearer church has set its own
  all along.  `SavedGaveNotice`: a request saved gave the notice found for it, although
  its schedule is changed or deleted after the check.

Fairness: users are not fair, they may never send anything.  What the server
has accepted it continues: weak fairness on `Continue(r)` for each request.
The code justifies it: Node resumes every handler whose `await` has been
answered, every query is answered or fails, and every call of the model has a
timeout.  A request lost in a crash has ended.  No other run checks liveness:
what the other components must eventually do is the work of BullMQ, of Redis'
expiry or of a user.

### Where the code does not do what is written

`gateway_ghost` checks a property that the repository states and TLC refutes: a
participant that disconnects while its join waits for the database is put into the
presence afterwards, and stays online until the process restarts.  (An admin's join
does not wait for the database, and the run has no admin.)  The quotation and the line are in `findings`.

Other cases the models reach, which have no run of their own because a
weaker property says what does hold, or nothing does:

- A handoff commits between the second reading of the mode
  (`src/src/chat/services/chat.service.ts:742`) and the insert of the reply: the
  assistant speaks in mode AGENT, where `src/chatbot-llm-spec.md:154` has it silent.
- Two handoffs to one agent that overlap both look for its row
  (`src/src/chat/services/chat.service.ts:676`, a plain read) before either inserts, and
  the shared lock of an insert does not stop the later one: it has two active rows.
  So it has after two calls of `ensureParticipant`, or one of each.
- The row a handoff finds and keeps may be closed by another handoff
  (`fromActorId`) before it commits.
- The reply of the assistant inserts and updates the list cache in two
  statements; a person's message sent in between is replaced in the list by the
  older reply.  `PersonMessagesCachedInOrder` is what holds.
- Two first calls for one subject open two conversations
  (`src/src/chat/services/chat.service.ts:215` says one per user); a failure of
  `openGuestConversation` after its first statement leaves a thread that every
  later call answers and in which the visitor has no seat.
- `deleteMessage` sets `body` to `undefined`, which TypeORM's `save` skips; and it
  saves the `read_at` it read, NULL over what `markRead` may have written since.
- A run that re-escalates and whose next call of the model fails posts a fallback;
  a run that escalates twice takes its own first escalation for an earlier one and
  holds its answer back.  `SilenceIsTransmitted` is what holds.
- Two decisions on one payment that overlap both write; `ImplementsDecision` is
  what holds.  The payment of a request or donation is committed first; if the
  second insert fails it stays attached to nothing.
- `updateStatus` moves a request from any status to any other.
- Two additions to a gallery that overlap keep one photo.
- Unfollowing the home church leaves it the home church; `HomeOnceFollowed` is
  what holds.
- `confirmEmail` makes an account active whatever its status was: one blocked or
  deleted since the code was sent comes back.  `login` and `loginWithGoogle` read
  the status and do not look at it, contrary to the comment at
  `src/src/auth/services/auth.service.ts:392`; the token they sign carries it, and
  the guards refuse it.
- A refresh in flight during `logoutAll` still answers with a valid access token,
  though with no session behind it.
- `checkPin` does not reset the counter after a right PIN, contrary to its comment.
- A request without a schedule whose date is written `YYYYMMDD` is after every date
  written with hyphens of its year (`src/src/liturgy/liturgy.util.ts:145` compares
  strings): it gives no notice, and its day may be past.  `SavedGaveNotice` is of the
  other forms.
- The unread count keeps targeted notifications that have expired; a broadcast
  without expiry is never purged; a crash between the insert of a notification and
  its dispatch loses the push, since the retry is a duplicate.
- `abandon` is undone by the late failure of a retry.
- Two updates of a tariff that overlap each write both terms: one is lost.
- The update of a schedule checks the patch with `??`, so that a NULL day passes;
  requests already made keep a date that is no occurrence any more.
- A celebration that goes on past midnight UTC is not found by
  `nextScheduleOccurrence` on the second day; `NearbyShowsNext` excludes it.

## 4. What is proved

Each module of proofs defines an invariant (`IInv`, or the conjunction named
below), shows that `Init` implies it and every action keeps it, one lemma per
action or group of actions that move alike, and draws the theorems from it.  Between them
the theorems state every invariant, action property and refinement that the
passing runs check; only the two liveness properties are not among them.

`ChatProofs`, on `Conversation`, for every set of requests and agents and every number of
crashes:

- `ConversationTyped`: `Spec => [](TypeOK /\ RequestShape)`, one step per action.
- `ConversationOrdered`: `Spec => []OrderInv`.
- `ListCacheInOrder`: `Spec => []PersonMessagesCachedInOrder`.

`PersonMessagesCachedInOrder` is not inductive: whether the update of a send
keeps the cache in order depends on what was committed since its insert.
`OrderInv` adds `OpenRowsNotOvertaken`, that while a send holds its shared lock
no person's message inserted after its own has been committed (to commit, the
other needs the row exclusively), and `RequestShape`, what a request has
filled in by the time it stands at a step: its index is in the thread, and
posts of the assistant and notices are no person's messages, so the cache they
write makes the property hold trivially.  The lemmas about appending to the
thread and changing the status of a row carry the rest.  `TypeOK` is used
as the induction's companion; the only assumption on constants is
`MaxCrashes \in Nat`.

- `TypingIsRetracted`: `Spec => []TypingHasAReply`.  The indicator is turned on by a
  reply that begins and off by the step that ends one, at whichever exit
  (`TypingStep`, `TypingKept`).

`ChatProofs`, on `Inbox`, for every set of calls, users, visitors, messages and
readings:

- `InboxTyped`: `InboxSpec => []InboxTypeOK`.
- `ThreadsAreReused` (`OpenedIsReused`), with `CallsSound`: what a call has found
  is a conversation that is there, with the subject asked for; past its insert, or
  past its look for one, its actor has a seat; and a call that began when the
  subject had a conversation never comes to the insert.  Each is needed at an
  `await` during which other calls open, seat and leave; they survive because
  conversations do not go or change their subject and rows of participants are
  closed, not deleted (`Grows`).
- `UnreadUntilRead` (`OnlyReadingClears`, an action property).  `deleteMessage` saves
  the row it has read some time before: `DeletesSame` says that its sender, time and
  conversation are still those of the message, so that it cannot count again or
  for another; `ReadsSeat`, that `markRead` writes to a row that exists.

`ChatGatewayProofs`, for every set of sockets, conversations and actors (the
run has one conversation; these theorems say that several do not disturb each
other):

- `GatewayTyped`: `Spec => []TypeOK`.
- `ListenersTookPart`: `Spec => []OnlyParticipantsListen`, with
  `EntrantsWereChecked` added: a join past its query has an actor that takes, or
  has taken, part.  Without it a step from "enter" into the room could not be
  justified, because `members` may have changed since the query.
- `PresenceAnnounced`: `Spec => []EveryoneSeesWhoIsOnline`, inductive as it is.  The
  joins of an admin that waited for its authentication enter with it, in one step and
  in any number, hence a lemma about entering several conversations at once
  (`EnterAnnounced`; `EnterPlaced` for the theorem below).
- `RoomsAgreeAlways`: `Spec => []RoomsAgree`, by `Placed`: a socket without an
  identity is nowhere (`StrangersAreNowhere`, or else a leave that skips the
  presence would leave something behind), one not yet connected has asked for
  nothing, and the presence map files a socket under its own actor only.
- `DisconnectionClears`: `Spec => PresenceClearedOnDisconnect`, an action
  property from the same invariant; no run checks it.

`RequestProofs`, on `Offering`, for every set of forms, calls, users, churches and methods
(the run has one user; role and number of users do not matter to the rule):

- `OfferingTyped`, `ClergyDecides` (`DecidedByItsClergy`),
  `OfferingsReachTheirChurch` (`OfferingOfItsChurch`) and
  `PaymentsStayDecidable` (`PaymentsKeepTheirChurch`, a part of the invariant that
  no run checks by itself).

They follow from one invariant, `IInv`, because none is inductive alone: what
`confirmOrReject` writes is right because of what the call found two statements
before (`CallShape`: the payment exists and keeps its method, the affectation is
of the church of that method), what `create` saves because of what the form
obtained (`FormShape`), and a payment keeps its church because a method never
outlives its own (`MethodsHaveChurches`) and is restricted by its payments.  The
lemmas `FormMovesKeep` and `RowsMoveKeep` reduce a step to the one form that
moves, and the deletions to "documents disappear, payments forget affectations
that are gone".  The assumptions: a method belongs to a church, admins are users,
and `Nobody` (NULL) is no row.

`DecisionImplemented`: `Spec => ImplementsDecision`, from the same invariant.
Under the mapping a read of `confirmOrReject` is a `Join`, a refusal or a write
whose affectation is gone a `Leave`, the write a `Decide`, the insert of the
payment a `Submit` (`CallStepRefines`, `FormStepRefines`), and everything else,
`updateStatus` and the deletions included, a stutter (`CallStaysOpen`,
`RowStepRefines`).  The invariant gives that an insert finds no payment yet
(`FormShape`), and that a call holds a verdict on a payment that exists (`CallShape`).

`RequestProofs`, on `Liturgy`, for every hierarchy, calendar, set of schedules, of
bodies and of values of the terms, and any number of requests and updates:

- `LiturgyTyped`: `LiturgySpec => []LiturgyTypeOK`.
- `NoTariffIsEmpty` (`TariffsSaySomething`), with `EditsSound`: an update holds both
  terms, one of them given, and the row it has read is still there or the update
  is no longer waiting.  That is why two updates that each take a term away
  cannot leave none: the later one writes back the term it has read.
- `NearestTermsFound` (`TermsOfNearest`), with `SeenSound` and `RequestsSound`, which says
  what a request has obtained at each stage (`Sound`).  `Climbs` is the invariant of a
  search: it stands at an ancestor of its church, every church it has passed has been
  seen without the term, and the hops left suffice for the churches left, by their
  ranks.  What has been seen is only added to while one term is searched
  (`SeenGoesOn`), so that an edit of a church already passed takes nothing from it;
  and the search never gives up for want of hops (`ClimbEnds`).
- `NoticeIsGiven` (`SavedGaveNotice`): the request keeps what was checked from the check
  on.  `LeadRespected` turns the comparison of a day and an hour, which is what that of
  two hyphenated strings amounts to, into one of instants.
- `NextIsShown` (`NearbyShowsNext`): the set of days that `nextScheduleOccurrence`
  looks at has the least live day, if that is within the horizon and over by the
  end of its UTC day (`ShowsNext`).

The lemmas on the hierarchy (`ChainStep`, `ChainRank`, `ChainUp`, `ChainLeast`)
need no induction: `Chain` is a least closed set, so that a property of it is proved
by giving a closed set; that some numbers have a least one (`LeastOf`) is the
well-foundedness of `<`.  The assumptions: ranks decrease from a church to its
parent and are fewer than `MAX_RESOLUTION_HOPS` (`HierarchyAssumption`; the order is
`HierarchyHolds`, a theorem of `ChurchProofs`); the bodies hold columns of
their tables (`BodiesAssumption`, what the DTOs check); leads and offerings are
naturals, the calendar gives a week day, a day of the month and a year for the same days
(`LiturgyAssumption`); `Null` is no row or request (`NullIsNone`).

`DeliveryProofs`, on `Mail`, for every set of mails, jobs and rows and any number of attempts,
with at most one crash (a job that BullMQ finds stalled twice fails by itself):

- `MailTyped`, `MailsAreKept` (`NoMailLost`) and `RecordedWereNotSent`
  (`RecordedIsUnsent`).

What is hard is that several jobs may carry one mail.  `Traced`: a retry names a
row that is still there and of its mail, or else its mail was sent and has no row
at all; so two retries of one mail cannot each leave a row, and the deletion by
the one that succeeds leaves nothing for the other to update.  `FirstAlone`: the
first job of a mail is its only one, so that the row it inserts is the only one
(`OneRow`).  `RowsLeave`: the row of a mail that was sent has yet to be deleted by
the retry that sent it, which is `RecordedIsUnsent` once no job is in flight.

`DeliveryProofs`, on `Notifications`, for every set of users, keys, identifiers and
calls, and any retention:

- `NotificationsTyped`: `NotificationsSpec => []NotificationsTypeOK`, which contains
  that a read state never outlives its notification.
- `BadgeIsOfItsTime` (`CountIsOfItsTime`), in two layers.  `NotificationsInv` is about the
  rows and the calls; `CountsInv` adds what the first query has answered when the
  second is made: `TargetedCounted`, nothing but what was unread when the count began,
  and all that is still shown, of the targeted; `StillShown`, that what has been shown
  all along is shown now.  `RecipientsStay`: a notification keeps its recipient, so
  that no targeted one becomes a broadcast between the two queries.  `CountsMove`: whatever step is taken, a
  count is where it was or has made its own next query.
- `NothingUnreadGoes` (`OnlyTheDoneGo`, an action property).  A purge selects and then
  deletes batch by batch, a removal finds and then deletes: `RemoveFound` says that
  what the call has found is still addressed to its user or to all, `TimedBegan` that
  a purge, or a count, compares with a time that is past; that several purges overlap
  changes nothing.  Both rest on an identifier being
  given once (`PresentIsUsed`, `ReaderShape`): a row made meanwhile is never taken
  for the one that was found.

`AssistantProofs`, for every set of runs, churches and users, and any bounds on
rounds, calls and time:

- `AssistantTyped`: the counters of rounds and calls stay within their bounds; the
  type alone is not inductive, `JobFits` says what a run has left where it
  stands.
- `SilentOnesTransmitted` (`SilenceIsTransmitted`), with `CommitFirst`: past its
  update, and whenever it takes the conversation for re-escalated, a run has
  committed a transmission of its own.
- `NotifiedAreInside` (`NotifiedCanOpen`), with `AddedFirst`: when the notifier is
  called, the clergy of the church of the run is among the participants already.

`ChurchProofs`, for every set of calls, users, churches, types and slugs:

- `ChurchTyped`, `HierarchyKept` (`HierarchyHolds`) and `HomeWasFollowed`
  (`HomeOnceFollowed`).

The parent is validated by one read and the church inserted two awaits later.
`ParentStands` says why that is enough: the parent was a church, and what is
deleted is not made again under the same identifier (`MadeOnce`), so that it is
either gone, and the foreign key refuses the insert, or what it was.
`HomeFound` and `HomeSeen` reduce the home church to the memberships that are
or have been.

`SessionProofs`, for every set of users, devices and calls and any lifetimes
of the tokens, provided the blacklist remembers for the longest of them:

- `SessionTyped`, `ChangesAreFelt` (`RightsCatchUp`), `LogoutHolds`
  (`LoggedOutReachesNothing`) and `ClosedStaysClosed` (`RefreshRevivesNothing`, an
  action property).

`RightsCatchUp` speaks of the routes of all controllers; it follows from
`SignedRights`: the rights in a pair are those of the account, unless that
changed since one tick before the signature.  The tick is that of the call which
read them (`ReadRights`, `Prompt`: a call outlives at most one).
`LoggedOutReachesNothing` follows from `Blacklisted`; the lifetime of the token
is of the roles it was signed with, hence the assumption on both lifetimes.

`OtpProofs`, for any number of overlapping calls, codes and crashes, any limit,
and any times that keep the order `redisConf` gives them (`TimesOfConf`: the code
lives no longer than the counter of attempts or the lock):

- `OtpTyped`, `GuessesAreBounded` (`GuessesBounded`) and `CountersEnd`
  (`CounterExpires`).

`GuessesBounded` is arithmetic on a history variable that nothing in Redis
records.  Between the INCR that passes the limit and the lock, other calls still pass:
`Overrun` says that the counter is past the limit by no more than the calls about
to lock (`Locking`) and those that a crash ended before they did (`Lost`, at most
all calls at each crash).  `Accounted` says where the wrong guesses at one code went.
Either the lock is set and outlasts the code, and only the calls that had passed it
can add one each; or all are in the counter, but for those under way and those a
crash forgot; or the counter has expired, or was deleted with a lock, and has begun
again since, and outlasts the code, so that this can not happen twice.  Without
`TimesOfConf` the second and third case could follow one another for ever.
Cardinalities of the sets of calls at a step change by one with each step of a call
(`SetMoves`); the facts are those of `FiniteSetTheorems`.

The assumptions on constants are those above and that the values standing for
NULL are no row, no call and no identifier (`NullAssumption`, `NilAssumption`,
`NoneAssumption`, `NothingAssumption`, `NullsAssumption`; users and visitors of
`Inbox` are disjoint, bounds are naturals).

Only model-checked: liveness under fairness (`EveryRequestEnds`,
`EveryRunEnds`), which is out of the prover's reach; and what the run
`gateway_ghost` refutes.  The search of `nextScheduleOccurrence` day by day is a set
of days and its minimum in the model, not a loop; that the loop computes
it would be an induction over data, which the provers cannot do.  The number of ranks
of the hierarchy being less than `MAX_RESOLUTION_HOPS` is a fact of
`src/src/church`, assumed here.

## 5. What is not modelled, and the plan

Left out of the modules that exist: the text, kind and attachments of messages
and their upload; the typing relay; the read-only tools of the assistant and its
alert; passwords, PINs, links of a reset, devices and FCM tokens; single-statement
setters of a church or a profile; `massSlots`, the geography of `nearby`, minutes
and the changes of a request type.  `Conversation` and `Inbox` share the code of
`ChatService` but not their state: what `Inbox` opens is one instance of
`Conversation`.

Addresses, types, FAQ, contact, settings, liturgical periods, groups,
publications and media are CRUD over single rows under unique indexes: an
operation is one read and one write of a row nobody else depends on, and only
the metadata of their routes (`Access`) says anything a model checks.  The
dashboard, seeds, migrations, uploads and the error log are plain input and
output.

What is left: a composition of `Inbox` with `Conversation`, and of `Liturgy` with
`Church`, so that the assumption on the hierarchy becomes a theorem about the
rows; both multiply the states beyond what TLC can exhaust, and would be for
the prover alone.
