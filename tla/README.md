# A verification project for Go-Orisun-Datastar

TLA+ models of the server's concurrent core, TLC configurations that check them
on small instances, and theorems that TLAPS proves for every instance.

## The system

The server is an event-sourced web application. An HTTP request runs a *command
handler*, which reads a few events from the embedded event store (Orisun),
decides, and appends an event. *Event handlers* (eight of them, one goroutine loop
each) read the log from a checkpoint on and project it into SQLite tables, send
mail or run a follow-up command. Pages list the tables and are refreshed by
notifications over NATS.

| Component | State | Operations | Interacts with |
| --- | --- | --- | --- |
| event store client (`internal/eventstore/types.go`, `orisun_embedded.go`, `command_metadata.go`) | the log, owned by Orisun | `SaveEvents` with an expected position and a subset query, `GetLatestByCriteria`, `SubscribeToEvents` | everything |
| todo commands (`internal/features/todo/*_command_handler.go`) | none between requests; a context per request | create, rename, complete, reopen, delete; complete all, reopen all, clear completed | event store; bulk commands also the read model |
| global event handler (`internal/eventstore/event_handler.go`, `checkpoint.go`) | subscription, worker goroutine, row of `projector_checkpoint` | start, stop, run, retry of callback and checkpoint | subscription, SQLite, its callback |
| todo read model (`todo_read_model_event_handler.go`, `read_model.go`) | table `todo_items` | project five event types, list | event handler, NATS, pages, bulk commands |
| process and reset (`cmd/server/main.go`) | - | start, shutdown, `-reset-read-models` | all handlers, SQLite |
| registration, email verification, password reset and change (`internal/auth`) | events, `auth_*` tables, subject keys | commands and three reacting event handlers | event store, mail, keys |
| account deletion (`internal/auth/delete_account_command_handler.go` and its handler) | tables of all features, key, media | request, complete | every other handler |
| sessions, credentials (`session_manager.go`, `user_store.go`) | `auth_session`, `auth_account`, `auth_user` | login, logout, current user | auth projection |
| profile (`internal/features/profile`) | `profile_stats`, uploaded files | bio, images, two projections | storage, auth tables |
| page streams (`internal/httpui/sse.go`, `internal/viewstore`, `internal/natsbus`) | a view state per session, watchers with a buffer | refresh, watch, notify, patch | read models |
| rate limits (`internal/httpui/rate_limit.go`) | counters per key and window | count, reject, sweep | requests |
| views, configuration, index catalogue, metrics, email and storage adapters, generated SQL | little or none | - | - |

What is hard here, and untested by the repository's unit tests, which use fakes
without concurrency:

- a command is two calls to the store with anything in between; only the expected
  position and the subset query of the save protect its decision;
- bulk commands act on a list from a table that lags behind the log;
- a callback's transaction and the checkpoint are two transactions, with a crash,
  an error or a retry between them;
- `SubscribeToEvents` returns when its subscription ends but leaves its worker
  goroutine running, so two workers of one handler overlap;
- handlers lag behind each other and replay history after a reset, also history
  about accounts that have been deleted since.

What makes each part correct: the log is one legal history of every todo, whatever
runs at once; a handler handles each event at least once, in order, and never
falls behind for good; a table shows the log at one moment; a code validates one
address once, a reset token works once, a deleted account leaves nothing behind;
an open page ends up showing the present state. `PROJECT.json` lists the hazards at
their lines, with the properties that cover them or the reason none does.

## Modules

| Module | What it models |
| --- | --- |
| `EventStore` | positions, queries, the optimistic conflict test, the latest events per criterion |
| `TodoCommands` | all todo commands run by concurrent requests; state, actions, invariants |
| `TodoContext` | the contexts as the code computes them (a fold over the latest events in position order), and the refinement mapping to the lifecycle |
| `TodoLifecycle` | abstract specification: what the commands promise about one todo |
| `EventHandler` | the global event handler: loop, subscription, workers, retries, checkpoint, stop, crash, restart, reset |
| `TodoSystem` | composition: `TodoCommands` writes the log, an instance of `EventHandler` projects it into `todo_items`, bulk commands list the table |
| `Delivery` | abstract specification: what an event handler promises the code that runs on it |
| `Accounts` | all account and profile commands run by concurrent requests and event handlers, with the table of subject keys |
| `AccountLifecycle` | abstract specification: what the account commands promise together |
| `AccountSystem` | composition: `Accounts` with the SQLite tables, sessions, requests, the projections and the deletion, each on a checkpoint of its own |
| `ViewStream` | the open pages of one session over the view store and the notifications of one read model |
| `MCTodoCommands`, `MCEventHandler`, `MCTodoSystem`, `MCAccounts`, `MCAccountSystem` | small instances and symmetries for TLC |
| `TodoCommandsProofs`, `TodoContextProofs`, `TodoLifecycleProofs` | theorems about the todo commands: their invariants; that their contexts lose nothing; that they implement `TodoLifecycle` |
| `EventHandlerProofs` | theorems about the event handler, and that it implements `Delivery` |
| `AccountsProofs` | theorems about the account commands, and that they implement `AccountLifecycle` |
| `ViewStreamProofs` | theorems about the pages |
| `TodoSystemProofs`, `AccountSystemProofs` | theorems about the two compositions, built on those of their parts |

`TodoSystem` composes the handler in full detail with one feature. `AccountSystem` has
four handlers on one log, and takes of each only what `Delivery` says; that
`EventHandler` keeps this promise is `ImplementsDelivery`. `ViewStream` starts where the
projections end, at a table that changes and a message after each change.

### How the models correspond to the code

**Log and positions.** The log is a sequence, a position an index, `NoEventPosition`
is 0. The program only compares positions (`Position.After`), so nothing of the
pair of numbers is lost. An event is a record of the fields its tags can name; a
query is a set of criteria. `StreamQuery(t, u)` is the set of the five criteria that
`streamQuery` builds. `Conflicts` is what the code relies on from Orisun's
`SaveEvents`: rejected if and only if an event of the subset query lies after the
expected position. `GetLatestByCriteria` answers from one snapshot. Orisun itself
is not part of the repository; these are assumptions about it.

**Requests.** A request is `idle`, in the `loop` of a bulk command, or about to
`save`. `LoadNotFound`, `LoadSkip` and `LoadReady` are the three outcomes of the first
store call with `requireActive` and the skip test; `SaveConflict` and `SaveCommit`
those of the second. `ErrConflict` goes back to the client, nobody retries. A
bulk command stops at its first error and keeps what it has saved, goes on after
a skipped todo, and may be cut short anywhere by `Abort`. Until a single command
has loaded it has done nothing, so a new request is not in the state before
that, and one that is refused or skipped leaves no trace, so `LoadNotFound`
and `LoadSkip` are steps of bulk commands. The fields `exists`, `deleted`, `completed` and `title` of the contexts are
predicates on the log (`Exists`, `Deleted`, `Completed`, `Titled`), the form the proofs
want; `TodoContext` computes them the way the handlers do, `HandleInOrder` being the loop over what
`EventsFromLatest` has sorted: it handles the event with the largest position last. `LatestPerTypeSuffices`
says that the two agree.

**Event handler.** `loop` is where `run` stands, `current` the worker whose context
is live, `step[w]` where each worker stands. A callback is a write transaction
(`handle`, `handleTx`) and a notification after it (`notify`); the checkpoint is a
transaction of its own. SQLite admits one writer (`WriterFree`); a transaction
begins only under a live context (`Begin`) but may commit after its context was
cancelled, which is how the worker of an ended subscription can still write.
`applied` is a history variable: the positions whose callback has committed since
the last reset. It is never read by an action. `GivesUp` covers a positive
`MaxEventRetries`; all eight handlers of this server pass -1.

**System.** `todo_items` is a function from todo to row. `Project` is the switch of the
callback with the SQL of each case: insert does nothing on a conflict, the updates
do not compare positions. A crash ends requests and handler together and keeps
log and database. A reset empties table and checkpoint in one transaction.

**Accounts.** A command in flight is a record: the call it makes next (`next`), the
query and position of its context, the event it is going to save. One action
per call: the load with the decision, the key (`CreateKey`, `ReadKey`), the deletion of
the data and of the key, the save. The order of these calls differs between
commands and is the code's: the bio takes the key before it reads the log, the
others after; a registration creates its key before the save. `Abort` ends a
command anywhere, also in the name of a crash, and `SaveConflict` sends it home; an
event handler then runs its command again. The validation of a code is the loop of the code:
`ReadCodeAgain` until the newest code is the one that was asked for, or `Rounds`
reads are over, `ReadCodeStable` otherwise. A command that begins with a read of the
projection may in `Accounts` start for any user the log knows; `AccountSystem` guards it with the tables.
An event's id is its position, which is as fresh as the UUID of the code. First and last name of a registration may be blank (`NoName`);
the commands and `auth_user` then take the username for the name (`DisplayName`), which is
why a username can also be asked for as a name. `RequestDeletion` asks for a registered user, which its handler
does not: its caller is signed in, and so has a row of `auth_user`.

**Tables.** `auth_user`, `auth_account` and `profile_stats` are functions from user to row,
`auth_session` a set of users with a session, `auth_verification` a set of rows. Each
statement of `internal/dbsql` is an operator on the table it names, with the
`ON CONFLICT` clause of its SQL. `auth_session.user_id` is a foreign key that cascades.
A protected field reaches `stringValue` as an object and comes out as the
empty string (`StringValue`), which is what decides over the token of a reset.

**Handlers.** `delivered[h]` and `checkpoint[h]` are those of `Delivery`, and every callback
is guarded by `Promise(h)!MayDeliver`: the last event again, whether or not its checkpoint is written, or the next one. A callback that decrypts reads the key first
(`ReadSubjectKey`) and writes its tables in a second step, so the key may be destroyed in
between. `account_deletion` is a command in a slot of its own. The other three
handlers that react with a command (first code, mail of a code, mail of a reset) are taken to run
it for any event at any time, which includes every lag and repetition they can have.
A request reads the tables in one step (`admitted`) and acts on what it has read in a later one.

**Pages.** A list is the number of commits it has seen. A stream lists, puts, watches,
subscribes and loops, one action per call; `updates` is the channel of capacity
one, `messages` what NATS has not handed to the subscription yet, `watched` what the
watcher holds for the page, at most `Buffer` values in its channel and one in
the bucket's, which keeps only the newest. `Close` is the end of a stream for any
reason. Todos and profile use the same loop. The operations page has one table of counters
that changes with time, not with events.

## Runs

| Run | Bounds | Checks | States |
| --- | --- | --- | --- |
| `todo_commands` | 2 users, todos, titles, requests; 4 events | `TypeOK`, `OwnStream`, `NothingAfterDelete`, `TogglesAlternate`, `RenameChangesTitle`, `DecisionsHold`, `LatestPerTypeSuffices`, `ImplementsLifecycle` | 47 thousand, with symmetry |
| `clear_completed` | 1 user, todo, title; 2 requests; 1 worker; 4 events | `ClearDeletesOnlyCompleted`: violated | stops at the violation |
| `event_handler` | 2 workers, 3 events of two types, 1 reset | `TypeOK`, `NoEventSkipped`, `HandledInOrder`, `CheckpointNeverRegresses`, `CatchesUp`, `ImplementsDelivery` | 18 thousand |
| `online_reset` | the same, reset while running | `NoEventSkipped`: violated | stops at the violation |
| `todo_system` | 1 user, 1 todo, 2 titles, 1 request, 2 workers, 4 events, 1 reset | `SystemTypeOK`, `ListIsOneMoment`, `ClearDeletesOnceCompleted` | 370 thousand, with symmetry |
| `todo_system_live` | 1 user, todo, title, request; 2 workers, 3 events, 1 reset | `ListBecomesCurrent` | 69 thousand |
| `accounts` | 2 users, 2 commands in flight, 4 events of a mix | `TypeOK`, `IdentityTakenOnce`, `OncePerSubject`, `NewestCodeValidated`, `KeysFollowDeletion`, `UpdatesChange`, `OneLiveCode`, `DecisionsHold`, `ImplementsAccountLifecycle` | 104 thousand, with symmetry |
| `account_system` | 1 user, 1 request and the deletion, 4 handlers, 5 events of a mix, 1 reset | `AccountSystemTypeOK`, `TablesShowLog`, `SignInEndsWithDeletion`, `DeletionCompletes` | 100 thousand |
| `reset_tokens` | the same without a reset | `RequestedResetsUsable`: violated | stops at the violation |
| `deletion_leftovers` | 3 handlers, 6 events, no reset | `NothingLeftAfterDeletion`: violated | stops at the violation |
| `replay_stuck` | the same, 1 reset | `ReplayCatchesUp`: violated | stops at the violation |
| `pages` | 2 streams opened 3 times, 1 commit, `Buffer` 1 | `TypeOK`, `NoCommitMissed`, `PagesAgree`, `PageBecomesCurrent` | 59 thousand |

What they show:

- `OwnStream`: a request with a foreign todo id cannot write to that todo, by the
  user tag of the query alone. `NothingAfterDelete`, `TogglesAlternate`,
  `RenameChangesTitle`: what the log may not contain although every decision was
  taken on an older snapshot. `DecisionsHold` is why: either the stream is as it was
  loaded or the save conflicts. `ImplementsLifecycle` says it once more without
  the log: every committed save is one legal step of one todo.
- `LatestPerTypeSuffices`: handling the last event of each type in position order gives
  the context of the whole stream, and with it the fields the actions test.
- `NoEventSkipped`, `HandledInOrder`, `CheckpointNeverRegresses`: the overlap of two
  workers is harmless as long as no transaction begins under a cancelled context
  and SQLite has one writer; without either they fail (the faulty variants named
  in `PROJECT.json` show it).
- `ListIsOneMoment`: the table equals the log at the checkpoint or one event after it,
  in every field a command would decide on, through crashes, failing
  notifications, late workers and an offline reset.
- `ClearDeletesOnceCompleted`: what remains true of the bulk clear. It may delete a todo that was reopened
  behind its back (`clear_completed`), but never one of another user and never one that was not
  completed at some time, because every row it lists was, whatever lag or reset shaped the table.
- `CatchesUp`, `ListBecomesCurrent`: progress under the fairness below.
- `ImplementsDelivery`: all of this machinery, seen from a callback, is `Delivery`. The mapping is a
  refinement, and a repeated callback changes nothing it sees; `CallbacksDeliver` therefore asks of
  every commit of a callback, the repeated ones included, that `Delivery` allows it. What it
  allows is the last event again, at any time until the next one: also past its checkpoint, when
  the worker of a new subscription received it before a late worker of the old one
  committed that checkpoint.
- `IdentityTakenOnce`, `OncePerSubject`, `NewestCodeValidated`, `UpdatesChange`: what the
  choice of each command's query has to guarantee when two commands load the same log
  and both save. `ImplementsAccountLifecycle` states it without the log, with
  `verified` independent of the deletion, because no command looks for one.
- `DecisionsHold` (of `Accounts`) is why, as for the todos: between the load and the save there are now
  keys, mails, deleted tables and the rereading of the newest code, and still a save that
  does not conflict finds all its command found. Time is the exception: a code may
  expire in between, so that its validation is saved after its end.
- `OneLiveCode`: the handler of the registration and any number of requests may generate codes at once; a
  code is saved only when those before it have expired.
- `KeysFollowDeletion`: creation, destruction and the two events are four steps that
  can fail separately; a user is never without a key before asking for the
  deletion, and the key is gone when `AccountDeleted` says so.
- `TablesShowLog`: until an account's deletion is asked for its rows are the log at the position of the
  handler that fills them, redelivery, crash and replay included. The two tables do not show the same
  name: `auth_user` and the name command put the username in the place of a blank name
  (`DisplayName`), `profile_stats` keeps it blank. After a registration with blank first and last name, which
  nothing forbids, the profile page shows no name, and an update to the username is skipped as
  no change, so that only another name repairs it. The property says of each table what its
  handler writes; no text of the repository promises that they agree, so there is no run about it.
- `SignInEndsWithDeletion`: a login that compared the password before the deletion gets
  no session after it, by the foreign key; a projection that comes late brings no row back,
  because it has no key to decrypt with; and only a verified user, whose registration has
  therefore been projected, can ask for the deletion.
- `DeletionCompletes`: progress of the deletion, from wherever it failed.
- `NoCommitMissed`, `PagesAgree`, `PageBecomesCurrent`: no order of commit, list, put,
  watch, subscription and message leaves an open page behind for good.

**Why the bounds are enough.** The account modules have fourteen event types; a log
of four or five of any types would be too many. `Mixes` names the sets of types that meet in one behaviour:
those whose queries or statements touch each other, a few at a time, with `"expiry"` and
`"reset"` as kinds of their own. A property that relates two types needs both in one
mix; no property relates more than those of one mix. A registration has a name or a blank one, which in `accounts` goes with its email, so that symmetry has
less to tell apart. Two users separate the users' queries, and every race is between two
commands. `AccountSystem` has one user because its tables are keyed by user
and no statement touches two rows, one admitted request at a time, one session per user, and keeps
the last place in the log for `AccountDeleted`, without which the bound itself would
stop the deletion. Five events are a registration, a verification with its code, the deletion request
and the deletion, the longest chain a property speaks of; in `Accounts`, which does not ask for the verification first, four give a
registration with three events of one user, or two registrations with a command each. In `ViewStream` one
commit falls before, between and after any two calls of a stream, two streams overtake each other at every
call, and a third opening is a tab that comes back. A buffer of one is full as
soon as two values are put.

For the todos: Conflicts need two requests and an event between
them; create, complete, reopen and a fourth event reach every pair of toggles, and
a rename or delete on both sides of them. Two users and two todos separate the two tags of
a stream. At the handler three events give one before, one at and one after the
checkpoint, with or without an unwanted one between. Two workers are an old and a new
subscription; a third would have to wait for the one write transaction like the
second. In the system a row is written by the events of its own todo alone, so one todo with
its creation and any two commands after it reaches every pair of writes to a row, and a fourth event
lets a todo be completed, listed, reopened and then deleted by the clear that listed it; several todos per
bulk command are the business of `todo_commands`. One reset puts every position of the checkpoint before and after it.
`MaxEvents`, `MaxResets`, `MaxCommits` and `MaxOpens` are the counters that are bounded; all appear as
guards. Deadlock is checked in every run that expects to pass except `pages`, which
rests when the table has its last commit and no tab is left to open, and `account_system`, which
rests when the log is full and every handler has seen it. Symmetry is used in no run with a liveness property.

**Faulty variants.** A definition commented *Faulty variant* is used by no action; it
stands for a plausible mistake and shows, put in the place of its neighbour, that
the property it belongs to can fail. `PROJECT.json` pairs them.

### Five disagreements

- *Clear completed* (`clear_completed`). The list of completed todos is read from the
  lagging table; `DeleteTodoCommandHandler` does not look at the completed flag and
  reads its position after the fact. In the trace a todo is completed and projected,
  a bulk clear lists it, another request reopens it, and the clear deletes the
  now active todo.
- *Reset under a running server* (`online_reset`). `-reset-read-models` is a process of its
  own that empties tables and checkpoints; the running server's handlers keep
  their subscriptions, and the next checkpoint they write skips everything the
  reset meant to replay. With the server stopped (`event_handler`, `todo_system`) the reset
  is safe.
- *Reset tokens* (`reset_tokens`). The event holds the token encrypted, the projection
  reads it as a plain string: no verification row is written and no password can be reset.
- *Rows after a deletion* (`deletion_leftovers`). The deletion does not wait for the
  projections, which have checkpoints of their own. In the trace a callback that has read the key
  before it was destroyed commits its row after `AccountDeleted`.
- *A replay stops at a deleted account* (`replay_stuck`). The key of the account is gone, its
  registration cannot be decrypted, and the projection of users retries it for ever.

### Fairness

`Fairness` in `EventHandler`: weak for what Go and the operating system do by themselves
(a started process starts its loop, timers fire, a cancelled worker ends, a
transaction commits or rolls back, a stopped server exits and is started again).
Strong for lookup and subscription, receiving, the begin and the commit of
transactions and the notification of the *current* worker: each of them may fail
any number of times, the code retries without limit (`MaxEventRetries` -1, the `for` of
`run`), and what is tried again and again succeeds now and then. Without that
assumption a database that is always locked keeps every handler behind, whatever
the code does. No fairness is assumed for requests, for crashes or for resets.
One exit is taken not to happen: `run` returns for good on an error that is `context.Canceled`
(`event_handler.go:139`) even if its own context lives. No call it makes is given a context of
another origin, so the store or the database would have to answer `Canceled` by itself; a handler
that met it would stand still until the next start.

In `AccountSystem`, `DeletionFairness` is strong for each call of `account_deletion`, which is
retried for ever and in which every call may fail (`DeletionFails`) any number of times;
`AuthFairness` says the same of `auth_user_projection`, about the events after the last one it handled: a callback repeated for ever is no progress. In `ViewStream` the steps of
a stream are weakly fair, refresh and patch each on its own: Go's `select` chooses at random
among what is ready. Nobody has to open, close, request or commit.

## Proofs

Everything here is proved for all values of the constants (any number of users, todos,
requests, workers, streams, any events, any bound), from the assumptions the modules declare
about their constants and nothing else, except where a theorem names one more. The
declared ones say that bounds are natural numbers, flags are Boolean, the values that stand for
"none" (`NoTitle`, `NoRow`, `NoWorker`, `Null`) are not values, that `NoBio`, the empty string, is a
bio, that a blank name is no name to change to and every username is one (`NameAssumption`), that a code is read at least once, and which
handlers and which command slot `AccountSystem` has.

| Module | Theorem | Property |
| --- | --- | --- |
| `TodoCommandsProofs` | `TypeCorrect` | `TypeOK` |
| | `DecisionsAlwaysHold` | `DecisionsHold` |
| | `StreamsAreOwned` | `OwnStream` |
| | `DeletionIsFinal` | `NothingAfterDelete` |
| | `TogglesAlwaysAlternate` | `TogglesAlternate` |
| | `RenamesChangeTitles` | `RenameChangesTitle` |
| `TodoContextProofs` | `LatestAlwaysSuffices` | `LatestPerTypeSuffices` |
| `TodoLifecycleProofs` | `LifecycleImplemented` | `ImplementsLifecycle` |
| `EventHandlerProofs` | `TypeCorrect` | `TypeOK` |
| | `NothingSkipped` | `NoEventSkipped`, if `OnlineReset = FALSE` |
| | `AlwaysInOrder` | `HandledInOrder`, if `OnlineReset = FALSE` |
| | `NeverRegresses` | `CheckpointNeverRegresses`, if `OnlineReset = FALSE` |
| | `DeliveryImplemented` | `ImplementsDelivery`, if `OnlineReset = FALSE` |
| `AccountsProofs` | `TypeCorrect` | `TypeOK` |
| | `IdentityIsTakenOnce` | `IdentityTakenOnce` |
| | `OnceForEachSubject` | `OncePerSubject` |
| | `OnlyTheNewestCode` | `NewestCodeValidated` |
| | `KeysAlwaysFollow` | `KeysFollowDeletion` |
| | `UpdatesAlwaysChange` | `UpdatesChange` |
| | `OnlyOneLiveCode` | `OneLiveCode` |
| | `DecisionsAlwaysHold` | `DecisionsHold` |
| | `LifecycleImplemented` | `ImplementsAccountLifecycle` |
| `ViewStreamProofs` | `TypeCorrect` | `TypeOK` |
| | `NoCommitIsMissed` | `NoCommitMissed` |
| `TodoSystemProofs` | `SystemTypeCorrect` | `SystemTypeOK` |
| | `SystemKeepsStreams` | `DecisionsHold`, `OwnStream`, `NothingAfterDelete`, `TogglesAlternate`, `RenameChangesTitle`, of the system |
| | `SystemReadsLatest` | `LatestPerTypeSuffices`, of the system |
| | `SystemFollowsLifecycle` | `ImplementsLifecycle`, of the system |
| | `RowsAreGrounded` | every row was created by its user, and completed if it is shown so |
| | `ClearSparesOthers` | `ClearDeletesOnceCompleted` |
| | `SystemRunsHandler` | a behaviour of the system is one of `EventHandler` |
| | `OneMoment` | `ListIsOneMoment`, if `OnlineReset = FALSE` |
| `AccountSystemProofs` | `AccountSystemTypeCorrect` | `AccountSystemTypeOK` |
| | `SystemKeepsAccounts` | `IdentityTakenOnce`, `OncePerSubject`, `NewestCodeValidated`, `KeysFollowDeletion`, `UpdatesChange`, `OneLiveCode`, `DecisionsHold`, of the system |
| | `SystemFollowsLifecycle` | `ImplementsAccountLifecycle`, of the system |
| | `SignedOutForGood` | `SignInEndsWithDeletion` |
| | `TablesShowTheLog` | `TablesShowLog`, if the three projections are among the handlers |

**Todo commands.** The inductive invariant is `IInv == TypeOK /\ DecisionsHold /\ LogShape`,
`LogShape` being the four statements about the log. None of those four is inductive: a save
appends to the log although it was decided on an older log. `DecisionsHold` bridges the gap. It
is inductive itself because a step either appends no event of the request's
stream, and then the predicates on that stream do not change (`StreamUnchanged`,
`LatestUnchanged`), or it does, and then the save conflicts from then on
(`AppendConflicts`). So at the save the decision holds on the present log, and from
there each part of `LogShape` is about one appended event (`CreationKeepsShape`,
`CommandKeepsShape`, one case per command). `OwnStream` is needed by the other three: their
statements speak of a todo's events, the handlers see those of one user, and
ownership says that these are the same (`LiveStream`).

**The contexts.** `LatestPerTypeSuffices` compares two folds, over the latest events and over the whole
stream. `Summary` says without recursion what each field of a context is: it is set by the last event that
touches it (`LastOf`). `SummaryHandles` shows that handling one event more takes the summary of a set of
positions to that of the set with the event; `FoldIs`, that the fold is therefore the summary. That
step is an induction over the log. The induction theorems of the library take an operator, which the provers cannot
instantiate; the least element of a set of naturals does the same work (`NatMin`, `NatAll`). A latest event of each
type is all `Summary` looks for (`LatestHasLast`), so both folds have one summary. The result holds
of every well-typed log and so of both specifications.

**The life of a todo.** The refinement needs to know what the mapping reads off the log.
`CommandsInv` adds to `IInv`, as `TitlesFit`, that creations and renames, and only they, carry a title, so that a
todo with events has exactly one present title (`TitleIs`) and one owner (`OwnerIs`).
A step that writes appends either a new todo or an event whose decision holds (`Written`);
`LiveState` says what that decision means for the state of the todo, and one case per
command shows the step to be the one of `TodoLifecycle`. Other todos keep their events
(`OthersStay`).

**Event handler.** The danger is the worker of an ended subscription, which nobody waits for.
The invariant (`DeliveryInv`) is that at most one worker is inside a transaction, that it works on
the event after the checkpoint or on the one last delivered, and that the current worker,
whose subscription read that same checkpoint, can only have received the same event; once the current worker begins a
transaction no late one is left. So each commit of a callback is the next delivery or
a repetition of the last, which is what `Delivery` allows, and each checkpoint is the last
delivery. A repetition is a stuttering step of the mapping, so a lemma of its own
(`CallbackDelivers`) shows it to be allowed. A reset under a running server breaks it, as `online_reset` shows; hence the
assumption `OnlineReset = FALSE` of four of the theorems. `TypeCorrect` needs none.

**Accounts.** Each event has a `Boundary`: the events that forbid it (`Forbids`) and those its
decision depends on (`DependsOn`). Every command saves under a query that covers its
boundary, so a command in flight either conflicts already or its decision still holds
(`Decided`). This is `RequestInv`; with it the statements about the log (`Promises`)
follow from one appended event each, and `DecisionsHold` says it in the words of the commands:
`StillRight` asks again what each of them asked (`DecidedIsRight`). `Grounded` says what a command in flight knows of the log
(its user is registered, its code or token was generated), `Rooted` the same of the events
themselves, those of names, bios and images included, and that a query which finds anything has a last event is carried as an invariant, because
it would need induction over data otherwise. Creation and destruction of keys are the only
places where two commands meet outside the log: an id is in the hands of one
registration at most (`OneRegistration`). The refinement of `AccountLifecycle` is one case per event type.

**Pages.** `Lists`: a stream has a list from its first read on, and has put one before it watches. `Told`: no more messages wait than were
published, and none for a page that does not subscribe. `Watches`: a watcher's queue ends with the value
that is stored. `Current`: a page whose list is older than the table has a
message, an update or a call before it that will list again. Only the last is the property; it
needs the other three to survive a step of the other tabs.

**The todo list.** A step of a request in `TodoSystem` is one of `TodoCommands` as soon as the list a
bulk command starts from is one that some log could have given: `Grounded` says that every row
has a creation by its user in the log, and a completion if it is shown completed. Grounding is all a lagging, even a
reset table keeps, and all `SystemKeepsStreams` and `SystemFollowsLifecycle` need. `ClearSparesOthers` carries it on to
the save: what a clear has still to do, and the delete it has loaded, was listed from a grounded row, and
the log never loses the completion. A step of the projection is one of
`EventHandler`, whose proofs are taken over through an instance (`HP`) once its assumptions
are shown to hold (`HandlerAssumptions`); a save is a step of it too, an event appended.
`PageInv` then says the table is the log at `Delivered`, the position of the last committed callback:
`Shows` describes a row by the events of its todo up to there. By the handler's
invariant a callback is for the next event or repeats the last one, and
`ShowsProjected` shows both to end at the position of that event. That an insert does nothing on a conflict matters only
for the repetition; that updates do not compare positions is
harmless because the order is right. `Delivered` is the checkpoint or the event after it, which is
`ListIsOneMoment`. A reset empties table and checkpoint together, and with the server stopped nobody
is left who remembers a position; hence `OnlineReset = FALSE`.

**The account tables.** Every step of `AccountSystem` is a step of `Accounts`, leaves its variables alone or
ends all commands (`Stops`), which the invariant of `AccountsProofs` survives; so the promises and the refinement hold of
the system. `TablesInv` gives the types: rows, verifications, admitted requests, positions, and
what the command of the deletion is about.

*Signed out for good.* A row that the deletion removed would come back if `auth_user_projection` delivered
the registration afterwards. It cannot, until a reset, because whoever could ask for
the deletion has a registration that was delivered long ago. `SessionInv` follows this from the table to the log: a verified row
(`VerifiedPassed`), an admitted session (`AdmittedPassed`), a command in flight
(`RequestsPassed`) and an event a signed-in user wrote (`LogPassed`) each mean that the projection has
*passed* the registration of the user. `DeletionClears` says the row is gone once the deletion is past its first call, and
`DeletedGone` that it stays so after the last. No other handler inserts the row, and without a row the foreign key admits no session. If
`auth_user_projection` does not run there are no rows at all, a case of its own in the proof.

*The tables show the log.* `ShowInv` says of every user who has not asked for deletion what each column
is: whether the log up to the handler's position has an event of the column's types
(`FoundBy`), and which is the last (`LastBy`). One handler writes each column, so the step of another leaves it alone,
and a callback moves its own columns from one position to the next (`PastGrows`). An update finds no row to
change only if its event came before the registration, which `Rooted` excludes. The column of the image is
written by another handler than the one that inserts the row: until a reset, whoever
uploads an image is passed already (`LogPassed`); after one the property does not speak of the column, as
the hazard at `auth_user_event_handler.go:48` explains.

Only model-checked is what asks for progress: `CatchesUp`, `ListBecomesCurrent`, `DeletionCompletes`,
`PagesAgree` and `PageBecomesCurrent`. Liveness under fairness is out of the prover's reach and stays with TLC.
Every invariant and every step property of the passing runs is proved. That `AccountSystem` uses `Delivery` where `TodoSystem` uses the whole handler is
justified by `DeliveryImplemented`; that the two compositions fit into one system is not stated.

## Not modelled

- Rate limits: one map under one mutex, shared with nothing. The time is read before the lock,
  so that a request which waits can open a window that ends early; no line of the
  repository promises what a window guarantees under contention.
- Todo rows and media files of a deleted account. They go in the same call as the
  rows that are modelled, and the todo projection lags in the way the others do. Nothing is published
  when a deletion removes rows, so what the pages are promised (`PageBecomesCurrent`) is about
  commits that are followed by a message, those of the projections.
- A handler that is stopped and started again inside one process: the server starts each once
  and stops it at shutdown.
- Which password is compared: a password is there or is not. The expiry of reset tokens and of
  sessions, a second session of one user, and `LoginAttemptRecorded`, which no query asks for.
- The memory view store, which only runs without NATS (its policy on a full buffer is the faulty
  variant `OfferIfRoom`), and the goroutine a closed NATS watcher may leave behind.
- Retry delays: only that they end. The exponent of the delay grows without limit, which a
  property about steps does not see.
- Mail and files, which leave the system: that they are sent before the event that says so is
  saved is the order of calls in `Accounts`, and a hazard without a property.
- Data: titles are a set of valid ones (`validateTitle` and `commandlimits` reject the others
  before anything happens), ids are fresh, times, metadata, order of the list and
  formatting are left out.
- Orisun, NATS and SQLite beyond what the code relies on them for.
- Views, configuration, index catalogue, metrics, logging, cryptography.

## Plan

Done: all modules above, with the theorems listed. What is left, in this order:

1. One system of all handlers and all features, with `AccountSystem`'s use of `Delivery` replaced by the
   handler itself; today `DeliveryImplemented` is the link between the two compositions.
2. `TodoSystem` under a deletion: the todo rows of a user who is deleted, with the lag of the
   todo projection, and a second session of the user.
3. `RateLimit` (window and sweep as actions over time) and `RetryDelay` (the delay as a function of
   64-bit width).

## Running

    tlc -workers 2 -config todo_commands.cfg MCTodoCommands.tla
    tlapm TodoCommandsProofs.tla

and so for every run of the table and every module that ends in `Proofs`. Every run finishes
within three minutes on two workers. `AccountSystemProofs` takes about four minutes, every other
module of proofs about one.
