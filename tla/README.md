# A formal model of the restaurant MCP server

TLA+ specifications of the server in `src/` (Go): a Model Context Protocol
server that answers questions about dishes from a real stock and lets cooks and
admins adjust that stock, over stdio or HTTP, on one SQLite file that several
processes may share. Every definition is translated from the Go code; the table
`map` of `PROJECT.json` names the lines each one stands for.

Contents: [the system](#the-system), [the modules](#the-modules),
[the runs](#the-runs), [fairness](#fairness), [what is proved](#what-is-proved),
[what the code does otherwise than its docs say](#where-code-and-docs-disagree),
[what is not modelled](#what-is-not-modelled), [the plan](#the-plan).

## The system

| part | code | state | operations |
|---|---|---|---|
| SQLite repository | `internal/storage/sqlite.go`, `seed.go`, `openRepository` in `cmd/server/main.go` | the tables `ingredients`, `inventory`, `inventory_movements`; a pool of one connection per process | `OpenSQLite`, `IsEmpty`, `Seed`, `ApplyMovement`, the reads |
| in-memory repository | `internal/storage/memory.go` | the maps and the counter of movements, behind one mutex (tests) | `ApplyMovement`, the reads, `AddDish` |
| repository contract | `internal/storage/repository.go`, `internal/domain` | the stock, the audit trail | what `ApplyMovement` promises |
| units | `internal/domain/units.go` | none | conversion to base units, rounding, int64 arithmetic |
| dish queries and searches | `internal/tools/handlers.go` | locals of a call | `get_dish_availability`, `get_recipe_details`, `search_dishes`, `search_ingredients` |
| adjustment tool | `internal/tools/handlers.go`, `registry.go`, `schemas.go`, `internal/domain/roles.go` | locals of a call | the role gate, `adjust_inventory` |
| rate limiter | `internal/httpmcp/ratelimit.go` | a bucket per client | `clientKey`, `Allow`, `cleanup` |
| HTTP sessions | `internal/httpmcp/server.go`, `sessionid.go` | the map of sessions, each session's lock, `lastSeen` and handshake | POST, DELETE, the reaper |
| HTTP server process | `serveUntilSignal` in `cmd/server/main.go`, `ListenAndServe` | channels of signals and of the listener's result, the deadline | start, signals, shutdown with grace |
| MCP lifecycle | `internal/mcp`, `internal/jsonrpc` | `initialized`, `confirmed`, the version | `initialize`, `notifications/initialized`, the gate of the tools |
| stdio transport | `stdioLoop` in `cmd/server/main.go`, `internal/jsonrpc` | one loop, one session, the buffer of the responses | a line in, a response out |
| credentials and configuration | `internal/auth`, `main`, `runHTTP`, the `Origin` check | the flags, the environment, the tokens, read once | token to identity and role; refusing to start |

How they interact. `main` reads flags and environment, opens and seeds the
repository, and starts one transport. The transport (stdio or HTTP) parses a message, finds the
session it belongs to and hands the message to the dispatcher, under the
session's lock. The dispatcher applies the lifecycle's gate and calls the tool;
the registry checks the role of the session's user; the handler makes one or
several repository calls. A repository call takes the only connection of its
process, and an adjustment also the one write lock of the file. Beside them run
the reaper (it removes idle sessions and forgets idle buckets), the goroutine
of the listener, and other processes on the same file. A signal ends the HTTP
server: it stops listening, waits for the requests in progress as long as
the grace lasts, and then closes the repository.

What is hard here, and what makes each part correct:

- *Repository.* Two statements change the data (movement and stock), any of
  them may fail, the process may die between any two, two processes may start
  on a new file at once and both seed it. Correct: the committed stock is always
  what the committed audit trail says, the trail has no gaps and no wrapped
  arithmetic, a key is recorded once, what was acknowledged stays on file, and a
  retry is answered with the first movement.
- *Queries.* Each ingredient is its own repository call, so the stock may change
  in between; errors are turned into absences (an empty recipe, a quantity of
  0). Correct: nothing is promised that no stock allowed, and an answer names
  what limits it; what a search lists was in stock during the search.
- *Adjustment tool.* The role, the arguments and the movement are handled in
  separate steps while other calls use the same key. Correct: only authorised
  users move stock; a report shows the caller's own movement.
- *Limiter.* The clock is read before the lock; idle buckets are forgotten; the
  client may be named by a header. Correct: no span of time grants more than
  burst plus rate, and `Retry-After` is enough.
- *Sessions.* A session is looked up under one lock and used under another,
  while it may be deleted or reaped. Correct: a tool runs only as its caller,
  in a session this caller has opened itself, an ended session serves nobody, a session in use is not reaped.
- *Server process.* A signal, the end of the listener, the end of the grace and
  the last answer come in any order. Correct: nobody is cut off within the
  grace, and nothing outlives it.
- *Stdio.* The client decides the order of the messages and when it reads.
  Correct: each request is answered once, in order, by the handshake so far, and the answer
  arrives while the client waits for it.
- *Configuration.* Flags, variables, credentials and addresses combine. Correct:
  nobody is served in a name, or on an address, that nobody configured.

## The modules

    Quantities --- Movements --- Inventory ................. the contract
                       |           ^   ^   ^
                       |  refines  |   |   | INSTANCE
                       +-- SqliteRepository |   AdjustTool
                       +-- MemoryRepository (refines)
    Quantities --- DishQueries
    Lifecycle  --- HttpSessions --- HttpServer
               `-- Stdio ---.
    Credentials ------------+------ Startup
    RateLimiter

| module | models | its state, in the code |
|---|---|---|
| `Quantities` | `units.go`, the switch on the operation | none. `MaxInt` is the largest int64; `Wrap` is two's complement; `ToBaseUnits` is the *set* of values Go's conversion of a float64 may give, since Go leaves it open when it does not fit |
| `Movements` | the request and the row of `inventory_movements` | the constants of the inventory: ingredients, opening stock, requests |
| `Inventory` | the contract | `stock`, `ledger` (append only), `request`, `reply` of each caller. `Record` is the only step that changes stock and ledger; `Fail` and `Lose` tell the caller nothing, so it may retry |
| `SqliteRepository` | `OpenSQLite`, `IsEmpty`, `Seed`, `ApplyMovement` | committed tables, the writer's view of them, `proc` (how far a process has started), `pc` (the statement a call is about to run), the locals `previous` and `seq`, `reply`. One action per SQL statement |
| `MemoryRepository` | `ApplyMovement` of `memory.go` | `inventory`, `movementsByKey`, `movementSeq`; `made`, what a call has stored and not yet returned. One step per call under the mutex, one for its return |
| `DishQueries` | `handleGetDishAvailability`, `handleGetRecipeDetails`, the two searches, the reads of `sqlite.go` | `stock`, `conn` (who holds the connection), the locals `recipe` and `reads`, `answer`; history: `moments` (the stocks there were during the call), `misread` (an error was taken for an absence) |
| `AdjustTool` | `Registry.Call`, `handleAdjustInventory` | the state of `Inventory`, and per call `pc`, `args`, `report` |
| `RateLimiter` | `ratelimit.go`, the `Retry-After` of `handleMCP` | `limits` (the options, never changed), `buckets`, the time each handler read before it had the lock, the key of its client, `clock`; history: `granted`, `promised`, `forgotten`, `late` |
| `Lifecycle` | `internal/mcp/lifecycle.go`, the dispatcher's gate | a record per session and what each message does to it |
| `HttpSessions` | `handlePost`, `resolveSession`, `newSession`, `handleDelete`, the reaper | `sessions` (the map), `session` (the objects, which outlive their entry), per handler `pc`, `req`, `sess`; history: `deleted`, `gone`, `found`, `heard` (who sent which message of the handshake to which session), `ran` |
| `HttpServer` | `serveUntilSignal`, `ListenAndServe`, `startReaper` around `HttpSessions` | `main` (the next step of the main goroutine), `signals` and `errs` (channels of capacity 1), `listener`, `reaper`, `stopping`, `deadline`, `exit`; history: `signalled`, `cut` |
| `Stdio` | `stdioLoop`, `writeMessage`, the kinds of messages of `internal/jsonrpc` | `next` (lines read), `loop`, `lifecycle`, `out`; of the client: `input`, `closed`, `taken`, `gone` |
| `Credentials` | `internal/auth/tokens.go`, `identityFromEnv`, `IsLoopback`, the origins | none: operators on texts that are split into their parts |
| `Startup` | `main`, `runHTTP`, `runStdio`, `authenticate`, the `Origin` check, on top of `Stdio` and `Credentials` | `config` (flags and environment), `phase`, `outcome` of the last HTTP request |

`MC*` modules hold the small instances, `*Proofs` modules the theorems. Operators
whose comment starts with "Mutant" are plausible bugs of the definition that
follows them: `PROJECT.json` pairs each checked property with one that breaks it.

SQLite, `net/http`, the scheduler and the clients are external and modelled from
how the code uses them. `BEGIN IMMEDIATE` takes the file's one write lock or gives up
(`busy_timeout`); the writer works on a view of its own; COMMIT makes the view
durable (and may still report an error), everything else discards it. `http.Server.Shutdown` refuses new
connections and returns when every request is answered or its deadline has
passed; `Close` takes the connections and waits for nobody. A pipe holds a few
responses and then blocks its writer.

`MemoryRepository` has no run of its own. It has no fault, no lock to wait for and no
liveness worth asking about: that it keeps the contract is a theorem, for every
instance. The tests of the tools run on it, so it is worth knowing that it makes the
same promises as the database, and where it does not: it leaves the user of a
movement empty where `sqlite.go` writes "unspecified" (`MovementMade`;
the theorem has the premise `NamedRequests`).

## The runs

Eight runs pass; the four marked "violation" show a disagreement with the docs
and must fail. `MaxInt` is 7
wherever there is arithmetic, so a handful of quantities reaches every
boundary: full, empty, one more than fits.

| run | asks | instance |
|---|---|---|
| `sqlite_safety` | does the stock always agree with the audit trail, whatever fails? does each step of the code amount to one the contract allows? | 2 processes, one call each at a time, every fault. Requests: two subtractions the stock cannot both pay, a retry of a key with another meaning that overflows, a negative quantity, an unknown ingredient, an unknown operation |
| `sqlite_liveness` | does every call end, and is a retry ever refused? | 3 calls: two share the connection of a process, the third is in another; crashes, and commits that report an error |
| `sqlite_lookup_error` | violation: a retry *is* refused when the lookup of its key fails | as `sqlite_safety`, lookups fail |
| `dish_answers` | are the answers about dishes true of the stock? do queries that share the connection ever block each other? | two queries; a dish of two ingredients, one of one, one off the menu, one without recipe, one with an unknown ingredient, one of serving 0; searches; 0 to 5 servings, so that the product overflows; every read may fail |
| `dish_rows` | violation: an error among the rows is a shorter recipe | one query, errors among the rows |
| `limiter_delays` | does a client gain anything by overtaking between clock and lock, by headers, or by a forgotten bucket? | 2 handlers and the reaper; a fast limiter, a slow one (still in debt when it is idle), none; with and without a trusted proxy; delays of 2 ticks, 9 ticks |
| `http_clients` | can a tool run in another's session, or before its caller has sent this session both messages of the handshake? | 2 identities, 2 sessions, 2 handlers, requests of every form; no time passes |
| `http_shutdown` | what do signals, DELETE, the reaper and a failing listener do to requests under way? | one identity and session, 2 handlers, the reaper, any number of signals, 4 ticks |
| `startup` | who is served, and in whose name? what does a stdio client get, whatever it writes? | every combination of host, credentials, origins, identity and `-insecure`; over stdio 4 lines of 9 kinds, a pipe of one response |
| `adjust_reports` | whose movement does a call report, and who may make one? | a cook, an admin, a waiter; one key for a quantity that is rounded and for one that overflows the conversion, every refusal |
| `adjust_schema` | violation: a negative quantity moves the stock | two calls |
| `adjust_replay` | violation: a report mixes two ingredients | two calls, three requests on two keys |

Why these bounds are enough to meet the interesting cases. Two processes are
what it takes to race for a lock; a call repeats, so two of them already make
chains of retries after failures and crashes. Every race of the code is
between two handlers or a handler and the reaper, and both are there. In the
limiter, a delay of 2 ticks lets a handler be overtaken by two refills, a
`burst` that is no multiple of `One` keeps fractions in play, and `MaxClock` is two
ticks past the time a bucket may be forgotten. `MaxGrants` and
`MaxClock` bound the history the limiter's properties count. In `http_shutdown`
sessions expire, requests take and the grace lasts one tick each, so that 4 ticks have
room for a session that expires before, during and after the shutdown;
`Signal` comes early enough for the grace to end in the instance.
`http_clients` bounds the sessions by `Ids`, as each identifier is issued once;
time and the reaper belong to `http_shutdown`. In `startup`, 4 lines are a
handshake, a tool call and one odd line anywhere among them, and a pipe of
one response is full after the first that nobody reads. `http_clients` and `limiter_delays`
use the symmetry of the handlers; no liveness is checked there (the action property `RetryIsHonoured`
names no handler).

What is worth knowing about some properties:

- `ImplementsInventory` is the refinement: a behaviour of the database, started
  and restarted by two processes, is one of `Inventory`. The stock of the
  contract is read off the rows; an ingredient that has no row yet has its
  opening stock, which is why seeding twice must not change anything.
- `RepeatedKeyNeverRefused` relates a refusal to the committed trail at that
  moment: a key on file is never refused. It holds because the key is looked up
  before the stock is compared, under the write lock (mutant `ChecksFirst`).
- `AvailableIsExact` compares with unbounded integers what the code computes on
  wrapping ones: a product that overflows may hide an ingredient from
  `missingIngredients`, and yet the dish is not offered, because
  `maximumServings` is computed by division.
- `OneChangeIsNotTorn` is how far "right now" goes. The reads of one call are not
  one transaction; a single adjustment during the call still leaves a
  `maximumServings` that was true before or after it, while two adjustments
  can leave one that was true at no moment (it stays between the worst and the
  best, `NeverUnderSold` and `NeverOverPromised`).
- `WindowBound` counts requests by the time they *came in*, over every span:
  a handler that read an older time refills "backwards" (it takes
  tokens away and moves `lastSeen` back), and so gains nothing. The exception is a
  bucket so slow that it is just full when `cleanup` forgets it: a handler that
  has read the clock before that, and then starts a new bucket with that older time,
  earns once more what the time it waited earns. `LateGain` allows for exactly that, once for each such
  bucket, and only for limiters that are slow compared with the sessions' TTL;
  the default (`Fast`) has none of it.
- `ServedSessionsSurvive` has the premise that the session was still listed when
  its lock was taken. A request that looked it up just before the reaper
  removed it is served in a session nobody can reach any more: the handler
  holds a pointer. That is in the model, and harmless to the data.
- `ToolsRunAsCaller` reads the handshake off what was sent (`heard`), not off the flags
  of the session: `session.go` fears that "la sesión de un mesero podría
  heredar el handshake de un administrador", which flags could not tell. It breaks when
  all sessions share one lifecycle (mutant `ServeShared`), as it does when
  `Ready` looks at one flag only or `resolveSession` compares no owner. It says nothing of
  two messages served at the same time; that only one handler is in a session's
  critical section is part of `TypeOK`.
- `ReportsOwnMovement` has the quantity that overflows in its run: the
  conversion gives the least integer or the largest, by platform. The least is
  always refused, the largest may be set; nothing else is ever on file.
- `CutOnlyAfterGrace` is what `README.md:346` ("A redeploy therefore never cuts an
  inventory adjustment mid-write") comes to: within the grace, no signal cuts a
  request, whether it comes before the listener, twice, or together with the
  listener's failure. After the grace, or when the listener fails (`Fatalf`
  runs nothing deferred), requests are cut; what a cut leaves on file is the
  business of `SqliteRepository`, whose `Crash` may come between any two
  statements.
- `AnsweredInOrder` compares the responses, one by one and with their verdicts, with the
  lines the client wrote, and each verdict with the handshake in the lines before it: a request under the name of a notification gets its answer, a
  notification under the name of a request none.
- `AuthorityIsConfigured` reads the configuration as its author wrote it: among
  several credentials with one token the last counts; an HTTP server without
  any serves only this machine or an author who wrote `-insecure`,
  and above a waiter only in the role `MCP_USER_ROLE` names.

## Fairness

`FairSpec` of `SqliteRepository` and `DishQueries`: weak fairness of a step that
nothing can disable (a goroutine that has what it needs runs on), strong
fairness of a step that waits for the connection. `database/sql` gives a freed
connection to a random waiter, so that none is passed over for ever. The wait
for the write lock needs none: `busy_timeout` ends it, and the call fails
(`BeginFails`; mutant `BeginWaits` shows that without it a call may never end).
Crashes are not fair: they may or may not happen. `SpecServer` of `HttpServer`: strong
fairness of taking the session's lock, because `sync.Mutex` hands itself over to
whoever has waited longest once somebody has waited a millisecond; weak fairness of the main
goroutine and of a handler's own steps. Nothing is
assumed of clients, signals, the listener or the reaper. `Spec` of `Startup`: weak fairness of the
only loop, and of the client's reads, since a client that never reads its
pipe gets no answers (it may also close it: then nothing is owed).

## What is proved

TLAPS checks these for every value of the constants: any number of processes,
calls, ingredients, recipes, clients, sessions and requests, any width of the
integers. Every invariant a passing run checks is stated by a theorem; a run shows it on
an instance first, the inductive invariants included.

- **`InventoryProofs`**. `OverflowCaught`: the sum or difference of an int64 and a
  stored quantity that wraps around comes out negative, so `ApplyMovement`,
  which compares with zero only, refuses every overflow. From `MaxInt` being a positive
  natural number, by cases of the operation. `InventoryCorrect`: the contract implies
  `KeysUnique`, `StockMatchesLedger`, `AuditChain`, `LedgerExact`. The
  invariant is inductive as it stands: `Record` appends one movement that starts
  where the stock is.
- **`SqliteRepositoryProofs`**. `RepositoryInvariant`: `Spec => []IInv`.
  None of the properties is inductive by itself, since what a call is about to
  write depends on what it read some statements ago. `IInv` says what holds
  between them:
  `TypeOK`; `CallsServed` (a call in progress belongs to a process that is up);
  `Seeded` (a process that is up implies seeded tables); `OneWriter` (at most one
  call or seeding process is in a transaction, so nobody's reads age);
  `ViewIsCommitted` (without a writer, the view is what is committed);
  `StepsKnow` (at each statement, how the locals and the view relate to the
  committed rows: at `insert`, `previous` is the committed stock and the
  key is not on file; from `upsert` on, the writer's view of the trail
  has exactly this movement more, and at `commit` its view of the stock has it too);
  `AcknowledgedIsOnFile` (a movement shown to a caller is the committed row it was shown from).
  `RepositoryRefinesInventory`: with `IInv`, every step is one of the contract
  or a stutter; COMMIT is `Record`, a crash is `Lose`. `RepositoryCorrect`
  carries `InventoryCorrect` over to the rows: the stock, the chain, the keys and the
  arithmetic of the committed tables, and what was acknowledged. `RetryIsNeverRefused`: as long as
  lookups do not fail, `RepeatedKeyNeverRefused`.
- **`MemoryRepositoryProofs`**. `MemoryRefinesInventory`: the maps refine the same
  contract. The ledger is not in the state of the code; it is the map of movements
  ordered by number (`LedgerOf`). The invariant: numbers 1 to `movementSeq` are each that of exactly one
  movement, under its own key (`Numbered`), and what a call has stored and not returned is what it
  asked for (`MadeIsOwn`). Then `Store` appends, and is `Record`. `MemoryLedgerCorrect`:
  so the maps have what `InventoryCorrect` promises.
- **`AdjustToolProofs`**. `ToolKeepsContract`: the handler calls the repository as
  the contract wants. `AuthorisedMovesOnly`: every movement on file is in the
  name of a user whose role may adjust. The inductive invariant says that a call past the gate is of such
  a user, and that a pending request is in that user's name. `ReportsAreTrue`:
  `ReportsOwnMovement`. `ReportInv` follows the quantity: what the repository was
  asked for is one of the values the conversion may have made of the arguments
  (`AskedFor`), and an answer "recorded" shows that very request (`Answered`). A
  quantity too large for int64 may have become the least integer, which no
  movement on file can have (`LeastNeverMoves`), so what is on file is the
  argument rounded, or the largest integer when it does not fit (`ConvertedIsNearest`).
- **`DishQueriesProofs`**. `AnswersAreExact` (`AvailableIsExact`, `NamesBottleneck`,
  `ShortagesAreReal`), `SearchesListAll`, `SellsWhatThereIs`, `PromisesAreKept`,
  `AdjustmentDoesNotTear`. The core is arithmetic: `q \div p` is the number of servings
  that `q` allows (`Division`), so `maximumServings` is right whatever the products do. The
  invariant `DInv` follows a query through its reads: the recipe so far is a beginning of the
  rows (`Listed`), each quantity kept is one its ingredient had at a moment since the question, or a 0
  that stands for an error (`ReadWell`), the stock of now is among those moments, and
  if there were two they differ in one ingredient (`Witnessed`); an answer was made of just that
  (`Answered`). Two theorems have a premise, because without it the code does otherwise:
  `PromisesAreKept` excludes errors among the rows of a recipe (the disagreement 2
  below), `AdjustmentDoesNotTear` that a recipe lists an ingredient twice (`ListedOnce`, the primary key
  of `recipe_items`).
- **`RateLimiterProofs`**. `LimitHolds`: `WindowBound`. A bound on every span of
  time is not inductive, since a bucket knows nothing of spans. What helps is the level of a bucket, its tokens less what the
  time up to its `lastSeen` has earned: a refill never raises it, whether its time is
  later or earlier than `lastSeen`, and a grant lowers it by one token. So for every time
  `s`, the level and the tokens granted to requests that came in from `s` on
  do not exceed the burst less what `s` has earned (`TakenSince`). The first grant
  since `s` establishes it, because no bucket holds more than the burst. A bucket that was forgotten
  counts as full at the time it went (`FullAt`): when limiters are `Fast`, at the earliest time
  anybody may still have read; otherwise the difference is what `LateGain` counts.
  `RetryAfterIsKept`: `RetryIsHonoured`, from `Promises` (at the time promised, the level
  has a token). `Debts` bounds how far a bucket is below nothing: by what the longest delay
  earns.
- **`HttpServerProofs`**. `OrderlyShutdown`: `CutOnlyAfterGrace` and `StopsWithinGrace`.
  The invariant follows main: until the listener's goroutine is started nobody is in
  progress (`Started`); a handled signal is taken before time passes, so the deadline is
  the first signal plus the grace; while main shuts down the clock does not pass it; at
  `return` nobody is in progress or the grace is over (`ShuttingDown`).
  `SessionsIsolated`: `ToolsRunAsCaller`. A handler looks a session up under one lock and
  uses it under another, so `SInv` says what it still knows in between: the
  session was issued, is its caller's, and had not ended when the request came in
  (`HandlersSound`); and each flag of a session's handshake stands for a message its owner sent
  to it (`SessionsSound`), so a tool that `Ready` lets through was called by who sent both. `SessionsEndOnce`: `EndedStaysEnded` and `ServedSessionsSurvive`; the second
  needs that a handler that serves has just written `lastSeen` and is alone with the session,
  and that the reaper's time is not later than the clock (`ServiceSound`). `SessionsIsolated` is
  about `HttpSessions` alone, `SessionsEndOnce` about `HttpServer`, whose steps are those of the
  handlers, of time, of the reaper and of main: what it says holds through the shutdown.
- **`StartupProofs`**. `ServedAsConfigured`: `AuthorityIsConfigured` and `OriginIsConfigured`;
  `Admissible` adds that a server that listens was allowed to. `RequestsAreAnswered`:
  `AnsweredInOrder`. The property tells the handshake from the lines the client wrote, the loop keeps two
  flags: `LifecycleIsRead` says that the flags are what the lines read so far make of them, and
  `Responses` that those written are the answers to the requests among them, without the one
  that is being written.

The assumptions are those named in the modules; TLC evaluates each of them on the
instances. Most fix the shape of the data (`CatalogueAssumption`, `RequestsAssumption`,
`MenuAssumption`, `QuestionsAssumption`, `StdioAssumption`) or of the instance (`ProcessAssumption`).
Four say something of the surroundings: `MaxIntAssumption` (integers are two's complement of some
width), `RateAssumption` (nobody waits for the limiter's lock as long as it takes to forget a bucket),
`TimeAssumption` (the same of requests and sessions), `ProxyAssumption` (with `-trust-proxy`,
the proxy in front names the client; without it nothing is assumed of headers).

Model-checked only: liveness. Fairness and ENABLED are out of the prover's reach, so
that every call ends (`sqlite_liveness`), that queries do not block each other, that every
HTTP request is answered unless it is cut off, and that every response over stdio is received
stay with TLC. That the server ends is not stated as liveness: `StopsWithinGrace`, a safety property
and a theorem, says it has ended once the clock is past the grace, and rests on main running within the
tick that wakes it (`TimePasses`). So do the runs that show a
disagreement.

## Where code and docs disagree

Each is a run that TLC must find violated, quoted in `findings`.

1. `scanMovement` (`sqlite.go:352`) takes every error for "no such key". A retry
   whose lookup fails goes on as a new adjustment and may be refused for want
   of stock, though it has succeeded. The UNIQUE constraint keeps the data right
   (`KeysUnique` holds with that fault).
2. `RecipeForDish` (`sqlite.go:262`) ignores `rows.Err()`: a recipe cut short is
   listed as complete by the tool that is the source for allergens.
3. Nothing evaluates the JSON Schemas: a negative quantity reverses an
   adjustment.
4. A key used again with another ingredient reports the first movement under
   the second ingredient's unit.

Met while modelling, and kept out of the properties by an explicit premise: a
`maximumServings` torn by two adjustments; a limiting ingredient left out of
the answer when its requirement overflows (`NamesBottleneck` is stated for
requirements that fit); a request served in a session that the reaper has just
removed.

## What is not modelled

- Tokens are counted in `float64` by the code, exactly in the model.
- `lastSeen` is written and read without a common lock. A time compares by one
  machine word on the platforms the server is built for, so the reaper reads
  the time before or after the write.
- Taking a session's lock and writing `lastSeen` is one step.
- JSON that does not parse is one case of "invalid params" for a tool, and one line
  ("garbage") over stdio. Numeric ids above 2^53, which the code rounds, are among the hazards.
- A database error in `adjust_inventory`'s own lookup of the ingredient is
  reported as an unknown ingredient; it moves nothing and is not in `AdjustTool`
  (the same confusion is in `DishQueries`).
- The refusal of `adjust_inventory` reads the stock again for its wording only.
- What a search matches is a constant (`Matches`). SQLite's `lower()` knows ASCII letters only and
  Go's knows all: a name with a capital letter outside ASCII is not found; see the hazards.
- `AddDish` and the reads of the in-memory repository: single lookups in maps between two steps.
- The check of the `Content-Type`, `handleHealth` and the verbs that are refused:
  functions of one request, without state. Texts that are split (credentials, origins)
  are the sequences of their parts.
- What `net/http` does with a connection before and after the handler. In `HttpServer`
  a request is in progress from its handler's first step to its answer.
- `-version`, the usage text, the wording of logs.

## The plan

Written so far, in this order: `Quantities`, `Movements`, `Inventory`,
`SqliteRepository` with its proofs; `DishQueries`; `RateLimiter`; `Lifecycle` and
`HttpSessions`; `AdjustTool` with its proofs; the searches, slow limiters and `clientKey`;
`HttpServer` with its proof; `Stdio`, `Credentials` and `Startup`; `MemoryRepository` with its proof;
then the proofs about `RateLimiter`, the sessions, `DishQueries`, the reports of `AdjustTool` and `Startup`.

Next:

- an abstract session service, in which a request finds its session, checks its caller and
  is served in one step, and `HttpSessions` shown to implement it where sessions do not end under a request;
- the progress of one call without fairness: from every statement of `ApplyMovement`, a step that
  brings it nearer its end is possible, as an invariant instead of ENABLED;
- lemmas about `Round` and `BaseFactor`: converting to base units is monotone, and exact for
  whole numbers of base units.
