# A verification project for quickdb-studio

quickdb-studio is a local web application: a Go server that keeps a list of
MySQL and Redis connections in one JSON file and queries the databases
read-only, and a React page that shows trees, tabs and results.  The modules in
this directory model the parts of it whose behaviour depends on the order of
steps: what happens when handlers overlap, calls fail, processes die, answers
arrive late and storage is full.

    tlc -config ConnFileAtomic.cfg MCConnFile     # model-check one run
    tlapm ConnFile_proofs.tla                     # check the proofs of a module

PROJECT.json names every run, its module and its configuration, the source
lines each definition stands for, and the theorems.

## 1. The system

### Server

| component | state | operations | what makes it correct |
|---|---|---|---|
| Connection file (`internal/storage/store.go`) | `connections.json`, a mutex per process, temporary files | `LoadConnections`, `SaveConnections` | atomic towards its callers and towards crashes; no temporary file left; no call stuck |
| Legacy migration (`internal/storage/paths.go`) | the old and the new configuration directory | `BaseDir`, `migrateFile` at every start | the old list is never lost |
| Connection API (`internal/httpapi/handlers_connections.go`, `connutil.go`, `handlers_nav.go`) | what each handler goroutine has loaded | create, update, delete, list, tree, `loadConn` | identifiers unique, passwords not mixed up, each change is the operation on one list that was stored |
| MySQL handlers (`handlers_mysql*.go`, `internal/mysqlx`) | a pool per request, the rows read so far | databases, tables, columns, table meta, query, test | the pool is closed at every return; only the server of the connection is asked; limits and flags agree, an error after some rows answers an error |
| SQL guard (`internal/sqlguard`) | none | `ValidateMySQLReadonly` | its scanners agree with the lexical rules of MySQL where both take the same pieces for comments |
| Redis handlers (`handlers_redis*.go`, `internal/redix`) | a client per request | scan, search, meta, typed reads, preview, test | the client is closed at every return, that of a failed `Open` too; a preview of two commands is consistent; every request is answered |
| Lifecycle (`cmd/quickdb-studio/main.go`) | listener, server | start, stop with five seconds of grace | what a dying handler leaves behind is legal |
| Token, router, static files | one token | compare, route | nothing behind the token is done without it |

### Page

| component | state | operations | what makes it correct |
|---|---|---|---|
| Redis keys tab (`webui/src/workspace/tabs/RedisKeysTab.tsx`) | pattern, cursor, pages, spinner, requests in flight | scan, more, Enter, tags, pins | pages in order, the keys are those asked for, the spinner stops |
| Recent patterns, history, favorites (`webui/src/storage`) | three lists in `localStorage`, and their old keys | list, push, pin, remove, clear | nothing twice, pins and favorites kept, the oldest dropped first |
| MySQL query and data tabs (`MysqlQueryTab.tsx`, `MysqlDataTab.tsx`) | text, result, page, history and favorites | run, turn and resize pages, drawers | a result is complete or says that it is not; the page shown exists |
| MySQL schema tab (`MysqlSchemaTab.tsx`) | sub-tab, columns, indexes, DDL | refresh, switch, load the DDL once | the sub-tab that was asked for is shown, and is not blank; what is shown is as new as the last refresh |
| Redis key tab (`RedisKeyTab.tsx`) | value pages of one key, the range of a list | load first, load more, edit the range | what is shown was there; a value read to its end is whole, and the range shown is the one that was read |
| Workspace (`Workspace.tsx`, `state.ts`) and tree (`TreePanel.tsx`) | open tabs, the active one, the tree | open or focus, close, refresh, load children | the active tab exists and is the one asked for; every tab is found in the tree |
| API client and header (`api/client.ts`, `App.tsx`) | the token under two keys, and in each window | read and move, save, clear, send | a request carries the token that was saved last, never one that was replaced or cleared |
| Connections page (`Connections.tsx`, `useConnections.ts`) | list, dialogs, spinners | create, edit, delete, test, refresh | the list is reloaded after every change; the edit form and the connection edited agree; spinners stop |

### How they interact

The page calls the server over HTTP; every request is a goroutine of its own.
Handlers share the file through one `Store`, whose mutex covers a load or a
save, not the two together.  Two servers started on different addresses
(`QUICKDB_STUDIO_ADDR`) share the file and no mutex.  Within the page, a
component's handler runs to its first `await` on the state of the last render;
what follows the `await` runs when the answer is there, whatever has happened
to the component since.  Tabs share the three lists in `localStorage`, and all
windows share the token.  Other clients of MySQL and Redis change what a handler
reads between two of its commands.

### What is hard here

A load, edit and save that another handler interrupts; a process that dies
between two system calls; `setState` followed by a call that still sees the old
state; answers that overtake one another; a list at its limit; an error that is
dropped.  PROJECT.json lists each at its line, with the properties that would
catch it or the reason why none does.

## 2. The modules

| module | models | how |
|---|---|---|
| `AtomicRegister` | what `Store` promises | a register with atomic reads and writes, kills and loss of power |
| `ConnFile` | `store.go` | `pc` of each goroutine stands between two system calls of Load or Save; `mu` is `Store.mu` of each process; `file` is what the name shows and `durable` what it may show after a loss of power |
| `ConnRegistry` | what the API promises | a table of connections; a request takes effect once, or reports an error and takes none |
| `ConnApi` | the handlers | a handler is "load", "save" or "reply"; Load and Save are one step each, which is what `ConnFile` shows of them; a body may have any type and any configurations |
| `LegacyMigration` | `paths.go` | one step per system call of `BaseDir` and `migrateFile`, called twice at each start, as `NewStore` does |
| `LocalStorage`, `RecentPatterns`, `QueryStorage` | `webui/src/storage` | operators on the lists, one per function of the source; `Among` stands for the `filter` of arrays |
| `RedisKeysTab` | `RedisKeysTab.tsx` | one action per handler; `run` is cut at its `await` into `Send` and `Answer` or `Failure` |
| `TokenStorage` | `client.ts`, the buttons of `App.tsx` | the two keys, and what each window took from them |
| `BrowserStorage` | everything in `localStorage` with what uses it | mounts, reloads, and every operation, over one storage that may be full |
| `SqlGuard` | `mysql_readonly.go` | both scanners as operators over sequences of characters, and the lexical rules of MySQL without a scanner |
| `MysqlQuery` | `handleMySQLQuery`, the query and the data tab | `stage` is where the one request of the tab stands: sent, accepted by the guard, reading rows, at the end |
| `DbHandlers` | the sixteen endpoints that ask a database, the middleware | `todo` is what is left of the handler's sequence of steps; a step goes through or answers its status, and a return runs the deferred `Close` |
| `RedisKeyTab` | `RedisKeyTab.tsx`, `handleRedisKeyPreview`, other clients | `phase` stands between TYPE, the read and the answer; other clients write between any two |
| `MysqlSchema` | `MysqlSchemaTab.tsx`, `handleMySQLTableMeta`, other clients | `metaStage` stands between the two queries of the table's meta, `ddlCalls` counts the DDL's requests; a version stands for what the table is |
| `TabPanels` | `renderTabContent` | the panel of one kind of tab is mounted: `RedisKeysTab`, `RedisKeyTab`, `MysqlQuery` or `MysqlSchema` |
| `Workspace` | `Workspace.tsx`, `state.ts`, `TreePanel.tsx`, the sub-tab of `MysqlSchemaTab.tsx` | `tabsState` by the functions of `state.ts`, of a schema tab what it was told (`leaf`) and what it shows (`active`); the tree by what is in it, expanded and being loaded |
| `ConnectionsPage` | `Connections.tsx`, `useConnections.ts`, the drawer | `calls` are what is in flight, each between two awaits of its handler |
| `App` | `App.tsx` | the workspace, or the drawer |
| `MCConnFile`, `MCConnApi`, `MCDbHandlers`, `MCTabPanels` | | instances for TLC |
| `MCPage` | what outlives the panel of a tab | `App` and `BrowserStorage`, one of which works in each behaviour (`half`) |
| `*_proofs` | | theorems (section 4); `RecentPatterns_proofs` holds the lemmas about lists that two others use |

Composition.  `ConnFile` implements `AtomicRegister`, and `ConnApi` uses a load
or a save as one atomic step that may fail, as `AtomicRegister` allows.
`RedisKeysTab` and `BrowserStorage` extend the same `RecentPatterns`: the first
looks at when the tab reads and pushes patterns, the second at what becomes of
the lists.  `BrowserStorage` lets any search succeed at any time, which is more
than `RedisKeysTab` allows.  `MysqlQuery` extends `SqlGuard` and runs each text
through it.  `TabPanels`, `App` and `MCPage` put together what React mounts together; since
the panels, the workspace and the drawer, and what is in `localStorage`, share no
state, one of them works in each behaviour (`kind`, `scene`, `half`) and the
other variables stand still, which leaves out no interleaving that matters.  `BrowserStorage` extends
`TokenStorage` in the same way: the lists are of one window, the token of
several, and `full` (how often `setItem` has yet to throw) is what they share.
`DbHandlers` looks at where a handler returns and what it has open then;
`MysqlQuery`, `RedisKeyTab` and `MysqlSchema` look at what the same handlers
read.  In `DbHandlers` a request arrives once and the browser sends the whole
body; the connection it names is changed meanwhile by the handlers of `ConnApi`,
as one step each (`Store.LoadConnections` returns one list).
`ConnectionsPage` sees a
change on the server as one step (`Effect`), where the handler loads, edits and
saves: the page is told of a change only after its save, and no property of the
page is about what two changes make of each other there, which is `ConnApi`'s
question.

What is abstracted.  A list of connections is a value in `ConnFile` and a set
of records in `ConnApi`; host, port, user and flags are one value there, since
no handler looks at them.  A page of keys is the cursor and the pattern it was
asked with.  A saved query is its `stableId`.  Times only order entries.  An SQL
text is a sequence of classes of characters, in which a keyword is one.  A
result is its number of rows, which of them have a cell that is too long, and
where MySQL breaks off.  A configuration is the server it names, or that it
names none that a client can be made for (`NoHost`: it is empty, or `sql.Open`
cannot parse it); an input of a handler is in order or not, and at most one is not,
since the first that fails ends the request.  A Redis value is a set of elements, each in the bucket
where a scan meets it; Redis may answer any number of buckets at a time, or a
small value at once.  The range of a list is all of it or a part.
`ConnectionsPage` keeps a version of each connection.

### Bounds

| bound | where | why it is enough |
|---|---|---|
| two processes, three goroutines (two in one process) | `ConnFileAtomic` | both kinds of contention at once: for the mutex, and past it |
| `MaxFaults` 1 or 2 | `ConnFile*` | a kill, loss of power or failed removal at every point; system calls fail without bound; the proofs hold for every bound |
| two requests, two identifiers, `MaxMutators` 2 | `ConnApi*` | the shortest lost update, resurrection and re-use; the proofs hold for any number |
| one password and one address (`ConnApiBlankRace` has two passwords), a blank edit, a type alone, a configuration alone | `ConnApiConcurrent` | each way a body can leave something out; more than one value adds nothing that the properties tell apart |
| `MaxCrashes` 3 | `LegacyMigration` | a crash in each of three starts |
| three pages, two requests, two patterns, one recent entry | `TabPanels`, `RedisKeysTabAsked` | a scan with a first, a middle and a last page; an overtaking answer; an eviction |
| three patterns in a list of two, three queries in a history of two, two favorites, one failing `setItem` | `Page` | every list passes its limit |
| two windows, two tokens | `Page` | a token that is replaced or cleared behind the back of another window |
| one request, two servers, a hash or a stream, two changes | `DbHandlers` | requests share nothing but the file and the servers, which change here by themselves; two changes are an edit and a deletion, or a key that is replaced; the proofs hold for any number of requests |
| limits of two rows and two warnings, pages of one and two rows | `TabPanels` | results below, at and above each limit, breaks before, at and after it, and a shorter result under a later page |
| texts of five characters of quotes and escapes, four of comments (with the blank and the "!" that MySQL looks for), before and after the keyword | `TabPanels`, `SemicolonThenComment` | each opening, closing and lookahead, cut anywhere and put inside another |
| one MySQL connection, one table, four tabs | `WorkspaceLeafAgain` | the shortest way to a second click on a leaf |
| two elements in two buckets, five types (`set` and `hash` scan as `zset` does), two writes of others | `TabPanels` | a change between TYPE and the read, and another between two pages |
| three alterations of a table | `TabPanels` | one between its two queries, one before the DDL is read, one after |
| one connection of each kind, one database, table and key, four tabs, one query | `Page` | each kind of tab, and the one in front with others on both sides; resources do not interact |
| two connections, two versions, two calls | `Page` | an edit of one while the other is open, a deletion of what is edited, two reloads that overlap |

### Fairness

`ConnFileReturns`: a goroutine that can run does (the Go scheduler), and one
that waits for a mutex that is free again and again gets it (`sync.Mutex` hands
over to a waiter that has starved for a millisecond).  Hence weak fairness of
`Work` and strong fairness of `Lock`.  Kills are not fair and are bounded.
`TabPanels`: a search for keys settles, by an answer or an error, because the
server bounds each Redis call by ten seconds (`redisReqTimeout`); nothing is
assumed of the user.  `DbHandlers`: the handler of each request takes its next
step (`Proceeds`), whose outcome may be that the deadline passed; no server has
to answer.  No other run needs fairness: that a spinner stops is said of
`ConnectionsPage` as an invariant, since each call ends and none stays on without
one.

## 3. The runs

| run | question | result |
|---|---|---|
| `ConnFileAtomic` | is the file ever torn, a temporary file left, or the store not a register? | holds |
| `ConnFileReturns` | does every call return? | holds |
| `ConnApiConcurrent` | what survives overlapping handlers? | identifiers stay unique, a connection has the configuration of its type if the bodies sent for it had, a password is one that was sent for it; every step is one of `ConnRegistry`, but for a change made on an older list, which is that operation on the older table |
| `ConnApiBlankRace` | does a blank password keep the stored one when updates overlap? | **no** |
| `LegacyMigration` | does the old list survive the move? | yes, but for a loss of power after a `Sync` that failed, before the list is saved again |
| `LegacyMigrationKilled` | is an old list always taken over? | **no** |
| `DbHandlers` | does every handler close what it opened, ask only the server it was told to, say why it failed, and come to an end? | holds |
| `RedisKeysTabAsked` | does a tag search for its pattern? | **no** |
| `WorkspaceLeafAgain` | does a click on a leaf show its sub-tab? | **no** |
| `SemicolonThenComment` | is a single trailing semicolon allowed? | **no** |
| `TabPanels` | is what a tab shows there, whole, as new as its refresh, or marked? do the keys page in order and stop spinning? does the guard follow the lexical rules of MySQL? | holds; of the guard, for texts whose comments it and MySQL see alike, and with the last semicolon at the very end; the keys page in order unless Enter, an option or a tag is used while the buttons spin |
| `Page` | are the right tabs open and in front? are list, dialogs and spinners of the connections page right when calls overlap? are the lists of `localStorage` kept? which token is sent? | yes, but for the second click on a leaf; the list may be stale after reloads that overlap, a lost answer or a drawer that was closed, until the next Refresh; of favorites only those are lost whose move to the new key throws; the token saved last, but for a `setItem` that throws |

### The five disagreements

1. *A blank password restores an old one.*  Update A (new password) and update B
   (blank password) load the same list; A saves; B saves the old password, which
   it has kept "so that it is not changed" (`handlers_connections.go:123`).
2. *A kill at the first start hides the old connections.*  `BaseDir` makes the
   new directory before it moves the file, and moves only while the new
   directory does not exist (`paths.go:22-26`).
3. *A click on a tag searches for the pattern before it.*  The handler sets the
   pattern and calls the `run` of the render before (`RedisKeysTab.tsx:160-163`,
   the hint at `:180`).
4. *A second click on a leaf does not show its sub-tab.*  The effect that moves
   the schema tab to the leaf runs when `defaultActive` changes
   (`MysqlSchemaTab.tsx:30-32`), and the second click on the same leaf brings the
   value it has; a sub-tab that the user chose in between stays.
   `docs/superpowers/specs/2026-04-21-iteration2-schema-tab.md:33-35` says that a
   click on the leaf switches to its sub-tab.
5. *A comment after the last semicolon makes a second statement of it.*
   `SELECT 1; -- x` is refused, since only blanks may follow the semicolon
   (`mysql_readonly.go:144-149`); the comment of the function says that a single
   trailing semicolon outside of comments is allowed (`:48-49`).

Deadlock is checked in every run but `DbHandlers`, where all requests may have
been answered and nothing be left to change.

### Smaller ones, read and not run

- The guard's scanners take `--` for a comment whatever follows it, and what is
  between `/*!` and `*/` for a comment (`mysql_readonly.go:105`, `:114`, `:169`,
  `:184`); the lexical rules of MySQL want a blank after the dashes, and read
  `/*!` as code.  `GuardFollowsRules` says nothing of a text in which the two
  differ (`CommentsAlike`).
- The columns and the indexes that one refresh shows may be of two versions of
  the table, which is altered between the two queries
  (`handlers_mysql_meta.go:49-58`); `SchemaIsFresh` promises of each that it is
  as new as the refresh.
- A click on a table whose data tab is open updates the payload, and the tab
  keeps its own limit (`MysqlDataTab.tsx:36-39`).
- The width saved after a drag is the one before it (`Workspace.tsx:398`).
- Two saved queries with one 32-bit `stableId` are one entry, and the older
  disappears (`queryHistory.ts:13`).
- Of two reloads of the connections that overlap the one answered last is shown,
  not the one sent last (`useConnections.ts:52`); `ListIsCurrent` excludes it by
  name.
- `keyPreview` trims the name: the tab of a key with a space at an end shows
  another key, or none (`api/redis.ts:34`).
- Columns with one name share a cell, and a column called `key` overwrites the
  row's React key (`MysqlQueryTab.tsx:163`, `:194`).
- A list's items are numbered by the inputs of the range, which an edit changes
  before the next Refresh (`RedisKeyTab.tsx:425`).
- `authHint` of the schema tab is one flag for two requests: a refresh of the
  columns takes down the hint of the DDL.  A dropped table answers 200 and two
  empty lists (`handlers_mysql_meta.go:49`).
- The header shows the token its window took, which another window may have
  replaced (`App.tsx:11`); what is sent is the stored one.

## 4. The proofs

Every property that a passing run checks is also a theorem, but for those listed
at the end of this section; a run shows it on a small instance, the theorem for
every value of the constants.

What is assumed of the constants is named where they are declared.  Mostly it
says that a bound is a natural number, or that a marker for "nothing" (no
request, no connection, a key of `localStorage` that is not set) is not one of
the values it is told apart from, as `null` is not in the code.
`TextsAssumption` says that a text is a sequence of the characters of `SqlGuard`,
`LimitsAssumption` that a table can be shown in pages of at least one size, and
`KeyTypesAssumption` that a key has a type Redis knows of.

`ConnFile_proofs`, for any processes, goroutines, lists and bound on faults,
from the assumptions of `ConnFile` (`ServerOf` maps goroutines to processes, the
markers for contents and results are distinct).  The invariant `IInv` adds to
the properties where the temporary file exists, that it holds the argument from
`Encode` on, that it is flushed after `Sync`, and which results a call may have
at each step: without the second and third the rename could show anything.
From it follow `TypeCorrect`, `MutualExclusion`, `TempRemoved`, `AtomicSave` (an
action property: only the rename changes what the name shows, and it finds a
complete and flushed list) and `Refinement`: Load takes effect at the read, Save
at the rename, and every other step is a stutter of the register.

`ConnApi_proofs`, for any requests, identifiers and bodies.  The invariant says
that *every version* of the list, the stored one and each handler's copy, is
good; that a create in flight owns its identifier alone (so no copy that is
written back can meet it); and that what a handler will store was sent.  The
properties are inductive only for all versions together, because any copy may
become the list.  It gives `TypeCorrect`, `IdsAreUnique`, `ConfigFollowsType`
and `PasswordsWereSent`.  The server validates no body, so
`ConfigFollowsType` speaks of the connections for which every body that was sent
is `Regular`: the configuration of its type, or neither of the two.  The others
(`odd`) may have a type without a configuration, and the theorem says that they
spoil none of the rest.

`Refinement` says what becomes of `ConnRegistry` when any number of changes
overlap.  A handler takes effect in the registry at its rename, or at its load if
it only reads; a failed load or save is an operation that reports an error and
takes no effect; every other step stutters.  What a handler saves is the list it
loaded with its own edit (`EditInv`, `EditsBase`), and the loaded list was good,
so the step is the registry's operation on that list.  It is a step of the
registry when the stored list is still that one; when it is not (`Stale`), the
save is the operation on the older table, which it puts back: this is the only
way in which the handlers depart from the table, and `ConnApiBlankRace` shows one
consequence.

`LegacyMigration_proofs`: `NothingLost`, for any number of crashes, from the
order of the steps: the old file goes only after its bytes are whole in the new
one, and flushed unless `Sync` failed.  The code drops that error (`paths.go:71`);
`syncFailed` follows such a copy until the list is saved again or the power is
lost, and only the second case is excepted.

`DbHandlers_proofs`, for any requests, servers and changes.  The invariant
`DbInv` says of the steps a request has before it that those before the client
come first, then the client, then those that need it; that the input to be
refused is still among them; and that once the connection is loaded it is one
the request has seen.  It gives `NothingLeftOpen`, `OneServerAsked` and
`StatusesExplained`, which says of a 500 that no server was asked, because the
file could not be read (`unread`) or no client can be made of the configuration: that
a connection was deleted is never told as an error of the server.  Without the first part nothing ties an open client to the steps that remain.

`TabPanels_proofs`, about `TabPanels`' `Spec`, one part of `PanelsInv` for each
panel; a panel that is not mounted stands still, which keeps its part.
- `ListInv` (the search for keys), for any patterns, pages and requests.  As long
  as the user has kept to the buttons, at most one answer is awaited, the spinner
  is on exactly when one is, and it is for the start of the scan with an empty
  screen or for the page after the last one shown (`InOrder`).  It gives `PagesStayInOrder`.
- `KeyInv` (the value of a key), for any elements, buckets and number of writes.
  What the key holds, and the page on its way, have been seen since the Refresh
  (`LiveInv`); and, while anything is kept, the request and the key have one
  type, and the pages shown cover every bucket below the cursor, or the whole list
  if that is what was asked for (`RequestInv`, `PagesInv`).  The second part has a
  precondition on purpose: once the key is replaced the cursor may be of another
  value, and nothing is kept.  It gives `NothingStale` and `ReadIsWhole`.
- `QueryInv` (a query), for any texts, results and limits.  `Gathering` ties what
  the handler has so far to the rows it has read: it is marked as truncated exactly when
  one of those was cut or the limit was passed, and a warning says so.  It gives
  `AnswersAreHonest` and, with the number of pages that `PageHasRows` bounds,
  `ThePageExists`; `GuardIsRight` needs of it only that what was sent is a text.
- `GuardIsRight` is about `SqlGuard` alone: `EveryTextFollowsRules` proves for any
  text that the two scanners agree with the rules of MySQL, which know of no pass,
  with two exclusions: the text has no `--` without a blank and no `/*!` outside of
  quotes and comments (`SameComments` turns this into what the pass needs), and no
  comment after its last semicolon, where `SemicolonThenComment` shows that they
  disagree.  For
  the semicolons, `StartsAreInCode` shows that the pass is in code, and reads what
  comes, exactly at the characters where a piece starts.  It goes piece by piece,
  one lemma for each way a piece ends (`PlainLeaves`, `BlockLeaves`,
  `StringLeaves`).  In a string the rules count the backslashes before a quote
  and the pass steps over what each one escapes; `EvenFacts` says why that is the
  same.  For the keyword, `PiecesCover` shows that each character is in a piece
  that starts at or before it, and `OnTheWay` that `firstKeyword` comes by the
  start of each piece in turn up to the first that is not skipped, where it stops.
- `SchemaInv` (the schema of a table), for any number of alterations: no refresh
  is of the future, and columns that wait for their indexes are no older than the
  refresh they are read for.  It gives `NewerThanRefresh` and `NeverBlank`.

`RecentPatterns_proofs` and `BrowserStorage_proofs`, for any patterns, queries,
favorites, tokens and windows and any limits.  The first holds what the two
users of the lists need: that `list.filter` keeps the order and takes nothing
else (`AmongFacts`), what sorting, pushing, pinning and cutting leave
(`SortedFacts`, `PushedFacts`, `ToggledFacts`, `KeptFacts`), and that every
operation keeps `RecentInv`.  `BrowserInv` adds that a list on the screen has
nothing twice, that the old key is gone once the tab is mounted, and that the
screen shows at least the favorites that are stored: without the last a favorite
that may be added could be there already.  `FavoritesAreKept` excepts, favorite by
favorite, those that were under the old key when the save that moves them threw
(`lost`, which a later save of the same favorite leaves).  It gives `ListsHoldNothingTwice`,
`FavoritesAreKept`, the action properties `PinnedPatternsSurvive` and
`OldestIsForgotten`, and `TokenIsTheLast`.

`App_proofs`, about `AppSpec`, for any connections, names, tabs, queries and
calls.  `Parts` says that the workspace and the drawer each behave as their own
specification does.  For the workspace `WorkspaceInv` has four parts.  `TabsInv`
adds to `TabsWellFormed` that the names of nodes are sequences, without which the
id of a schema tab could be that of the welcome tab.  `TreeInv`: nothing is in
the tree before it is shown, the columns and indexes of a table are below that
table, and the open menu is of a table in it.  `KnownInv`: the id of each tab is
that of a node, or of a query, schema or key tab whose table or connection is in
the tree; since nodes are only added this stays true.  `FrontInv` says the same
as `WantedInFront` tab by tab: the sub-tab a schema tab shows is the one it was
told, unless the user turned it since it was last told another (`turned`).  So
`LastWantedIsInFront` is about the sub-tab on the screen, and excepts just the
click on the leaf that the tab was told before the turn.  They
give `TabsStayWellFormed`, `NothingHangsLoose`, `LastWantedIsInFront`,
`TabsHaveNodes` and the action property `LeftOneFirst`: only the cross of a tab
shortens the row, and that tab is never the first.  For the drawer, `ListIsCurrent` is not inductive,
because it says nothing while a call is in flight.  `ReloadInv` adds that, as
long as the page is not blind, at most one reload is under way, and that the list
it brings is the server's or a change the page has still to hear of is in flight.
It gives `ListReloaded`, `FormMatchesEdit` and `SpinnersStop`.

How the proofs reach recursive functions.  The theorems of the library that do
induction take an operator as a parameter and cannot be used, so `UpTo` (of
`RecentPatterns_proofs`) does the induction about a set, and `Least` (of
`TabPanels_proofs`) finds the least number of one; that a recursive
function has a solution is shown the same way, value by value (`KeptExists`; for
the scanners `FollowsExists`, upwards from 0, and `LeadsExists`, down from the end).

Only model-checked: liveness (`EveryCallReturns`, `SpinnerStops`,
`EveryRequestAnswered`), which needs fairness and `ENABLED`; and the five
properties the code does not have, whose runs end in a violation.

## 5. What is not modelled, and the plan

Left to do, in this order:

1. `ConnectionsPage` composed with `ConnApi`: two windows, so that the server
   changes under the page.
2. Proofs: of the list and the token together with the panels that use them, once
   item 1 has made the server move under them.

Left out for good: the socket, the SQL of `schema.go`, the files of the web page
and the fallback of `spa.go`, JSON, how a token is made, `NewID`'s randomness (an
identifier is new by assumption), ordering of directory entries in a loss of
power during the migration (taken to reach the disk in order), the parsing of
scores and the cut of long strings, the time to live of a key, the pages that
`App.tsx` does not reach (`pages/Mysql.tsx`, `pages/Redis.tsx` and what only they
use), the built copy of the page under `internal/webassets`, layout and wording.
