----------------------------- MODULE DbHandlers -----------------------------
(***************************************************************************)
(* The sixteen endpoints that ask a database (internal/httpapi, routes     *)
(* /mysql/{connId} and /redis/{connId}).  A handler is the sequence of its *)
(* steps, in the order of its code: a step goes through, or the handler    *)
(* answers with the step's status and returns, which runs its defers.  The *)
(* last step that goes through answers 200.                                *)
(*                                                                         *)
(* Meanwhile the connection the URL names is edited and deleted, the key   *)
(* the request names is written and removed, and servers stop answering.   *)
(* A config is the server it names, or one that no client can be made of,  *)
(* or there is none at all.                                                *)
(***************************************************************************)
EXTENDS Sequences, Naturals

CONSTANTS
  Reqs,        \* requests, each on a goroutine of its own
  Servers,     \* what a config may name
  NoHost,      \* a config that Open refuses: an empty host or address, or one
               \* of which sql.Open cannot parse the DSN
  NoConfig,    \* a connection without the block of its type
  KeyTypes,    \* what the key may be
  MaxChanges   \* bound: changes of the connection and of the key

ReadTypes == {"string", "hash", "set", "zset", "list"}

ASSUME ConfigsAssumption == NoHost \notin Servers /\ NoConfig \notin Servers /\ NoHost # NoConfig
ASSUME KeyTypesAssumption == KeyTypes \subseteq ReadTypes \cup {"stream"}
ASSUME MaxChangesAssumption == MaxChanges \in Nat

VARIABLES
  conn,          \* the connection in connections.json, or Gone
  keys,          \* [Servers -> the type of the key]
  changes,
  todo,          \* the steps a request has before it
  bad,           \* the input of the request that is missing or malformed
  cfg,           \* conn.MySQL or conn.Redis, once loaded
  client,        \* "none", "opened", "deferred" (its Close is), "closed"
  asked,         \* the servers the request has talked to
  answer,        \* the status; 0 before it
  connSeen, keySeen,  \* history: what they were in a request's time
  unread         \* history: requests for which connections.json could not be read

outside == <<conn, keys, changes>>
local == <<todo, bad, cfg, client, asked, answer>>
seen == <<connSeen, keySeen, unread>>
vars == <<outside, local, seen>>

Configs == Servers \cup {NoHost, NoConfig}
Gone    == [type |-> "gone", cfg |-> NoConfig]
Conns   == [type : {"mysql", "redis"}, cfg : Configs] \cup {Gone}
Types   == KeyTypes \cup {"none"}

Inputs == {"auth", "body", "key", "db", "table", "sql", "guard", "cursor", "count", "start", "stop"}

\* The steps that talk to a server.
Contacts == {"hello", "ping", "query", "scan", "meta"} \cup ReadTypes

Steps == Inputs \cup Contacts \cup {"loadConn", "open", "openForTest", "newClient",
                             "typed", "stream"}

(***************************************************************************)
(* The handlers.                                                           *)
(***************************************************************************)
\* redix.Open is two steps, "newClient", and "hello", a PING with a deadline
\* of its own.
handleMySQLDatabases == <<"loadConn", "open", "ping", "query">>
handleMySQLTables    == <<"db", "loadConn", "open", "ping", "query">>
handleMySQLTable     == <<"db", "table", "loadConn", "open", "ping", "query", "query">>
handleMySQLTableMeta == <<"db", "table", "loadConn", "open", "ping", "query", "query">>
handleMySQLQuery     == <<"loadConn", "body", "sql", "guard", "open", "ping", "query">>
handleMySQLTest      == <<"loadConn", "openForTest", "ping">>

handleRedisScan       == <<"loadConn", "body", "cursor", "newClient", "hello", "scan">>
handleRedisKeysSearch == <<"loadConn", "body", "cursor", "newClient", "hello", "scan">>
handleRedisKeyMeta    == <<"key", "loadConn", "newClient", "hello", "meta">>
handleRedisKeyString  == <<"key", "loadConn", "newClient", "hello", "string">>
handleRedisHashScan   == <<"body", "key", "cursor", "loadConn", "newClient", "hello", "hash">>
handleRedisSetScan    == <<"body", "key", "cursor", "loadConn", "newClient", "hello", "set">>
handleRedisZSetScan   == <<"body", "key", "cursor", "loadConn", "newClient", "hello", "zset">>
handleRedisListRange  == <<"key", "start", "stop", "loadConn", "newClient", "hello", "list">>
handleRedisKeyPreview ==
  <<"key", "cursor", "count", "start", "stop", "loadConn", "newClient", "hello", "meta", "typed">>
handleRedisTest       == <<"loadConn", "newClient", "hello", "ping">>

handlers ==
  {handleMySQLDatabases, handleMySQLTables, handleMySQLTable, handleMySQLTableMeta,
   handleMySQLQuery, handleMySQLTest, handleRedisScan, handleRedisKeysSearch,
   handleRedisKeyMeta, handleRedisKeyString, handleRedisHashScan, handleRedisSetScan,
   handleRedisZSetScan, handleRedisListRange, handleRedisKeyPreview, handleRedisTest}

\* Every route is behind authMiddleware.
routes == {<<"auth">> \o h : h \in handlers}

Of(r) == Head(todo[r])
Running(r) == todo[r] # <<>>
InputsOf(e) == {e[i] : i \in DOMAIN e} \cap Inputs

\* conn.Type must be the one of the route.
Wants(e) == IF {"open", "openForTest"} \cap {e[i] : i \in DOMAIN e} # {} THEN "mysql" ELSE "redis"

(***************************************************************************)
(* Others: the connection API, and other clients of the database.          *)
(***************************************************************************)
Seeing(c, k) ==
  /\ changes < MaxChanges
  /\ changes' = changes + 1
  /\ conn' = c
  /\ keys' = k
  /\ connSeen' = [r \in Reqs |-> connSeen[r] \cup IF Running(r) THEN {c} ELSE {}]
  /\ keySeen' = [r \in Reqs |-> keySeen[r] \cup IF Running(r) THEN {k} ELSE {}]
  /\ UNCHANGED <<local, unread>>

\* Also a deleted connection may be back: a handler that loaded the list
\* before the deletion saves it.
EditConn(c) == Seeing(c, keys)

ChangeKey(s, t) == Seeing(conn, [keys EXCEPT ![s] = t])

(***************************************************************************)
(* The engine: a handler at its next step.                                 *)
(***************************************************************************)
\* A mutant of Close: the early returns come before the defer.
CloseOn200(c, status) == IF c = "deferred" /\ status = 200 THEN "closed" ELSE c

\* defer c.Close(), defer db.Close()
Close(c, status) == IF c = "deferred" THEN "closed" ELSE c

Answer(r, status) ==
  /\ todo' = [todo EXCEPT ![r] = <<>>]
  /\ answer' = [answer EXCEPT ![r] = status]
  /\ client' = [client EXCEPT ![r] = Close(client[r], status)]

Return(r, status) ==
  /\ Answer(r, status)
  /\ UNCHANGED <<outside, bad, cfg, asked, seen>>

\* On to the next step, or the answer 200; c is the client from now on.
GoOn(r, c) ==
  /\ todo' = [todo EXCEPT ![r] = Tail(todo[r])]
  /\ IF Tail(todo[r]) = <<>>
       THEN /\ answer' = [answer EXCEPT ![r] = 200]
            /\ client' = [client EXCEPT ![r] = Close(c, 200)]
       ELSE /\ client' = [client EXCEPT ![r] = c]
            /\ UNCHANGED answer

\* A request arrives once.
Arrive(r, e, b) ==
  /\ ~Running(r) /\ answer[r] = 0
  /\ todo' = [todo EXCEPT ![r] = e]
  /\ bad' = [bad EXCEPT ![r] = b]
  /\ connSeen' = [connSeen EXCEPT ![r] = {conn}]
  /\ keySeen' = [keySeen EXCEPT ![r] = {keys}]
  /\ UNCHANGED <<outside, cfg, client, asked, answer, unread>>

CheckInput(r) ==
  /\ Running(r) /\ Of(r) \in Inputs
  /\ IF bad[r] = Of(r)
       THEN Return(r, IF Of(r) = "auth" THEN 401 ELSE 400)
       ELSE GoOn(r, client[r]) /\ UNCHANGED <<outside, bad, cfg, asked, seen>>

\* A mutant of writeConnLoadErr: a case is missing.
writeOtherLoadErr(code) == IF code = "type_mismatch" THEN 400 ELSE 500

writeConnLoadErr(code) ==
  CASE code = "not_found"     -> 404
    [] code = "type_mismatch" -> 400
    [] code = "storage_error" -> 500

LoadFails(r, code) ==
  /\ Answer(r, writeConnLoadErr(code))
  /\ unread' = IF code = "storage_error" THEN unread \cup {r} ELSE unread
  /\ UNCHANGED <<outside, bad, cfg, asked, connSeen, keySeen>>

\* loadConn, and the check that the config is there.
LoadConn(r) ==
  /\ Running(r) /\ Of(r) = "loadConn"
  /\ \/ LoadFails(r, "storage_error")
     \/ conn = Gone /\ LoadFails(r, "not_found")
     \/ conn # Gone /\ conn.type # Wants(todo[r]) /\ LoadFails(r, "type_mismatch")
     \/ conn.type = Wants(todo[r]) /\ conn.cfg = NoConfig /\ Return(r, 400)
     \/ /\ conn.type = Wants(todo[r]) /\ conn.cfg # NoConfig
        /\ cfg' = [cfg EXCEPT ![r] = conn.cfg]
        /\ GoOn(r, client[r])
        /\ UNCHANGED <<outside, bad, asked, seen>>

\* mysqlx.Open: a pool, which connects to nothing yet.
OpenMySQL(r) ==
  /\ Running(r) /\ Of(r) \in {"open", "openForTest"}
  /\ IF cfg[r] = NoHost
       THEN Return(r, IF Of(r) = "openForTest" THEN 502 ELSE 500)
       ELSE GoOn(r, "deferred") /\ UNCHANGED <<outside, bad, cfg, asked, seen>>

\* redix.Open up to its PING.
NewClient(r) ==
  /\ Running(r) /\ Of(r) = "newClient"
  /\ IF cfg[r] = NoHost
       THEN Return(r, 502)
       ELSE GoOn(r, "opened") /\ UNCHANGED <<outside, bad, cfg, asked, seen>>

\* A mutant of Contact: the connection is read again.
ContactCurrent(r) ==
  /\ Running(r) /\ Of(r) \in Contacts
  /\ asked' = [asked EXCEPT ![r] = @ \cup {conn.cfg}]

Contact(r) ==
  /\ Running(r) /\ Of(r) \in Contacts
  /\ asked' = [asked EXCEPT ![r] = @ \cup {cfg[r]}]

\* PING, SCAN, a query: the answer is the client's business.
ServerAnswers(r) ==
  /\ Contact(r)
  /\ Of(r) \in {"ping", "query", "scan"}
  /\ GoOn(r, client[r])
  /\ UNCHANGED <<outside, bad, cfg, seen>>

\* redix.Open returns, and the handler defers Close.
Hello(r) ==
  /\ Contact(r)
  /\ Of(r) = "hello"
  /\ GoOn(r, "deferred")
  /\ UNCHANGED <<outside, bad, cfg, seen>>

\* KeyMeta.  The preview goes on with the read of the type it found.
Meta(r) ==
  /\ Contact(r)
  /\ Of(r) = "meta"
  /\ LET t == keys[cfg[r]]
     IN  IF t # "none" /\ Tail(todo[r]) # <<>>
           THEN todo' = [todo EXCEPT ![r] = <<t>>] /\ UNCHANGED <<client, answer>>
           ELSE Answer(r, IF t = "none" THEN 404 ELSE 200)
  /\ UNCHANGED <<outside, bad, cfg, seen>>

\* redis.Nil of GET, and WRONGTYPE.
ReadError(t) == IF t = "none" THEN 404 ELSE 502

\* GetString, HScan, SScan, ZScan, LRange.  Only GET tells that the key is
\* not there.
ReadKey(r) ==
  /\ Contact(r)
  /\ Of(r) \in ReadTypes
  /\ LET t == keys[cfg[r]]
     IN  IF t = Of(r) \/ (t = "none" /\ Of(r) # "string")
           THEN GoOn(r, client[r])
           ELSE Answer(r, ReadError(t))
  /\ UNCHANGED <<outside, bad, cfg, seen>>

\* The default of the preview's switch.
Unsupported(r) ==
  /\ Running(r) /\ Of(r) = "stream"
  /\ Return(r, 400)

\* A mutant of CloseInOpen: redix.Open returns without closing its client.
LeaveInOpen(c) == c

\* "_ = c.Close()" in redix.Open
CloseInOpen(c) == IF c = "opened" THEN "closed" ELSE c

\* A mutant of Fails: the PING of redix.Open has no deadline.
FailsButHello(r) ==
  /\ Contact(r)
  /\ Of(r) # "hello"
  /\ Return(r, 502)

\* An error of the server or the network, the deadline of the context, or
\* the browser is gone.
Fails(r) ==
  /\ Contact(r)
  /\ todo' = [todo EXCEPT ![r] = <<>>]
  /\ answer' = [answer EXCEPT ![r] = 502]
  /\ client' = [client EXCEPT ![r] = Close(CloseInOpen(client[r]), 502)]
  /\ UNCHANGED <<outside, bad, cfg, seen>>

\* The steps of the handler's own, and those the deadlines end.
Proceeds(r) ==
  CheckInput(r) \/ LoadConn(r) \/ OpenMySQL(r) \/ NewClient(r) \/ Unsupported(r) \/ Fails(r)

Init ==
  /\ conn \in Conns
  /\ keys \in [Servers -> Types]
  /\ changes = 0
  /\ todo = [r \in Reqs |-> <<>>]
  /\ bad = [r \in Reqs |-> "nothing"]
  /\ cfg = [r \in Reqs |-> NoConfig]
  /\ client = [r \in Reqs |-> "none"]
  /\ asked = [r \in Reqs |-> {}]
  /\ answer = [r \in Reqs |-> 0]
  /\ connSeen = [r \in Reqs |-> {}]
  /\ keySeen = [r \in Reqs |-> {}]
  /\ unread = {}

Next ==
  \/ \E c \in Conns : EditConn(c)
  \/ \E s \in Servers, t \in Types : ChangeKey(s, t)
  \/ \E r \in Reqs :
       \/ \E e \in routes : \E b \in InputsOf(e) \cup {"nothing"} : Arrive(r, e, b)
       \/ Proceeds(r)
       \/ ServerAnswers(r) \/ Hello(r) \/ Meta(r) \/ ReadKey(r)

(***************************************************************************)
(* A goroutine runs on, and no call to a server outlives its context.  No  *)
(* server has to answer.                                                   *)
(***************************************************************************)
Spec == Init /\ [][Next]_vars /\ \A r \in Reqs : WF_vars(Proceeds(r))

(***************************************************************************)
(* Properties.                                                             *)
(***************************************************************************)
TypeOK ==
  /\ conn \in Conns
  /\ keys \in [Servers -> Types]
  /\ changes \in 0..MaxChanges
  /\ todo \in [Reqs -> Seq(Steps)]
  /\ bad \in [Reqs -> Inputs \cup {"nothing"}]
  /\ cfg \in [Reqs -> Configs]
  /\ client \in [Reqs -> {"none", "opened", "deferred", "closed"}]
  /\ asked \in [Reqs -> SUBSET Configs]
  /\ answer \in [Reqs -> {0, 200, 400, 401, 404, 500, 502}]
  /\ connSeen \in [Reqs -> SUBSET Conns]
  /\ keySeen \in [Reqs -> SUBSET [Servers -> Types]]
  /\ unread \subseteq Reqs

(***************************************************************************)
(* No request leaves a Redis client or a MySQL pool open behind it, on any *)
(* of its early returns, in redix.Open and in the sixteen handlers         *)
(* (handlers_redis.go:62-67, redis_client.go:42-48).                       *)
(***************************************************************************)
ClientsClosed == \A r \in Reqs : ~Running(r) => client[r] \in {"none", "closed"}

Asks(r) ==
  asked[r] # {} =>
    /\ asked[r] = {cfg[r]}
    /\ bad[r] = "nothing"
    /\ \E c \in connSeen[r] : c # Gone /\ c.cfg = cfg[r]

(***************************************************************************)
(* A request talks to one server: that of the connection as it was at some *)
(* moment since the request arrived, whatever is edited or deleted in the  *)
(* middle; and to none before all of its input, the token and the SQL      *)
(* included, is found in order (handlers_redis.go:186-223,                 *)
(* handlers_mysql.go:178-224).                                             *)
(***************************************************************************)
AsksItsServer == \A r \in Reqs : Asks(r)

Explained(r) ==
  /\ answer[r] = 404 =>
       \/ Gone \in connSeen[r]
       \/ asked[r] # {} /\ \E k \in keySeen[r] : k[cfg[r]] = "none"
  /\ answer[r] = 401 <=> bad[r] = "auth" /\ answer[r] # 0
  /\ answer[r] = 200 => asked[r] # {}
  /\ answer[r] = 502 => asked[r] # {} \/ cfg[r] = NoHost
  /\ answer[r] = 500 => asked[r] = {} /\ (r \in unread \/ cfg[r] = NoHost)

(***************************************************************************)
(* A status means what it says of the time of the request: 404 that the    *)
(* connection was deleted or the key not there, 401 that the token was     *)
(* wrong, 200 that the server was asked, 502 that it was or that no client *)
(* can be made of the config, and 500 that no server was, for want of      *)
(* connections.json or of such a config: a connection that is gone is      *)
(* never an error of the server (connutil.go:28-52,                        *)
(* handlers_mysql.go:312-333, handlers_redis.go:114-122, 161-169).         *)
(***************************************************************************)
StatusExplained == \A r \in Reqs : Explained(r)

(***************************************************************************)
(* Every request is answered, however many of the servers it asks are      *)
(* silent: each call runs under a deadline (handlers_redis.go:69,          *)
(* redis_client.go:42, handlers_mysql.go:48, 226).                         *)
(***************************************************************************)
EveryRequestAnswered == \A r \in Reqs : Running(r) ~> ~Running(r)

(***************************************************************************)
(* The inductive invariant.  Of the steps a handler has left, all before   *)
(* the client come first, then the client, then those that need it; and    *)
(* the input that is refused, the connection and the servers asked are     *)
(* those of the steps done.                                                *)
(***************************************************************************)
Early == Inputs \cup {"loadConn"}
Opens == {"open", "openForTest", "newClient"}
Late  == Contacts \cup {"typed", "stream"}

Ordered(e) ==
  \A i \in DOMAIN e :
    /\ e[i] \in Early => i < Len(e) /\ e[i + 1] \notin Late
    /\ e[i] \in Opens => i < Len(e)
    /\ e[i] \notin Early => \A j \in DOMAIN e : j > i => e[j] \in Late
    /\ e[i] = "newClient" => e[i + 1] = "hello"
    /\ e[i] = "auth" => i = 1

Has(e, s) == \E i \in DOMAIN e : e[i] = s

Loaded(r) ==
  /\ cfg[r] # NoConfig
  /\ \E c \in connSeen[r] : c # Gone /\ c.cfg = cfg[r]

RunInv(r) ==
  /\ answer[r] = 0
  /\ conn \in connSeen[r] /\ keys \in keySeen[r]
  /\ Ordered(todo[r])
  /\ client[r] = "opened" => Of(r) = "hello"
  /\ bad[r] # "nothing" => bad[r] \in Inputs /\ Has(todo[r], bad[r])
  /\ Has(todo[r], "loadConn") => asked[r] = {}
  /\ ~Has(todo[r], "loadConn") => Loaded(r)
  /\ IF Of(r) \in Late THEN cfg[r] \in Servers ELSE asked[r] = {}

RestInv(r) ==
  /\ client[r] \in {"none", "closed"}
  /\ answer[r] = 0 => asked[r] = {}

RequestInv(r) ==
  /\ IF Running(r) THEN RunInv(r) ELSE RestInv(r)
  /\ Asks(r)
  /\ Explained(r)

DbInv == TypeOK /\ \A r \in Reqs : RequestInv(r)
=============================================================================
