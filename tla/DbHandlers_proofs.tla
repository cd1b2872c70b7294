-------------------------- MODULE DbHandlers_proofs --------------------------
(***************************************************************************)
(* Proofs about DbHandlers, for any number of requests and servers and any *)
(* number of changes of the connection and the key: the inductive          *)
(* invariant DbInv, and what it says of clients, servers and statuses.     *)
(***************************************************************************)
EXTENDS DbHandlers, SequenceTheorems, TLAPS

(***************************************************************************)
(* The steps of the routes.                                                *)
(***************************************************************************)
LEMMA StepKinds ==
  /\ Steps = Early \cup Opens \cup Late
  /\ \A s \in Late : s \notin Early /\ s \notin Opens
  /\ \A s \in Opens : s \notin Early
  /\ Contacts \subseteq Late /\ ReadTypes \subseteq Contacts
  /\ "nothing" \notin Inputs
  BY DEF Steps, Early, Opens, Late, Contacts, Inputs, ReadTypes

LEMMA TailOfSteps ==
  ASSUME NEW e \in Seq(Steps), e # <<>>
  PROVE  /\ Head(e) \in Steps /\ Head(e) = e[1] /\ 1 \in DOMAIN e
         /\ Tail(e) \in Seq(Steps)
         /\ Len(e) \in Nat /\ Len(Tail(e)) = Len(e) - 1
         /\ DOMAIN e = 1..Len(e) /\ DOMAIN Tail(e) = 1..(Len(e) - 1)
         /\ \A i \in 1..(Len(e) - 1) : Tail(e)[i] = e[i + 1]
  OBVIOUS

\* What is left of an ordered handler is ordered.
LEMMA TailOrdered ==
  ASSUME NEW e \in Seq(Steps), e # <<>>, Ordered(e)
  PROVE  /\ Ordered(Tail(e))
         /\ Tail(e) = <<>> => Head(e) \in Late
         /\ Tail(e) # <<>> => /\ Head(e) \in Late \cup Opens <=> Head(Tail(e)) \in Late
                              /\ Head(e) = "newClient" => Head(Tail(e)) = "hello"
         /\ Head(e) \notin Early => \A s : Has(Tail(e), s) => s \in Late
         /\ \A s : Has(e, s) <=> s = Head(e) \/ Has(Tail(e), s)
         /\ ~Has(Tail(e), "auth")
  <1>0. /\ Head(e) = e[1] /\ 1 \in DOMAIN e
        /\ Len(e) \in Nat /\ Len(Tail(e)) = Len(e) - 1
        /\ DOMAIN e = 1..Len(e) /\ DOMAIN Tail(e) = 1..(Len(e) - 1)
        /\ \A i \in 1..(Len(e) - 1) : Tail(e)[i] = e[i + 1]
    BY TailOfSteps
  <1> USE <1>0
  <1>1. \A i \in DOMAIN Tail(e) : i + 1 \in DOMAIN e /\ Tail(e)[i] = e[i + 1]
    OBVIOUS
  <1>2. \A j \in DOMAIN e : j = 1 \/ (j - 1 \in DOMAIN Tail(e) /\ Tail(e)[j - 1] = e[j])
    OBVIOUS
  <1>3. Ordered(Tail(e))
    <2> SUFFICES ASSUME NEW i \in DOMAIN Tail(e)
                 PROVE  /\ Tail(e)[i] \in Early => i < Len(Tail(e)) /\ Tail(e)[i + 1] \notin Late
                        /\ Tail(e)[i] \in Opens => i < Len(Tail(e))
                        /\ Tail(e)[i] \notin Early =>
                             \A j \in DOMAIN Tail(e) : j > i => Tail(e)[j] \in Late
                        /\ Tail(e)[i] = "newClient" => Tail(e)[i + 1] = "hello"
                        /\ Tail(e)[i] = "auth" => i = 1
      BY DEF Ordered
    <2>1. /\ i \in Nat /\ i + 1 \in DOMAIN e /\ Tail(e)[i] = e[i + 1]
      BY <1>1
    <2>2. /\ e[i + 1] \in Early => i + 1 < Len(e) /\ e[(i + 1) + 1] \notin Late
          /\ e[i + 1] \in Opens => i + 1 < Len(e)
          /\ e[i + 1] \notin Early => \A j \in DOMAIN e : j > i + 1 => e[j] \in Late
          /\ e[i + 1] = "newClient" => e[(i + 1) + 1] = "hello"
          /\ e[i + 1] = "auth" => i + 1 = 1
      BY <2>1 DEF Ordered
    <2>3. i + 1 < Len(e) => Tail(e)[i + 1] = e[(i + 1) + 1]
      BY <2>1
    <2>4. "newClient" \in Opens
      BY DEF Opens
    <2> QED
      BY <1>1, <2>1, <2>2, <2>3, <2>4
  <1>4. /\ Head(e) \in Early => 1 < Len(e) /\ e[2] \notin Late
        /\ Head(e) \in Opens => 1 < Len(e)
        /\ Head(e) \notin Early => \A j \in DOMAIN e : j > 1 => e[j] \in Late
        /\ Head(e) = "newClient" => e[2] = "hello"
    BY DEF Ordered
  <1>5. Tail(e) = <<>> => Head(e) \in Late
    <2>1. Tail(e) = <<>> => Len(Tail(e)) = 0
      OBVIOUS
    <2>2. Tail(e) = <<>> => Len(e) = 1
      BY <2>1
    <2> QED
      BY <1>4, <2>2, StepKinds
  <1>6. Tail(e) # <<>> => Head(Tail(e)) = e[2] /\ 2 \in DOMAIN e
    OBVIOUS
  <1>7. Tail(e) # <<>> => /\ Head(e) \in Late \cup Opens <=> Head(Tail(e)) \in Late
                          /\ Head(e) = "newClient" => Head(Tail(e)) = "hello"
    BY <1>4, <1>6, StepKinds
  <1>8. \A s : Has(e, s) <=> s = Head(e) \/ Has(Tail(e), s)
    <2> SUFFICES ASSUME NEW s
                 PROVE  Has(e, s) <=> s = Head(e) \/ Has(Tail(e), s)
      OBVIOUS
    <2>1. ASSUME NEW j \in DOMAIN e, e[j] = s
          PROVE  s = Head(e) \/ Has(Tail(e), s)
      BY <1>2, <2>1 DEF Has
    <2>2. Has(Tail(e), s) => Has(e, s)
      BY <1>1 DEF Has
    <2>3. s = Head(e) => Has(e, s)
      BY DEF Has
    <2> QED
      BY <2>1, <2>2, <2>3 DEF Has
  <1>9. Head(e) \notin Early => \A s : Has(Tail(e), s) => s \in Late
    BY <1>1, <1>4 DEF Has
  <1>10. ~Has(Tail(e), "auth")
    BY <1>1 DEF Has, Ordered
  <1> QED
    BY <1>3, <1>5, <1>7, <1>8, <1>9, <1>10

(***************************************************************************)
(* Each handler is ordered, loads its connection, and is what a route runs *)
(* after the token.                                                        *)
(***************************************************************************)
Handler(h) ==
  /\ h \in Seq(Steps) /\ h # <<>>
  /\ Ordered(h)
  /\ h[1] \notin Late
  /\ Has(h, "loadConn") /\ ~Has(h, "auth")

LEMMA MySQLHandlers ==
  /\ Handler(handleMySQLDatabases) /\ Handler(handleMySQLTables)
  /\ Handler(handleMySQLTable) /\ Handler(handleMySQLTableMeta)
  /\ Handler(handleMySQLQuery) /\ Handler(handleMySQLTest)
  <1> USE DEF Handler, Steps, Ordered, Has, Early, Opens, Late, Contacts, Inputs, ReadTypes
  <1>1. Handler(handleMySQLDatabases)
    BY DEF handleMySQLDatabases
  <1>2. Handler(handleMySQLTables)
    BY DEF handleMySQLTables
  <1>3. Handler(handleMySQLTable)
    BY DEF handleMySQLTable
  <1>4. Handler(handleMySQLTableMeta)
    BY DEF handleMySQLTableMeta
  <1>5. Handler(handleMySQLQuery)
    BY DEF handleMySQLQuery
  <1>6. Handler(handleMySQLTest)
    BY DEF handleMySQLTest
  <1> QED
    BY <1>1, <1>2, <1>3, <1>4, <1>5, <1>6

LEMMA RedisHandlers ==
  /\ Handler(handleRedisScan) /\ Handler(handleRedisKeysSearch)
  /\ Handler(handleRedisKeyMeta) /\ Handler(handleRedisKeyString)
  /\ Handler(handleRedisHashScan) /\ Handler(handleRedisSetScan)
  /\ Handler(handleRedisZSetScan) /\ Handler(handleRedisListRange)
  /\ Handler(handleRedisKeyPreview) /\ Handler(handleRedisTest)
  <1> USE DEF Handler, Steps, Ordered, Has, Early, Opens, Late, Contacts, Inputs, ReadTypes
  <1>1. Handler(handleRedisScan)
    BY DEF handleRedisScan
  <1>2. Handler(handleRedisKeysSearch)
    BY DEF handleRedisKeysSearch
  <1>3. Handler(handleRedisKeyMeta)
    BY DEF handleRedisKeyMeta
  <1>4. Handler(handleRedisKeyString)
    BY DEF handleRedisKeyString
  <1>5. Handler(handleRedisHashScan)
    BY DEF handleRedisHashScan
  <1>6. Handler(handleRedisSetScan)
    BY DEF handleRedisSetScan
  <1>7. Handler(handleRedisZSetScan)
    BY DEF handleRedisZSetScan
  <1>8. Handler(handleRedisListRange)
    BY DEF handleRedisListRange
  <1>9. Handler(handleRedisKeyPreview)
    BY DEF handleRedisKeyPreview
  <1>10. Handler(handleRedisTest)
    BY DEF handleRedisTest
  <1> QED
    BY <1>1, <1>2, <1>3, <1>4, <1>5, <1>6, <1>7, <1>8, <1>9, <1>10

LEMMA RouteOrdered ==
  ASSUME NEW e \in routes
  PROVE  /\ e \in Seq(Steps) /\ e # <<>>
         /\ Ordered(e) /\ Head(e) = "auth" /\ Has(e, "loadConn")
  <1> PICK h \in handlers : e = <<"auth">> \o h
    BY DEF routes
  <1>1. Handler(h)
    BY MySQLHandlers, RedisHandlers DEF handlers
  <1> DEFINE n == Len(h)
  <1>2. n \in Nat /\ n > 0 /\ DOMAIN h = 1..n /\ \A i \in 1..n : h[i] \in Steps
    BY <1>1 DEF Handler
  <1>3. e \in Seq(Steps) /\ Len(e) = n + 1
    BY <1>1 DEF Handler, Steps, Inputs
  <1>4. e[1] = "auth" /\ \A i \in 1..n : e[i + 1] = h[i]
    BY <1>1, <1>2 DEF Handler
  <1> HIDE DEF n
  <1>5. DOMAIN e = 1..(n + 1) /\ e # <<>> /\ Head(e) = e[1]
    BY <1>2, <1>3
  <1>6. \A i \in DOMAIN e : i = 1 \/ (i - 1 \in DOMAIN h /\ e[i] = h[i - 1])
    <2> SUFFICES ASSUME NEW i \in DOMAIN e, i # 1
                 PROVE  i - 1 \in DOMAIN h /\ e[i] = h[i - 1]
      OBVIOUS
    <2>1. i - 1 \in 1..n /\ (i - 1) + 1 = i
      BY <1>2, <1>5
    <2> QED
      BY <1>2, <1>4, <2>1
  <1>7. Has(e, "loadConn")
    <2> PICK k \in 1..n : h[k] = "loadConn"
      BY <1>1, <1>2 DEF Handler, Has
    <2> k + 1 \in DOMAIN e /\ e[k + 1] = "loadConn"
      BY <1>2, <1>4, <1>5
    <2> QED
      BY DEF Has
  <1>8. "auth" \in Early /\ "auth" \notin Late /\ "auth" \notin Opens /\ "auth" # "newClient"
        /\ "newClient" \in Opens
    BY DEF Early, Late, Inputs, Opens, Contacts, ReadTypes
  <1>9. Ordered(e)
    <2> SUFFICES ASSUME NEW i \in DOMAIN e
                 PROVE  /\ e[i] \in Early => i < Len(e) /\ e[i + 1] \notin Late
                        /\ e[i] \in Opens => i < Len(e)
                        /\ e[i] \notin Early => \A j \in DOMAIN e : j > i => e[j] \in Late
                        /\ e[i] = "newClient" => e[i + 1] = "hello"
                        /\ e[i] = "auth" => i = 1
      BY DEF Ordered
    <2>1. CASE i = 1
      BY <1>1, <1>2, <1>3, <1>4, <1>8, <2>1 DEF Handler
    <2>2. CASE i # 1
      <3> DEFINE k == i - 1
      <3>1. k \in 1..n /\ k + 1 = i /\ e[i] = h[k]
        BY <1>2, <1>5, <1>6, <2>2
      <3> HIDE DEF k
      <3>2. /\ h[k] \in Early => k < n /\ h[k + 1] \notin Late
            /\ h[k] \in Opens => k < n
            /\ h[k] \notin Early => \A j \in DOMAIN h : j > k => h[j] \in Late
            /\ h[k] = "newClient" => h[k + 1] = "hello"
            /\ h[k] # "auth"
        BY <1>1, <1>2, <3>1 DEF Handler, Ordered, Has, n
      <3>3. k < n => e[i + 1] = h[k + 1]
        BY <1>2, <1>4, <3>1
      <3>4. k < n => i < Len(e)
        BY <1>2, <1>3, <3>1
      <3>5. ASSUME NEW j \in DOMAIN e, j > i, h[k] \notin Early
            PROVE  e[j] \in Late
        <4>1. j - 1 \in DOMAIN h /\ e[j] = h[j - 1] /\ j - 1 > k
          BY <1>2, <1>5, <1>6, <3>1, <3>5
        <4> QED
          BY <3>2, <3>5, <4>1
      <3> QED
        BY <1>8, <3>1, <3>2, <3>3, <3>4, <3>5
    <2> QED
      BY <2>1, <2>2
  <1> QED
    BY <1>3, <1>4, <1>5, <1>7, <1>9

(***************************************************************************)
(* The invariant of a request, by what its step does: answer, go on, or    *)
(* nothing at all.                                                         *)
(***************************************************************************)
LEMMA InitDbInv == Init => DbInv
  <1> SUFFICES ASSUME Init PROVE DbInv
    OBVIOUS
  <1> USE DEF Init
  <1>1. TypeOK
    BY MaxChangesAssumption DEF TypeOK, Configs
  <1>2. ASSUME NEW r \in Reqs
        PROVE  RequestInv(r)
    BY DEF RequestInv, Running, RestInv, Asks, Explained, Inputs
  <1> QED
    BY <1>1, <1>2 DEF DbInv

\* A request whose variables do not change, whatever others do to the
\* connection and the key.
LEMMA OthersRest ==
  ASSUME NEW q \in Reqs, TypeOK, TypeOK', RequestInv(q),
         /\ todo'[q] = todo[q] /\ bad'[q] = bad[q] /\ cfg'[q] = cfg[q]
         /\ client'[q] = client[q] /\ asked'[q] = asked[q] /\ answer'[q] = answer[q],
         connSeen[q] \subseteq connSeen'[q], keySeen[q] \subseteq keySeen'[q],
         unread \subseteq unread',
         Running(q) => conn' \in connSeen'[q] /\ keys' \in keySeen'[q]
  PROVE  RequestInv(q)'
  <1>1. Running(q)' = Running(q) /\ Of(q)' = Of(q)
    BY DEF Running, Of
  <1>2. Asks(q)' /\ Explained(q)'
    BY DEF RequestInv, Asks, Explained
  <1>3. CASE Running(q)
    BY <1>1, <1>2, <1>3 DEF RequestInv, RunInv, Loaded
  <1>4. CASE ~Running(q)
    BY <1>1, <1>2, <1>4 DEF RequestInv, RestInv
  <1> QED
    BY <1>3, <1>4

LEMMA OutsidePreserves ==
  ASSUME DbInv, NEW c \in Conns, NEW k \in [Servers -> Types], Seeing(c, k)
  PROVE  DbInv'
  <1> USE DEF Seeing, local
  <1>1. TypeOK'
    BY MaxChangesAssumption DEF DbInv, TypeOK
  <1>2. ASSUME NEW q \in Reqs
        PROVE  RequestInv(q)'
    <2>1. /\ connSeen'[q] = connSeen[q] \cup IF Running(q) THEN {c} ELSE {}
          /\ keySeen'[q] = keySeen[q] \cup IF Running(q) THEN {k} ELSE {}
      OBVIOUS
    <2> QED
      BY <1>1, <2>1, OthersRest DEF DbInv
  <1> QED
    BY <1>1, <1>2 DEF DbInv

\* Only r moves, and the connection and the key stay.
Alone(r) ==
  /\ UNCHANGED <<conn, keys, changes>> /\ unread \subseteq unread'
  /\ \A q \in Reqs \ {r} :
       /\ todo'[q] = todo[q] /\ bad'[q] = bad[q] /\ cfg'[q] = cfg[q]
       /\ client'[q] = client[q] /\ asked'[q] = asked[q] /\ answer'[q] = answer[q]
       /\ connSeen'[q] = connSeen[q] /\ keySeen'[q] = keySeen[q]

LEMMA AlonePreserves ==
  ASSUME DbInv, TypeOK', NEW r \in Reqs, Alone(r), RequestInv(r)'
  PROVE  DbInv'
  <1>1. ASSUME NEW q \in Reqs \ {r}
        PROVE  RequestInv(q)'
    BY OthersRest DEF DbInv, Alone, RequestInv, RunInv
  <1> QED
    BY <1>1 DEF DbInv

\* A step asks the server of the config, if it is a contact.
AsksAtContact(r) ==
  IF Of(r) \in Contacts THEN asked' = [asked EXCEPT ![r] = @ \cup {cfg[r]}]
                        ELSE UNCHANGED asked

LEMMA AskedTyped ==
  ASSUME TypeOK, NEW r \in Reqs, AsksAtContact(r)
  PROVE  asked' \in [Reqs -> SUBSET Configs]
  <1>1. asked[r] \cup {cfg[r]} \in SUBSET Configs /\ asked \in [Reqs -> SUBSET Configs]
    BY DEF TypeOK
  <1> HIDE DEF TypeOK
  <1>2. CASE Of(r) \in Contacts
    BY <1>1, <1>2 DEF AsksAtContact
  <1>3. CASE Of(r) \notin Contacts
    BY <1>1, <1>3 DEF AsksAtContact
  <1> QED
    BY <1>2, <1>3

LEMMA ConnConfigs == \A c \in Conns : c.cfg \in Configs
  BY DEF Conns, Gone, Configs

\* At a contact all input is in order and the config is loaded.
LEMMA AtContact ==
  ASSUME DbInv, NEW r \in Reqs, Running(r), Of(r) \in Contacts
  PROVE  /\ bad[r] = "nothing" /\ cfg[r] \in Servers /\ Loaded(r)
         /\ ~Has(todo[r], "loadConn")
         /\ asked[r] \cup {cfg[r]} = {cfg[r]}
  <1>1. RunInv(r) /\ Asks(r)
    BY DEF DbInv, RequestInv
  <1>2. todo[r] \in Seq(Steps) /\ todo[r] # <<>> /\ Ordered(todo[r])
    BY <1>1 DEF DbInv, TypeOK, Running, RunInv
  <1>3. Of(r) \in Late /\ Of(r) \notin Early
    BY StepKinds
  <1>4. \A s : Has(todo[r], s) => s \in Late
    BY <1>2, <1>3, TailOrdered DEF Of
  <1>5. "loadConn" \notin Late /\ \A s \in Inputs : s \notin Late
    BY StepKinds DEF Early
  <1>6. ~Has(todo[r], "loadConn") /\ bad[r] = "nothing"
    BY <1>1, <1>4, <1>5 DEF RunInv
  <1>7. asked[r] \cup {cfg[r]} = {cfg[r]}
    BY <1>1 DEF Asks
  <1> QED
    BY <1>1, <1>3, <1>6, <1>7 DEF RunInv

Statuses == {200, 400, 401, 404, 500, 502}

Ends(r, status, c) ==
  /\ todo' = [todo EXCEPT ![r] = <<>>]
  /\ answer' = [answer EXCEPT ![r] = status]
  /\ client' = [client EXCEPT ![r] = c]
  /\ UNCHANGED <<outside, bad, cfg, connSeen, keySeen>>
  /\ unread' \in {unread, unread \cup {r}}
  /\ AsksAtContact(r)
  /\ bad[r] = "auth" <=> status = 401
  /\ status = 200 => Of(r) \in Contacts
  /\ status = 502 => Of(r) \in Contacts \/ cfg[r] = NoHost
  /\ status = 404 => conn = Gone \/ (Of(r) \in Contacts /\ keys[cfg[r]] = "none")
  /\ status = 500 => Of(r) \notin Late /\ (r \in unread' \/ cfg[r] = NoHost)

LEMMA AnswerPreserves ==
  ASSUME DbInv, NEW r \in Reqs, Running(r),
         NEW status \in Statuses, NEW c \in {"none", "closed"},
         Ends(r, status, c)
  PROVE  DbInv'
  <1>0. AsksAtContact(r)
    BY DEF Ends
  <1>3. /\ Of(r) \notin Contacts => asked' = asked
        /\ Of(r) \in Contacts => asked'[r] # {}
    <2>1. Of(r) \in Contacts => asked'[r] = {cfg[r]}
      BY <1>0, AtContact DEF AsksAtContact, DbInv, TypeOK
    <2> QED
      BY <1>0, <2>1 DEF AsksAtContact
  <1> USE DEF outside, seen, Statuses, Ends
  <1>1. TypeOK /\ RunInv(r) /\ Asks(r)
    BY DEF DbInv, RequestInv
  <1>2. Of(r) \in Contacts => asked'[r] = {cfg[r]} /\ bad[r] = "nothing" /\ Loaded(r)
    BY <1>1, AtContact DEF AsksAtContact, TypeOK
  <1>4. TypeOK'
    <2>1. asked' \in [Reqs -> SUBSET Configs]
      BY <1>1, AskedTyped
    <2>2. todo' \in [Reqs -> Seq(Steps)]
      BY <1>1 DEF TypeOK
    <2>3. /\ answer' \in [Reqs -> {0, 200, 400, 401, 404, 500, 502}]
          /\ client' \in [Reqs -> {"none", "opened", "deferred", "closed"}]
      BY <1>1 DEF TypeOK
    <2> QED
      BY <1>1, <2>1, <2>2, <2>3 DEF TypeOK
  <1>5. Alone(r)
    BY <1>1 DEF Alone, TypeOK, AsksAtContact
  <1>6. ~Running(r)' /\ answer'[r] = status /\ client'[r] = c
    BY <1>1 DEF Running, TypeOK
  <1>7. Asks(r)'
    BY <1>1, <1>2, <1>3 DEF Asks, Loaded
  <1>8. Explained(r)'
    <2>1. /\ bad'[r] = bad[r] /\ cfg'[r] = cfg[r]
          /\ connSeen'[r] = connSeen[r] /\ keySeen'[r] = keySeen[r]
      OBVIOUS
    <2>2. status = 404 =>
            \/ Gone \in connSeen[r]
            \/ asked'[r] # {} /\ \E k \in keySeen[r] : k[cfg[r]] = "none"
      <3>1. conn \in connSeen[r] /\ keys \in keySeen[r]
        BY <1>1 DEF RunInv
      <3>2. CASE conn = Gone
        BY <3>1, <3>2
      <3>3. CASE Of(r) \in Contacts /\ keys[cfg[r]] = "none"
        BY <1>3, <3>1, <3>3
      <3> QED
        BY <3>2, <3>3
    <2>3. status = 502 => asked'[r] # {} \/ cfg[r] = NoHost
      BY <1>3
    <2>4. status = 200 => asked'[r] # {}
      BY <1>3
    <2>5. status # 0
      OBVIOUS
    <2>6. status = 500 => asked'[r] = {} /\ (r \in unread' \/ cfg[r] = NoHost)
      BY <1>1, <1>3, StepKinds DEF RunInv
    <2> QED
      BY <1>6, <2>1, <2>2, <2>3, <2>4, <2>5, <2>6 DEF Explained
  <1>9. RequestInv(r)'
    BY <1>6, <1>7, <1>8 DEF RequestInv, RestInv
  <1> QED
    BY <1>4, <1>5, <1>9, AlonePreserves

\* The deferred Close, at any step but the PING of redix.Open.
LEMMA CloseCloses ==
  ASSUME DbInv, NEW r \in Reqs, Running(r), NEW status
  PROVE  /\ client[r] # "opened" => Close(client[r], status) \in {"none", "closed"}
         /\ Close(CloseInOpen(client[r]), status) \in {"none", "closed"}
         /\ Of(r) # "hello" => client[r] # "opened"
  BY DEF DbInv, TypeOK, RequestInv, RunInv, Close, CloseInOpen

LEMMA GoOnPreserves ==
  ASSUME DbInv, NEW r \in Reqs, Running(r),
         NEW c \in {"none", "opened", "deferred", "closed"},
         GoOn(r, c),
         c = "opened" => Of(r) = "newClient",
         Of(r) \in Early \cup Opens \cup Contacts,
         bad[r] # Of(r),
         UNCHANGED <<outside, bad, seen>>,
         AsksAtContact(r),
         IF Of(r) = "loadConn"
           THEN conn # Gone /\ conn.cfg # NoConfig /\ cfg' = [cfg EXCEPT ![r] = conn.cfg]
           ELSE UNCHANGED cfg,
         Of(r) \in Opens => cfg[r] # NoHost
  PROVE  DbInv'
  <1> USE DEF outside, seen
  <1> DEFINE e == todo[r]
  <1>1. TypeOK /\ RunInv(r) /\ Asks(r)
    BY DEF DbInv, RequestInv
  <1>2. /\ e \in Seq(Steps) /\ e # <<>> /\ Ordered(e) /\ Of(r) = Head(e) /\ Head(e) \in Steps
        /\ Tail(e) \in Seq(Steps)
    BY <1>1, TailOfSteps DEF TypeOK, Running, RunInv, Of
  <1>3. /\ Ordered(Tail(e))
        /\ Tail(e) = <<>> => Head(e) \in Late
        /\ Tail(e) # <<>> => /\ Head(e) \in Late \cup Opens <=> Head(Tail(e)) \in Late
                             /\ Head(e) = "newClient" => Head(Tail(e)) = "hello"
        /\ Head(e) \notin Early => \A s : Has(Tail(e), s) => s \in Late
        /\ \A s : Has(e, s) <=> s = Head(e) \/ Has(Tail(e), s)
        /\ ~Has(Tail(e), "auth")
    BY <1>2, TailOrdered
  <1>4. todo' = [todo EXCEPT ![r] = Tail(e)] /\ todo'[r] = Tail(e)
    BY <1>1 DEF GoOn, TypeOK
  <1>5. Of(r) \in Contacts => /\ asked'[r] = {cfg[r]} /\ bad[r] = "nothing" /\ Loaded(r)
                              /\ cfg[r] \in Servers /\ ~Has(e, "loadConn")
    BY <1>1, AtContact DEF AsksAtContact, TypeOK
  <1>6. Of(r) \notin Contacts => asked' = asked
    BY DEF AsksAtContact
  <1>7. Of(r) = "loadConn" => asked[r] = {} /\ Of(r) \notin Contacts
    BY <1>1, <1>2, <1>3, StepKinds DEF RunInv, Early
  <1>8. TypeOK'
    <2>1. asked' \in [Reqs -> SUBSET Configs] /\ todo' \in [Reqs -> Seq(Steps)]
      BY <1>1, <1>2, <1>4, AskedTyped DEF TypeOK
    <2>2. cfg' \in [Reqs -> Configs]
      <3>1. conn.cfg \in Configs /\ cfg \in [Reqs -> Configs]
        BY <1>1, ConnConfigs DEF TypeOK
      <3> QED
        BY <3>1
    <2>3. answer' \in [Reqs -> {0, 200, 400, 401, 404, 500, 502}]
      BY <1>1 DEF TypeOK, GoOn
    <2>4. client' \in [Reqs -> {"none", "opened", "deferred", "closed"}]
      <3>1. Close(c, 200) \in {"none", "opened", "deferred", "closed"}
        BY DEF Close
      <3>2. client \in [Reqs -> {"none", "opened", "deferred", "closed"}]
        BY <1>1 DEF TypeOK
      <3>3. client' = [client EXCEPT ![r] = c] \/ client' = [client EXCEPT ![r] = Close(c, 200)]
        BY DEF GoOn
      <3> QED
        BY <3>1, <3>2, <3>3
    <2> QED
      BY <1>1, <2>1, <2>2, <2>3, <2>4 DEF TypeOK
  <1>9. Alone(r)
    BY <1>1 DEF Alone, TypeOK, AsksAtContact, GoOn
  <1>10. Asks(r)'
    BY <1>1, <1>5, <1>6, <1>7 DEF Asks, Loaded
  <1>11. CASE Tail(e) = <<>>
    <2>1. Of(r) \in Contacts
      BY <1>2, <1>3, <1>11, StepKinds
    <2>2. answer'[r] = 200 /\ client'[r] \in {"none", "closed"}
      <3>1. answer'[r] = 200 /\ client'[r] = Close(c, 200)
        BY <1>1, <1>11 DEF GoOn, TypeOK
      <3>2. c # "opened"
        BY <2>1, StepKinds DEF Opens
      <3> QED
        BY <3>1, <3>2 DEF Close
    <2>3. Explained(r)' /\ RestInv(r)'
      BY <1>5, <2>1, <2>2, StepKinds DEF Explained, RestInv
    <2> QED
      BY <1>4, <1>8, <1>9, <1>10, <1>11, <2>3, AlonePreserves DEF RequestInv, Running
  <1>12. CASE Tail(e) # <<>>
    <2>1. answer'[r] = 0 /\ client'[r] = c
      BY <1>1, <1>12 DEF GoOn, TypeOK, RunInv
    <2>2. Running(r)' /\ Of(r)' = Head(Tail(e))
      BY <1>4, <1>12 DEF Running, Of
    <2>3. (client[r] = "opened")' => Of(r)' = "hello"
      BY <1>2, <1>3, <1>12, <2>1, <2>2
    <2>4. bad[r] # "nothing" => bad[r] \in Inputs /\ Has(Tail(e), bad[r])
      BY <1>1, <1>2, <1>3 DEF RunInv
    <2>5. Has(Tail(e), "loadConn") => asked'[r] = {}
      BY <1>1, <1>3, <1>5, <1>6 DEF RunInv
    <2>6. ~Has(Tail(e), "loadConn") => Loaded(r)'
      <3>1. CASE Of(r) = "loadConn"
        BY <1>1, <3>1 DEF Loaded, RunInv, TypeOK
      <3>2. CASE Of(r) # "loadConn"
        BY <1>1, <1>2, <1>3, <3>2 DEF Loaded, RunInv
      <3> QED
        BY <3>1, <3>2
    <2>10. Head(Tail(e)) \notin Late => asked'[r] = {}
      BY <1>1, <1>2, <1>3, <1>6, <1>12, StepKinds DEF RunInv
    <2>7. Head(Tail(e)) \in Late => cfg'[r] \in Servers
      <3> SUFFICES ASSUME Head(Tail(e)) \in Late PROVE cfg'[r] \in Servers
        OBVIOUS
      <3>1. Of(r) \in Contacts \/ Of(r) \in Opens
        BY <1>2, <1>3, <1>12, StepKinds
      <3>2. CASE Of(r) \in Contacts
        BY <1>5, <1>7, <3>2
      <3>3. CASE Of(r) \in Opens
        <4>1. Of(r) # "loadConn" /\ "loadConn" \notin Late /\ Of(r) \notin Early
          BY <3>3, StepKinds DEF Early
        <4>2. ~Has(e, "loadConn")
          BY <1>2, <1>3, <4>1
        <4> QED
          BY <1>1, <3>3, <4>1, <4>2 DEF RunInv, Loaded, TypeOK, Configs
      <3> QED
        BY <3>1, <3>2, <3>3
    <2>8. Explained(r)'
      BY <1>1, <1>3, <2>1, <2>4 DEF Explained
    <2>9. RunInv(r)'
      BY <1>1, <1>3, <1>4, <2>1, <2>2, <2>3, <2>4, <2>5, <2>6, <2>7, <2>10 DEF RunInv
    <2> QED
      BY <1>8, <1>9, <1>10, <2>2, <2>8, <2>9, AlonePreserves DEF RequestInv
  <1> QED
    BY <1>11, <1>12

(***************************************************************************)
(* One lemma per action.                                                   *)
(***************************************************************************)
LEMMA ArrivePreserves ==
  ASSUME DbInv, NEW r \in Reqs, NEW e \in routes, NEW b \in InputsOf(e) \cup {"nothing"},
         Arrive(r, e, b)
  PROVE  DbInv'
  <1> USE DEF Arrive, outside
  <1>1. TypeOK /\ RestInv(r) /\ ~Running(r) /\ answer[r] = 0 /\ asked[r] = {}
    BY DEF DbInv, RequestInv, RestInv
  <1>2. /\ e \in Seq(Steps) /\ e # <<>> /\ Ordered(e) /\ Head(e) = "auth"
        /\ Has(e, "loadConn")
    BY RouteOrdered
  <1>3. b # "nothing" => b \in Inputs /\ Has(e, b)
    BY DEF InputsOf, Has
  <1>4. TypeOK'
    BY <1>1, <1>2, <1>3 DEF TypeOK
  <1>5. Alone(r)
    BY <1>1 DEF Alone, TypeOK
  <1>6. Running(r)' /\ Of(r)' = "auth" /\ todo'[r] = e /\ bad'[r] = b
        /\ connSeen'[r] = {conn} /\ keySeen'[r] = {keys}
    BY <1>1, <1>2 DEF Running, Of, TypeOK
  <1>7. "auth" \notin Late
    BY StepKinds DEF Early, Inputs
  <1>8. RunInv(r)'
    BY <1>1, <1>2, <1>3, <1>6, <1>7 DEF RunInv, RestInv
  <1>9. Asks(r)' /\ Explained(r)'
    BY <1>1 DEF Asks, Explained
  <1> QED
    BY <1>4, <1>5, <1>6, <1>8, <1>9, AlonePreserves DEF RequestInv

\* The kinds of the steps of the actions.
LEMMA KindFacts ==
  /\ \A s \in Inputs : s \in Early /\ s \notin Contacts /\ s # "hello" /\ s \notin Opens
  /\ "loadConn" \in Early /\ "loadConn" \notin Contacts /\ "loadConn" \notin Opens
  /\ \A s \in Opens : s \notin Contacts /\ s \notin Inputs
  /\ \A s \in Contacts : s \notin Inputs /\ s \notin Opens
  /\ "stream" \notin Contacts /\ "stream" \notin Inputs /\ "loadConn" \notin Inputs
  /\ "auth" \in Inputs
  BY DEF Early, Inputs, Opens, Contacts, ReadTypes

\* The token is looked at first: at any other step it is in order.
LEMMA AuthFirst ==
  ASSUME DbInv, NEW r \in Reqs, Running(r), bad[r] = "auth"
  PROVE  Of(r) = "auth"
  <1>1. RunInv(r) /\ todo[r] \in Seq(Steps) /\ todo[r] # <<>>
    BY DEF DbInv, RequestInv, TypeOK, Running
  <1>2. Has(todo[r], "auth") /\ Ordered(todo[r])
    BY <1>1 DEF RunInv
  <1>3. ~Has(Tail(todo[r]), "auth") /\ (Has(todo[r], "auth") <=> "auth" = Head(todo[r]) \/ Has(Tail(todo[r]), "auth"))
    BY <1>1, <1>2, TailOrdered
  <1> QED
    BY <1>2, <1>3 DEF Of

\* An answer before any server is asked.
LEMMA ReturnPreserves ==
  ASSUME DbInv, NEW r \in Reqs, Running(r),
         NEW status \in Statuses \ {200}, Return(r, status),
         Of(r) \notin Contacts,
         status = 401 <=> bad[r] = "auth",
         status = 404 => conn = Gone,
         status = 502 => cfg[r] = NoHost,
         status = 500 => Of(r) \notin Late /\ cfg[r] = NoHost
  PROVE  DbInv'
  <1>1. Of(r) # "hello"
    BY DEF Contacts
  <1>2. PICK c \in {"none", "closed"} : c = Close(client[r], status)
    BY <1>1, CloseCloses
  <1>3. AsksAtContact(r)
    BY DEF AsksAtContact, Return
  <1>4. Ends(r, status, c)
    BY <1>2, <1>3 DEF Ends, Return, Answer, seen
  <1>5. status \in Statuses
    OBVIOUS
  <1> HIDE DEF Return, Answer
  <1> QED
    BY <1>4, <1>5, AnswerPreserves

LEMMA LoadFailsPreserves ==
  ASSUME DbInv, NEW r \in Reqs, Running(r), Of(r) = "loadConn",
         NEW code \in {"not_found", "type_mismatch", "storage_error"}, LoadFails(r, code),
         code = "not_found" => conn = Gone
  PROVE  DbInv'
  <1> DEFINE status == writeConnLoadErr(code)
  <1>1. /\ Of(r) \notin Contacts /\ Of(r) \notin Late /\ Of(r) # "hello" /\ bad[r] # "auth"
    BY KindFacts, AuthFirst, StepKinds DEF Contacts
  <1>2. PICK c \in {"none", "closed"} : c = Close(client[r], status)
    BY <1>1, CloseCloses
  <1>3. AsksAtContact(r)
    BY <1>1 DEF AsksAtContact, LoadFails
  <1>4. /\ status \in Statuses \ {200, 401, 502}
        /\ status = 404 => conn = Gone
        /\ status = 500 => code = "storage_error"
    BY DEF writeConnLoadErr, Statuses
  <1> HIDE DEF status
  <1>5. Answer(r, status) /\ UNCHANGED <<outside, bad, cfg, connSeen, keySeen>>
        /\ unread' = IF code = "storage_error" THEN unread \cup {r} ELSE unread
    BY DEF LoadFails, status
  <1>6. Ends(r, status, c)
    BY <1>1, <1>2, <1>3, <1>4, <1>5 DEF Ends, Answer
  <1>7. status \in Statuses
    BY <1>4
  <1> QED
    BY <1>6, <1>7, AnswerPreserves

LEMMA ProceedsPreserves ==
  ASSUME DbInv, NEW r \in Reqs,
         CheckInput(r) \/ LoadConn(r) \/ OpenMySQL(r) \/ NewClient(r) \/ Unsupported(r)
  PROVE  DbInv'
  <1>1. /\ client[r] \in {"none", "opened", "deferred", "closed"}
        /\ bad[r] \in Inputs \cup {"nothing"} /\ conn \in Conns
    BY DEF DbInv, TypeOK
  <1>2. Running(r)
    BY DEF CheckInput, LoadConn, OpenMySQL, NewClient, Unsupported
  <1>3. Of(r) \notin Contacts
    BY KindFacts DEF CheckInput, LoadConn, OpenMySQL, NewClient, Unsupported, Opens
  <1>4. client[r] # "opened"
    BY <1>2, <1>3, CloseCloses DEF Contacts
  <1>5. AsksAtContact(r) <=> UNCHANGED asked
    BY <1>3 DEF AsksAtContact
  <1>6. Of(r) # "auth" => bad[r] # "auth"
    BY <1>2, AuthFirst
  <1>7. "nothing" \notin Inputs /\ Of(r) # "nothing"
    <2>1. "nothing" \notin Inputs
      BY StepKinds
    <2>2. Of(r) \in Inputs \/ Of(r) \in {"loadConn", "open", "openForTest", "newClient", "stream"}
      BY DEF CheckInput, LoadConn, OpenMySQL, NewClient, Unsupported
    <2> QED
      BY <2>1, <2>2
  <1>8. CASE CheckInput(r)
    <2>1. CASE bad[r] = Of(r)
      BY <1>2, <1>3, <1>6, <1>8, <2>1, ReturnPreserves DEF Statuses, CheckInput
    <2>2. CASE bad[r] # Of(r)
      <3>1. GoOn(r, client[r]) /\ UNCHANGED <<outside, bad, cfg, asked, seen>>
        BY <1>8, <2>2 DEF CheckInput
      <3>2. Of(r) \in Early /\ Of(r) \notin Opens /\ Of(r) # "loadConn"
        BY <1>8, KindFacts DEF CheckInput
      <3> QED
        BY <1>1, <1>2, <1>4, <1>5, <2>2, <3>1, <3>2, GoOnPreserves DEF outside, seen
    <2> QED
      BY <2>1, <2>2
  <1>9. CASE LoadConn(r)
    <2>1. Of(r) = "loadConn" /\ bad[r] # "auth" /\ bad[r] # Of(r)
      BY <1>1, <1>6, <1>7, <1>9, KindFacts DEF LoadConn
    <2>2. CASE \/ LoadFails(r, "storage_error")
               \/ conn = Gone /\ LoadFails(r, "not_found")
               \/ LoadFails(r, "type_mismatch")
      BY <1>2, <2>1, <2>2, LoadFailsPreserves
    <2>4. CASE Return(r, 400)
      BY <1>2, <1>3, <2>1, <2>4, ReturnPreserves DEF Statuses
    <2>3. CASE /\ conn.type = Wants(todo[r]) /\ conn.cfg # NoConfig
               /\ cfg' = [cfg EXCEPT ![r] = conn.cfg]
               /\ GoOn(r, client[r])
               /\ UNCHANGED <<outside, bad, asked, seen>>
      <3>1. conn # Gone
        BY <2>3 DEF Gone, Wants
      <3>2. Of(r) \in Early /\ Of(r) \notin Opens
        BY <2>1, KindFacts
      <3> QED
        BY <1>1, <1>2, <1>4, <1>5, <2>1, <2>3, <3>1, <3>2, GoOnPreserves DEF outside, seen
    <2> QED
      BY <1>9, <2>2, <2>3, <2>4 DEF LoadConn
  <1>10. CASE OpenMySQL(r)
    <2>1. Of(r) \in Opens /\ Of(r) # "loadConn" /\ bad[r] # "auth" /\ bad[r] # Of(r)
      BY <1>1, <1>6, <1>7, <1>10, KindFacts DEF OpenMySQL, Opens
    <2>4. Of(r) \notin Late
      BY <1>10 DEF OpenMySQL, Late, Contacts, ReadTypes
    <2>2. CASE cfg[r] = NoHost
      BY <1>2, <1>3, <1>10, <2>1, <2>2, <2>4, ReturnPreserves DEF Statuses, OpenMySQL
    <2>3. CASE cfg[r] # NoHost
      <3>1. GoOn(r, "deferred") /\ UNCHANGED <<outside, bad, cfg, asked, seen>>
        BY <1>10, <2>3 DEF OpenMySQL
      <3> QED
        BY <1>2, <1>5, <2>1, <2>3, <3>1, GoOnPreserves DEF outside, seen
    <2> QED
      BY <2>2, <2>3
  <1>11. CASE NewClient(r)
    <2>1. Of(r) = "newClient" /\ Of(r) \in Opens /\ bad[r] # "auth" /\ bad[r] # Of(r)
      BY <1>1, <1>6, <1>7, <1>11, KindFacts DEF NewClient, Opens
    <2>2. CASE cfg[r] = NoHost
      BY <1>2, <1>3, <1>11, <2>1, <2>2, ReturnPreserves DEF Statuses, NewClient
    <2>3. CASE cfg[r] # NoHost
      <3>1. GoOn(r, "opened") /\ UNCHANGED <<outside, bad, cfg, asked, seen>>
        BY <1>11, <2>3 DEF NewClient
      <3> QED
        BY <1>2, <1>5, <2>1, <2>3, <3>1, GoOnPreserves DEF outside, seen
    <2> QED
      BY <2>2, <2>3
  <1>12. CASE Unsupported(r)
    BY <1>2, <1>3, <1>6, <1>12, ReturnPreserves DEF Statuses, Unsupported
  <1> QED
    BY <1>8, <1>9, <1>10, <1>11, <1>12

\* The steps that ask the server.
LEMMA ContactGoesOn ==
  ASSUME DbInv, NEW r \in Reqs, Contact(r),
         NEW c \in {"none", "deferred", "closed"}, GoOn(r, c),
         UNCHANGED <<outside, bad, cfg, seen>>
  PROVE  DbInv'
  <1>1. Running(r) /\ Of(r) \in Contacts /\ AsksAtContact(r)
    BY DEF Contact, AsksAtContact
  <1>2. /\ Of(r) \in Early \cup Opens \cup Contacts /\ Of(r) \notin Opens /\ Of(r) # "loadConn"
        /\ bad[r] # Of(r)
    <2>1. bad[r] = "nothing" /\ "nothing" \notin Contacts
      BY <1>1, AtContact DEF Contacts, ReadTypes
    <2> QED
      BY <1>1, <2>1, KindFacts
  <1> QED
    BY <1>1, <1>2, GoOnPreserves DEF outside, seen

\* A contact is the end of the request, with d for its client.
EndsWith(r, status, d) ==
  /\ todo' = [todo EXCEPT ![r] = <<>>]
  /\ answer' = [answer EXCEPT ![r] = status]
  /\ client' = [client EXCEPT ![r] = d]
  /\ UNCHANGED <<outside, bad, cfg, seen>>
  /\ status = 404 => keys[cfg[r]] = "none"
  /\ d \in {"none", "closed"}

LEMMA ContactAnswers ==
  ASSUME DbInv, NEW r \in Reqs, Contact(r), NEW status \in {200, 404, 502},
         NEW d, EndsWith(r, status, d)
  PROVE  DbInv'
  <1>1. Running(r) /\ Of(r) \in Contacts /\ AsksAtContact(r)
    BY DEF Contact, AsksAtContact
  <1>2. bad[r] # "auth"
    BY <1>1, AtContact
  <1>3. PICK c \in {"none", "closed"} : c = d
    BY DEF EndsWith
  <1>4. Ends(r, status, c)
    BY <1>1, <1>2, <1>3 DEF Ends, EndsWith, seen
  <1>5. status \in Statuses
    BY DEF Statuses
  <1> QED
    BY <1>1, <1>4, <1>5, AnswerPreserves

\* The preview goes on with the read of the type it found.
LEMMA PreviewGoesOn ==
  ASSUME DbInv, NEW r \in Reqs, Contact(r), Of(r) = "meta",
         keys[cfg[r]] # "none",
         todo' = [todo EXCEPT ![r] = <<keys[cfg[r]]>>],
         UNCHANGED <<client, answer, outside, bad, cfg, seen>>
  PROVE  DbInv'
  <1> USE DEF outside, seen
  <1> DEFINE t == keys[cfg[r]]
  <1>1. /\ TypeOK /\ Running(r) /\ Of(r) \in Contacts /\ AsksAtContact(r)
        /\ RunInv(r) /\ Asks(r) /\ Explained(r)
    BY DEF Contact, AsksAtContact, DbInv, RequestInv
  <1>2. bad[r] = "nothing" /\ cfg[r] \in Servers /\ Loaded(r)
        /\ asked[r] \cup {cfg[r]} = {cfg[r]}
    BY <1>1, AtContact
  <1>3. t \in ReadTypes \cup {"stream"}
    BY <1>1, <1>2, KeyTypesAssumption DEF TypeOK, Types
  <1>4. t \in Late /\ t \in Steps /\ t \notin Early /\ t \notin Opens
        /\ t # "newClient" /\ t # "auth" /\ t # "loadConn"
    BY <1>3 DEF Late, Steps, Early, Opens, Contacts, Inputs, ReadTypes
  <1> HIDE DEF t
  <1>5. <<t>> \in Seq(Steps) /\ <<t>> # <<>> /\ DOMAIN <<t>> = {1} /\ <<t>>[1] = t
    BY <1>4
  <1>6. Ordered(<<t>>) /\ ~Has(<<t>>, "loadConn")
    BY <1>4, <1>5 DEF Ordered, Has
  <1>7. todo'[r] = <<t>> /\ Running(r)' /\ Of(r)' = t
    BY <1>1, <1>5 DEF TypeOK, Running, Of, t
  <1>8. asked'[r] = {cfg[r]}
    BY <1>1, <1>2 DEF AsksAtContact, TypeOK
  <1>9. TypeOK'
    <2>1. asked' \in [Reqs -> SUBSET Configs]
      BY <1>1, AskedTyped
    <2>2. todo' \in [Reqs -> Seq(Steps)]
      BY <1>1, <1>5 DEF TypeOK, t
    <2> QED
      BY <1>1, <2>1, <2>2 DEF TypeOK
  <1>10. Alone(r)
    BY <1>1 DEF Alone, TypeOK, AsksAtContact
  <1>11. client[r] # "opened"
    BY <1>1 DEF RunInv
  <1>12. RunInv(r)'
    BY <1>1, <1>2, <1>4, <1>6, <1>7, <1>8, <1>11 DEF RunInv, Loaded
  <1>13. Asks(r)' /\ Explained(r)'
    BY <1>1, <1>2, <1>8 DEF Asks, Explained, Loaded, RunInv
  <1> QED
    BY <1>7, <1>9, <1>10, <1>12, <1>13, AlonePreserves DEF RequestInv

LEMMA ContactsPreserve ==
  ASSUME DbInv, NEW r \in Reqs,
         ServerAnswers(r) \/ Hello(r) \/ Meta(r) \/ ReadKey(r) \/ Fails(r)
  PROVE  DbInv'
  <1>1. Contact(r) /\ Running(r)
    BY DEF ServerAnswers, Hello, Meta, ReadKey, Fails, Contact
  <1>2. client[r] \in {"none", "opened", "deferred", "closed"}
    BY DEF DbInv, TypeOK
  <1>3. Of(r) # "hello" => client[r] \in {"none", "deferred", "closed"}
    BY <1>1, <1>2, CloseCloses
  <1>4. ASSUME NEW status
        PROVE  /\ Of(r) # "hello" => Close(client[r], status) \in {"none", "closed"}
               /\ Close(CloseInOpen(client[r]), status) \in {"none", "closed"}
    BY <1>1, CloseCloses
  <1>5. CASE ServerAnswers(r)
    BY <1>1, <1>3, <1>5, ContactGoesOn DEF ServerAnswers
  <1>6. CASE Hello(r)
    BY <1>1, <1>6, ContactGoesOn DEF Hello
  <1>7. CASE Meta(r)
    <2>1. Of(r) = "meta" /\ UNCHANGED <<outside, bad, cfg, seen>>
      BY <1>7 DEF Meta
    <2>2. CASE /\ keys[cfg[r]] # "none"
               /\ todo' = [todo EXCEPT ![r] = <<keys[cfg[r]]>>] /\ UNCHANGED <<client, answer>>
      BY <1>1, <2>1, <2>2, PreviewGoesOn
    <2>3. CASE Answer(r, IF keys[cfg[r]] = "none" THEN 404 ELSE 200)
      <3> DEFINE status == IF keys[cfg[r]] = "none" THEN 404 ELSE 200
      <3>1. status \in {200, 404, 502} /\ (status = 404 => keys[cfg[r]] = "none")
        OBVIOUS
      <3>2. Answer(r, status)
        BY <2>3
      <3> HIDE DEF status
      <3>3. EndsWith(r, status, Close(client[r], status))
        BY <1>4, <2>1, <3>1, <3>2 DEF Answer, EndsWith
      <3> QED
        BY <1>1, <3>1, <3>3, ContactAnswers
    <2> QED
      BY <1>7, <2>2, <2>3 DEF Meta
  <1>8. CASE ReadKey(r)
    <2> DEFINE t == keys[cfg[r]]
    <2>1. Of(r) # "hello" /\ UNCHANGED <<outside, bad, cfg, seen>>
      BY <1>8 DEF ReadKey, ReadTypes
    <2>2. CASE GoOn(r, client[r])
      BY <1>1, <1>3, <2>1, <2>2, ContactGoesOn
    <2>3. CASE Answer(r, ReadError(t))
      <3>1. ReadError(t) \in {200, 404, 502} /\ (ReadError(t) = 404 => t = "none")
        BY DEF ReadError
      <3>2. EndsWith(r, ReadError(t), Close(client[r], ReadError(t)))
        BY <1>4, <2>1, <2>3, <3>1 DEF Answer, EndsWith
      <3> QED
        BY <1>1, <3>1, <3>2, ContactAnswers
    <2> QED
      BY <1>8, <2>2, <2>3 DEF ReadKey
  <1>9. CASE Fails(r)
    <2>1. EndsWith(r, 502, Close(CloseInOpen(client[r]), 502))
      BY <1>4, <1>9 DEF Fails, EndsWith
    <2> QED
      BY <1>1, <2>1, ContactAnswers
  <1> QED
    BY <1>5, <1>6, <1>7, <1>8, <1>9

(***************************************************************************)
(* The theorems.                                                           *)
(***************************************************************************)
LEMMA Inductive == DbInv /\ [Next]_vars => DbInv'
  <1> SUFFICES ASSUME DbInv, [Next]_vars PROVE DbInv'
    OBVIOUS
  <1>1. CASE UNCHANGED vars
    BY <1>1 DEF vars, outside, local, seen, DbInv, TypeOK, RequestInv, RunInv, RestInv,
         Asks, Explained, Running, Of, Loaded
  <1>2. ASSUME NEW c \in Conns, EditConn(c)
        PROVE  DbInv'
    BY <1>2, OutsidePreserves DEF EditConn, DbInv, TypeOK
  <1>3. ASSUME NEW s \in Servers, NEW t \in Types, ChangeKey(s, t)
        PROVE  DbInv'
    <2>1. conn \in Conns /\ [keys EXCEPT ![s] = t] \in [Servers -> Types]
      BY DEF DbInv, TypeOK
    <2> QED
      BY <1>3, <2>1, OutsidePreserves DEF ChangeKey
  <1>4. ASSUME NEW r \in Reqs, NEW e \in routes, NEW b \in InputsOf(e) \cup {"nothing"},
               Arrive(r, e, b)
        PROVE  DbInv'
    BY <1>4, ArrivePreserves
  <1>5. ASSUME NEW r \in Reqs, Proceeds(r) \/ ServerAnswers(r) \/ Hello(r) \/ Meta(r) \/ ReadKey(r)
        PROVE  DbInv'
    BY <1>5, ProceedsPreserves, ContactsPreserve DEF Proceeds
  <1> QED
    BY <1>1, <1>2, <1>3, <1>4, <1>5 DEF Next

THEOREM Invariant == Spec => []DbInv
  <1> QED
    BY InitDbInv, Inductive, PTL DEF Spec

(***************************************************************************)
(* Every variable keeps its type.                                          *)
(***************************************************************************)
THEOREM TypeCorrect == Spec => []TypeOK
  <1>1. DbInv => TypeOK
    BY DEF DbInv
  <1> QED
    BY <1>1, Invariant, PTL

(***************************************************************************)
(* No early return of the sixteen handlers or of redix.Open leaves a       *)
(* client or a pool open behind it (handlers_redis.go:62-67,               *)
(* redis_client.go:42-48).                                                 *)
(***************************************************************************)
THEOREM NothingLeftOpen == Spec => []ClientsClosed
  <1>1. DbInv => ClientsClosed
    BY DEF DbInv, RequestInv, RestInv, ClientsClosed
  <1> QED
    BY <1>1, Invariant, PTL

(***************************************************************************)
(* A request asks one server, that of the connection it loaded, and only   *)
(* with its input and its token in order (handlers_redis.go:186-223,       *)
(* handlers_mysql.go:178-224).                                             *)
(***************************************************************************)
THEOREM OneServerAsked == Spec => []AsksItsServer
  <1>1. DbInv => AsksItsServer
    BY DEF DbInv, RequestInv, AsksItsServer
  <1> QED
    BY <1>1, Invariant, PTL

(***************************************************************************)
(* A status means what it says of the time of the request                  *)
(* (connutil.go:28-52, handlers_mysql.go:312-333).                         *)
(***************************************************************************)
THEOREM StatusesExplained == Spec => []StatusExplained
  <1>1. DbInv => StatusExplained
    BY DEF DbInv, RequestInv, StatusExplained
  <1> QED
    BY <1>1, Invariant, PTL
=============================================================================
