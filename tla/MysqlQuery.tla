------------------------------ MODULE MysqlQuery ------------------------------
(***************************************************************************)
(* A query from the button to the table: the query tab                     *)
(* (webui/src/workspace/tabs/MysqlQueryTab.tsx) and the data tab           *)
(* (MysqlDataTab.tsx), which share the request and the pages, and the      *)
(* handler that guards, runs, limits and answers                           *)
(* (internal/httpapi/handlers_mysql.go).  A result is a number of rows,    *)
(* the rows with a cell that is too long, and the row after which MySQL    *)
(* breaks off.                                                             *)
(***************************************************************************)
EXTENDS SqlGuard

CONSTANTS
  Texts,        \* what the user may type for the first run
  LaterTexts,   \* and, as a bound, for the later ones
  MaxRows,      \* mysqlQueryMaxRows, 5000 in the code
  MaxWarnings,  \* mysqlQueryMaxWarnings, 20 in the code
  Sizes,        \* sizes of a page of the table
  Never         \* no row: the result does not break off

ASSUME LimitsAssumption ==
  /\ MaxRows \in Nat \ {0} /\ MaxWarnings \in Nat \ {0}
  /\ Sizes \subseteq Nat \ {0} /\ Sizes # {}
ASSUME TextsAssumption == Texts \cup LaterTexts \subseteq Seq(Chars)

VARIABLES
  tab,          \* "query" or "data"
  text,         \* the text of the next run
  stage, sent,  \* where the tab's one request stands, and its text
  result,       \* what MySQL has for it
  rows, truncated, warnings,   \* what the handler has gathered
  resp, sqlErr,  \* what the tab shows
  pageNo, pageSize

editor == <<tab, text>>
gathered == <<rows, truncated, warnings>>
pages == <<pageNo, pageSize>>
queryVars == <<editor, stage, sent, result, gathered, resp, sqlErr, pages>>

Select == <<Read, ";">>   \* SELECT * FROM the table LIMIT ...;

NoResult == [total |-> 0, breaks |-> Never, long |-> {}]
NoResp == [rows |-> 0, truncated |-> "none", warnings |-> 0, of |-> NoResult]

\* One row more than the limit is enough to meet it.
Results ==
  {[total |-> n, breaks |-> b, long |-> L] :
     n \in 0..(MaxRows + 1), b \in 0..(MaxRows + 1) \cup {Never}, L \in SUBSET (1..MaxRows)}

AtMost(n, m) == IF n <= m THEN n ELSE m

(***************************************************************************)
(* The tabs.                                                               *)
(***************************************************************************)
\* run, up to its await.  The button waits for the answer.  Only the query
\* tab takes the old result away.  The data tab always selects from its
\* table; in the query tab the user goes on typing.
Run(typed) ==
  /\ stage = "idle"
  /\ Trim(text) # <<>>
  /\ stage' = "sent"
  /\ sent' = Trim(text)
  /\ text' = IF tab = "query" THEN typed ELSE text
  /\ resp' = IF tab = "query" THEN NoResp ELSE resp
  /\ sqlErr' = "no"
  /\ UNCHANGED <<tab, result, gathered, pages>>

\* A blank text is not sent; the user types another.
Retype(typed) ==
  /\ stage = "idle"
  /\ Trim(text) = <<>>
  /\ text' = typed
  /\ UNCHANGED <<tab, stage, sent, result, gathered, resp, sqlErr, pages>>

PagesOf(n, size) == (n + size - 1) \div size

\* The page antd shows when it is asked for page p of n rows.
ShownPage(p, n, size) == AtMost(p, IF n = 0 THEN 1 ELSE PagesOf(n, size))

TurnPage(p) ==
  /\ p \in 1..PagesOf(resp.rows, pageSize)
  /\ pageNo' = p
  /\ UNCHANGED <<editor, stage, sent, result, gathered, resp, sqlErr, pageSize>>

ResizePage(size) ==
  /\ pageNo' = ShownPage(ShownPage(pageNo, resp.rows, pageSize), resp.rows, size)
  /\ pageSize' = size
  /\ UNCHANGED <<editor, stage, sent, result, gathered, resp, sqlErr>>

(***************************************************************************)
(* The handler.                                                            *)
(***************************************************************************)
Answered ==
  /\ stage' = "idle"
  /\ sent' = <<>>
  /\ result' = NoResult
  /\ rows' = 0
  /\ truncated' = FALSE
  /\ warnings' = 0

\* Any answer but 200, before or after some rows.
Fails ==
  /\ Answered
  /\ sqlErr' = "yes"
  /\ UNCHANGED <<editor, resp, pages>>

\* loadConn, the guard, Open.
CheckText ==
  /\ stage = "sent"
  /\ IF ValidateMySQLReadonly(sent)
       THEN /\ stage' = "accepted"
            /\ sent' = <<>>
            /\ UNCHANGED <<editor, result, gathered, resp, sqlErr, pages>>
       ELSE Fails

\* QueryContext.  The data tab's statement ends in a LIMIT that its input
\* keeps within 1..5000, which is the handler's limit too.
Query(r) ==
  /\ stage = "accepted"
  /\ tab = "data" => r.total <= MaxRows
  /\ r.breaks # Never => r.breaks <= r.total
  /\ \A i \in r.long : i <= r.total
  /\ result' = r
  /\ stage' = "rows"
  /\ UNCHANGED <<editor, sent, gathered, resp, sqlErr, pages>>

\* A mutant of Warn: as many warnings as there are reasons.
WarnAlways(some) == warnings' = warnings + some

Warn(some) == warnings' = AtMost(warnings + some, MaxWarnings)

HasNext == stage = "rows" /\ rows < result.total /\ rows # result.breaks

\* A mutant of StopAtLimit: the limit is looked at before rows.Next.
StopAtLast ==
  /\ stage = "rows"
  /\ rows >= MaxRows
  /\ truncated' = TRUE
  /\ Warn(1)
  /\ stage' = "end"
  /\ UNCHANGED <<editor, sent, result, rows, resp, sqlErr, pages>>

\* rows.Next says that there is a row more than the limit.
StopAtLimit ==
  /\ HasNext
  /\ rows >= MaxRows
  /\ truncated' = TRUE
  /\ Warn(1)
  /\ stage' = "end"
  /\ UNCHANGED <<editor, sent, result, rows, resp, sqlErr, pages>>

AppendRow ==
  /\ HasNext
  /\ rows < MaxRows
  /\ rows' = rows + 1
  /\ IF rows + 1 \in result.long THEN truncated' = TRUE /\ Warn(1)
                                 ELSE UNCHANGED <<truncated, warnings>>
  /\ UNCHANGED <<editor, stage, sent, result, resp, sqlErr, pages>>

\* rows.Err after a loop that ended by itself.
RowsBreak ==
  /\ stage = "rows"
  /\ rows = result.breaks
  /\ Fails

\* A mutant of AnswerRows: the page of the result before stays.
AnswerKeepsPage ==
  /\ stage = "end" \/ (stage = "rows" /\ rows = result.total /\ rows # result.breaks)
  /\ resp' = [rows |-> rows, truncated |-> IF truncated THEN "yes" ELSE "no",
              warnings |-> warnings, of |-> result]
  /\ Answered
  /\ UNCHANGED <<editor, sqlErr, pages>>

\* The answer 200, and run after its await.
AnswerRows ==
  /\ stage = "end" \/ (stage = "rows" /\ rows = result.total /\ rows # result.breaks)
  /\ resp' = [rows |-> rows, truncated |-> IF truncated THEN "yes" ELSE "no",
              warnings |-> warnings, of |-> result]
  /\ pageNo' = 1
  /\ Answered
  /\ UNCHANGED <<editor, sqlErr, pageSize>>

\* The file, MySQL, the network, or the thirty seconds of a query.
QueryFails ==
  /\ stage # "idle"
  /\ Fails

Unanswered ==
  /\ result = NoResult
  /\ rows = 0
  /\ truncated = FALSE
  /\ warnings = 0
  /\ resp = NoResp
  /\ sqlErr = "no"
  /\ pageNo = 1
  /\ pageSize = CHOOSE s \in Sizes : TRUE

\* The data tab loads as it opens; the query tab waits for the user.
QueryInit ==
  /\ \/ tab = "query" /\ text \in Texts /\ stage = "idle" /\ sent = <<>>
     \/ tab = "data" /\ text = Select /\ stage = "sent" /\ sent = Select
  /\ Unanswered

QueryNext ==
  \/ \E typed \in LaterTexts : Run(typed) \/ Retype(typed)
  \/ \E p \in 1..MaxRows : TurnPage(p)
  \/ \E s \in Sizes : ResizePage(s)
  \/ CheckText
  \/ \E r \in Results : Query(r)
  \/ StopAtLimit \/ AppendRow \/ RowsBreak \/ AnswerRows \/ QueryFails

QuerySpec == QueryInit /\ [][QueryNext]_queryVars

(***************************************************************************)
(* Properties.                                                             *)
(***************************************************************************)
QueryTypeOK ==
  /\ tab \in {"query", "data"}
  /\ stage \in {"idle", "sent", "accepted", "rows", "end"}
  /\ sent \in Seq(Chars)
  /\ result \in Results
  /\ rows \in 0..MaxRows
  /\ truncated \in BOOLEAN
  /\ warnings \in 0..MaxWarnings
  /\ resp.rows \in 0..MaxRows
  /\ resp.truncated \in {"none", "yes", "no"}
  /\ sqlErr \in {"yes", "no"}
  /\ pageNo \in 1..MaxRows
  /\ pageSize \in Sizes

(***************************************************************************)
(* The pass over the characters (mysql_readonly.go:50-151) and the search  *)
(* for the first word (153-210) agree with the lexical rules of MySQL,     *)
(* wherever the two take the same pieces of a text for comments: a text    *)
(* that is sent is let through when it is one statement, but for a last    *)
(* semicolon that nothing follows, and its first word starts a read.       *)
(***************************************************************************)
GuardFollowsRules == stage = "sent" => FollowsRules(sent)

(***************************************************************************)
(* "A single trailing semicolon is allowed" (mysql_readonly.go:48-49, which*)
(* speaks of semicolons outside of quotes and comments): one read that ends*)
(* in a semicolon is let through, a comment after it or not.               *)
(***************************************************************************)
TrailingSemicolonAllowed ==
  stage = "sent" => (CommentsAlike(sent) /\ OneRead(sent) => ValidateMySQLReadonly(sent))

(***************************************************************************)
(* A result on the screen has every row up to the limit and says so when   *)
(* anything is missing: truncated exactly when there are more rows than    *)
(* the limit or a cell was cut, then with a warning; and MySQL did not     *)
(* break off before the last of its rows (handlers_mysql.go:259-309).      *)
(***************************************************************************)
AnswerIsHonest ==
  resp # NoResp =>
    LET r == resp.of
    IN  /\ resp.rows = AtMost(r.total, MaxRows)
        /\ resp.truncated = "yes" <=> r.total > MaxRows \/ r.long # {}
        /\ resp.truncated = "yes" <=> resp.warnings > 0
        /\ resp.warnings <= MaxWarnings
        /\ r.breaks \notin 0..AtMost(r.total, MaxRows)

(***************************************************************************)
(* "Export (this page)" writes the rows of a page that is there: a result  *)
(* with rows has some on the current page, after a new result with fewer   *)
(* of them and a larger page (MysqlQueryTab.tsx:76-101, 334-349).          *)
(***************************************************************************)
PageExists == resp.rows > 0 => (pageNo - 1) * pageSize < resp.rows
=============================================================================
