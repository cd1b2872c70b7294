------------------------------- MODULE SqlGuard -------------------------------
(***************************************************************************)
(* internal/sqlguard/mysql_readonly.go: what the server lets a user run,   *)
(* as pure operators.  A text is a sequence of characters.  A word that    *)
(* matters is one character here: Read stands for the words that may start *)
(* a statement (SELECT, SHOW, ...), "into" for INTO OUTFILE or DUMPFILE    *)
(* and "a" for any other letter, in upper or lower case; NL is the end of  *)
(* a line and " " any other blank.  "!" is there for its place in MySQL's  *)
(* rules: the scanners read it like any other character.                   *)
(***************************************************************************)
EXTENDS Naturals, Sequences, FiniteSetsExt

Read    == "read"
NL      == "nl"
Escape  == "backslash"
Blanks  == {" ", NL}
Letters == {Read, "into", "a"}
Strings == {"single", "double"}    \* the quotes with escapes
Quotes  == Strings \cup {"backtick"}
Chars   == Blanks \cup Letters \cup Quotes
             \cup {Escape, ";", "-", "#", "/", "*", "(", ")", "!"}

At(sql, i, c) == i \in DOMAIN sql /\ sql[i] = c

(***************************************************************************)
(* hasMultipleStatements: one pass, in a mode ("code", a comment, or the   *)
(* quote that was opened), that counts the semicolons met in code.         *)
(***************************************************************************)
DashOpen(sql, i)   == sql[i] = "-" /\ At(sql, i + 1, "-")
LineOpen(sql, i)   == sql[i] = "#" \/ DashOpen(sql, i)
BlockOpen(sql, i)  == sql[i] = "/" /\ At(sql, i + 1, "*")
BlockClose(sql, i) == sql[i] = "*" /\ At(sql, i + 1, "/")

\* What both scanners take for the start of a comment.
OpensComment(sql, i) == LineOpen(sql, i) \/ BlockOpen(sql, i)

\* The mode after the character at i.
Mode(sql, i, in) ==
  CASE in = "line"    -> IF sql[i] = NL THEN "code" ELSE in
    [] in = "block"   -> IF BlockClose(sql, i) THEN "code" ELSE in
    [] in \in Quotes  -> IF sql[i] = in THEN "code" ELSE in
    [] in = "code"    -> IF LineOpen(sql, i) THEN "line"
                         ELSE IF BlockOpen(sql, i) THEN "block"
                         ELSE IF sql[i] \in Quotes THEN sql[i] ELSE in

\* A mutant of SkipsNext: a backslash is a character like another.
SkipsNextNoEscape(sql, i, in) ==
  CASE in = "block" -> BlockClose(sql, i)
    [] in = "code"  -> (BlockOpen(sql, i) \/ DashOpen(sql, i))
    [] OTHER        -> FALSE

\* The pass steps over the second half of "--", "/*" and "*/" and over what
\* a backslash escapes; there is no escape between backticks.
SkipsNext(sql, i, in) ==
  CASE in = "block" -> BlockClose(sql, i)
    [] in = "code"  -> (BlockOpen(sql, i) \/ DashOpen(sql, i))
    [] in \in Strings -> sql[i] = Escape
    [] OTHER        -> FALSE

\* Where the pass stands: in which mode, and whether it reads what comes next.
Code == [in |-> "code", next |-> "read"]

After(sql, i, before) ==
  IF before.next = "skip"
    THEN [in |-> before.in, next |-> "read"]
    ELSE [in   |-> Mode(sql, i, before.in),
          next |-> IF SkipsNext(sql, i, before.in) THEN "skip" ELSE "read"]

Pass(sql) ==
  LET pass[i \in 0..Len(sql)] == IF i = 0 THEN Code ELSE After(sql, i, pass[i - 1])
  IN  pass

\* The positions of the semicolons met in code.
Semicolons(sql) ==
  LET pass == Pass(sql)
  IN  {i \in DOMAIN sql : sql[i] = ";" /\ pass[i - 1] = Code}

\* Two of them, or one that something follows.
HasMultipleStatements(sql) ==
  \E i \in Semicolons(sql) :
    \/ \E j \in Semicolons(sql) : i # j
    \/ \E j \in DOMAIN sql : j > i /\ sql[j] \notin Blanks

(***************************************************************************)
(* firstKeyword: past blanks, parentheses and comments.                    *)
(***************************************************************************)
\* Where the character that ends a comment stands, or the end of the text.
LineEnd(sql, i) ==
  IF \E j \in DOMAIN sql : j >= i /\ sql[j] = NL
    THEN CHOOSE j \in DOMAIN sql :
           /\ j >= i /\ sql[j] = NL
           /\ \A k \in i..(j - 1) : sql[k] # NL
    ELSE Len(sql) + 1

\* Of an unclosed comment the code keeps the last character, which alone
\* starts no statement.
BlockEnd(sql, i) ==
  IF \E j \in DOMAIN sql : j >= i /\ BlockClose(sql, j)
    THEN 2 + CHOOSE j \in DOMAIN sql :
               /\ j >= i /\ BlockClose(sql, j)
               /\ \A k \in i..(j - 1) : ~BlockClose(sql, k)
    ELSE Len(sql) + 1

\* Past what stands at i, or i where the keyword is to be.
Past(sql, i) ==
  CASE sql[i] \in Blanks \cup {"("} -> i + 1
    [] sql[i] = "#"                 -> LineEnd(sql, i + 1)
    [] DashOpen(sql, i)             -> LineEnd(sql, i + 2)
    [] BlockOpen(sql, i)            -> BlockEnd(sql, i + 2)
    [] OTHER                        -> i

Skipping(sql) ==
  LET scan[i \in 1..(Len(sql) + 1)] ==
        IF i > Len(sql) THEN i
        ELSE LET to == Past(sql, i) IN IF to = i THEN i ELSE scan[to]
  IN  scan

KeywordStart(sql) == Skipping(sql)[1]

StartsWithRead(sql) ==
  LET i == KeywordStart(sql)
  IN  /\ At(sql, i, Read)
      /\ i + 1 \in DOMAIN sql => sql[i + 1] \notin Letters

\* strings.TrimSpace
Trim(sql) ==
  LET ink == {i \in DOMAIN sql : sql[i] \notin Blanks}
  IN  IF ink = {} THEN <<>> ELSE SubSeq(sql, Min(ink), Max(ink))

\* ValidateMySQLReadonly, on a trimmed text.
ValidateMySQLReadonly(sql) ==
  /\ sql # <<>>
  /\ ~HasMultipleStatements(sql)
  /\ StartsWithRead(sql)
  /\ \A i \in DOMAIN sql : sql[i] # "into"

(***************************************************************************)
(* The lexical rules of MySQL, stated without the scanners: a text is a    *)
(* sequence of pieces, each of which starts where the one before ends.     *)
(* They are what the code is read against, not a part of it.               *)
(***************************************************************************)
\* "--" starts a comment when a blank or the end of the text follows, and
\* what is between "/*!" and "*/" is not a comment.
StartsDashes(sql, i) == DashOpen(sql, i) /\ (i + 2 \in DOMAIN sql => sql[i + 2] \in Blanks)
StartsBlock(sql, i)  == BlockOpen(sql, i) /\ ~At(sql, i + 2, "!")

StartsComment(sql, i) == sql[i] = "#" \/ StartsDashes(sql, i) \/ StartsBlock(sql, i)

\* p is where the piece that starts at i ends, if c closes it at p.
Closes(sql, i, p) ==
  CASE sql[i] \in Strings ->
         /\ p > i /\ sql[p] = sql[i]
         \* an even number of backslashes right before it
         /\ \E k \in (i + 1)..p :
              /\ \A j \in k..(p - 1) : sql[j] = Escape
              /\ k = i + 1 \/ sql[k - 1] # Escape
              /\ (p - k) % 2 = 0
    [] sql[i] = "backtick" -> p > i /\ sql[p] = "backtick"
    [] sql[i] = "#" -> p > i /\ sql[p] = NL
    [] StartsDashes(sql, i) -> p > i + 1 /\ sql[p] = NL
    [] StartsBlock(sql, i) -> p > i + 2 /\ sql[p] = "/" /\ sql[p - 1] = "*"
    [] OTHER -> p = i

PieceEnd(sql, i) ==
  IF \E p \in i..Len(sql) : Closes(sql, i, p)
    THEN CHOOSE p \in i..Len(sql) :
           Closes(sql, i, p) /\ \A q \in i..(p - 1) : ~Closes(sql, i, q)
    ELSE Len(sql)

\* Where pieces start: the first one at 1, another after the end of one.
Pieces(sql) ==
  LET start[n \in 0..Len(sql)] ==
        IF n = 0 THEN 1
        ELSE LET i == start[n - 1] IN IF i \in DOMAIN sql THEN PieceEnd(sql, i) + 1 ELSE i
  IN  start

Starts(sql) ==
  LET start == Pieces(sql)
  IN  {start[n] : n \in 0..Len(sql)} \cap DOMAIN sql

\* A text may be one statement and a semicolon at its end: what follows that
\* semicolon is blank, or a comment.
OneStatement(sql) ==
  \A i \in Starts(sql) : sql[i] = ";" =>
    \A j \in Starts(sql) : j > i => sql[j] \in Blanks \/ StartsComment(sql, j)

CommentAfterSemicolon(sql) ==
  \E i \in Starts(sql) :
    sql[i] = ";" /\ \E j \in Starts(sql) : j > i /\ StartsComment(sql, j)

\* The first piece that is neither blank, parenthesis nor comment is a word
\* that starts a read.
BeginsARead(sql) ==
  \E i \in Starts(sql) :
    /\ sql[i] = Read
    /\ i + 1 \in DOMAIN sql => sql[i + 1] \notin Letters
    /\ \A j \in Starts(sql) :
         j < i => sql[j] \in Blanks \cup {"("} \/ StartsComment(sql, j)

OneRead(sql) ==
  /\ sql # <<>>
  /\ OneStatement(sql)
  /\ BeginsARead(sql)
  /\ \A i \in DOMAIN sql : sql[i] # "into"

\* The scanners and MySQL take the same pieces of the text for comments.
CommentsAlike(sql) == \A i \in Starts(sql) : OpensComment(sql, i) => StartsComment(sql, i)

FollowsRules(sql) ==
  CommentsAlike(sql) =>
    (ValidateMySQLReadonly(sql) <=> OneRead(sql) /\ ~CommentAfterSemicolon(sql))
=============================================================================
