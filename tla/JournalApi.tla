----------------------------- MODULE JournalApi -----------------------------
(***************************************************************************)
(* Who writes the journal over HTTP and how it is read back: login and     *)
(* logout (app/api/auth_routes.py, app/services/auth.py), the routes       *)
(* /api/journal and /api/journal/export (app/api/routes.py) and the query  *)
(* behind them (app/services/journal.py), on the default SQLite database.  *)
(*                                                                         *)
(* Time is in seconds: SQLite stamps a row with CURRENT_TIMESTAMP, to the  *)
(* second, when the INSERT runs, and compares it as text with a bound that *)
(* carries microseconds.  The text of a second is a proper prefix of every *)
(* bound within it and sorts before them all, so ">= bound" is in fact a   *)
(* later second, and "<= bound" the same second or an earlier one.  The    *)
(* clock is never set back.                                                *)
(*                                                                         *)
(* Rows are identified by their place in the table: one writer at a time   *)
(* holds SQLite's write lock from its INSERT to its COMMIT.                *)
(***************************************************************************)
EXTENDS Integers, SequencesExt

CONSTANTS
    Users,       \* users that exist
    Runtime,     \* every other writer of rows
    TokenLife,   \* ACCESS_TOKEN_EXPIRE_MINUTES, in seconds
    DayLength,   \* seconds of a day
    Limits,      \* bound: the limits asked for
    MaxTime,     \* bound: the last second
    MaxRows      \* bound: rows in the table

ASSUME ApiAssumption ==
    /\ Runtime \notin Users
    /\ TokenLife \in Nat /\ DayLength \in Nat \ {0}
    /\ Limits \subseteq 1 .. 1000 /\ Limits # {}
    /\ MaxTime \in Nat /\ MaxRows \in Nat

Writers == Users \cup {Runtime}
Time    == 0 .. MaxTime
Kind    == {"login", "logout", "other"}
Row     == [at : Time, kind : Kind, who : Writers]
Token   == [who : Users, exp : Nat]
Handler == [does : Kind \cup {"nothing"}, at : {"start", "commit", "refresh"},
            exp : Nat, stamp : Time]

NoBound == -1
Bound   == Time \cup {NoBound}

VARIABLES
    now,         \* the second of the wall clock
    rows,        \* journal_events in id order
    handler,     \* per writer, the append_event it awaits
    tokens,      \* tokens that were returned to a client
    taken,       \* history of an operator's exports: how often each row came out
    upto,        \* and the end of the last one
    passed       \* history: for each row, what upto was when it was committed

writeVars == <<rows, passed, handler, tokens>>
readVars  == <<taken, upto>>
vars == <<now, writeVars, readVars>>

Quiet == [does |-> "nothing", at |-> "start", exp |-> 0, stamp |-> 0]

TypeOK ==
    /\ now \in Time
    /\ rows \in Seq(Row) /\ Len(rows) <= MaxRows
    /\ handler \in [Writers -> Handler]
    /\ tokens \in SUBSET Token
    /\ taken \in [1 .. MaxRows -> Nat]
    /\ upto \in Bound
    /\ passed \in Seq(Bound) /\ Len(passed) = Len(rows)

Init ==
    /\ now = 0
    /\ rows = <<>> /\ passed = <<>> /\ handler = [w \in Writers |-> Quiet] /\ tokens = {}
    /\ taken = [i \in 1 .. MaxRows |-> 0] /\ upto = NoBound

Tick ==
    /\ now < MaxTime
    /\ now' = now + 1
    /\ UNCHANGED <<writeVars, readVars>>

-----------------------------------------------------------------------------
(* Writing a row *)

\* authenticate_token, with jose's comparison of seconds.
Valid(token) == token.exp >= now

\* get_current_user.
Authorised(u) == \E t \in tokens : t.who = u /\ Valid(t)

Begin(w, kind, exp) ==
    /\ handler[w].does = "nothing"
    /\ handler' = [handler EXCEPT ![w] = [Quiet EXCEPT !.does = kind, !.exp = exp]]
    /\ UNCHANGED <<now, rows, passed, readVars>>

\* (Mutant: the answer does not wait for the row.)
LoginAtOnce(u) ==
    /\ Begin(u, "login", now + TokenLife)
    /\ tokens' = tokens \cup {[who |-> u, exp |-> now + TokenLife]}

\* POST /api/auth/login with the right password: the token is made, then the
\* row is awaited.  (A wrong password changes nothing.)
Login(u) ==
    /\ Begin(u, "login", now + TokenLife)
    /\ UNCHANGED tokens

\* POST /api/auth/logout: the row is all it does, the token stays valid.
Logout(u) ==
    /\ Authorised(u)
    /\ Begin(u, "logout", 0)
    /\ UNCHANGED tokens

RuntimeAppends ==
    /\ Begin(Runtime, "other", 0)
    /\ UNCHANGED tokens

Insert(w) ==
    /\ handler[w].does # "nothing" /\ handler[w].at = "start"
    /\ \A v \in Writers : handler[v].at # "commit"
    /\ Len(rows) < MaxRows
    /\ handler' = [handler EXCEPT ![w].at = "commit", ![w].stamp = now]
    /\ UNCHANGED <<now, rows, passed, tokens, readVars>>

Commit(w) ==
    /\ handler[w].at = "commit"
    /\ rows' = Append(rows, [at |-> handler[w].stamp, kind |-> handler[w].does, who |-> w])
    /\ passed' = Append(passed, upto)
    /\ handler' = [handler EXCEPT ![w].at = "refresh"]
    /\ UNCHANGED <<now, tokens, readVars>>

\* (Mutant: every answer carries a token.)
AnswerAlike(w) ==
    /\ handler[w].at = "refresh"
    /\ tokens' = tokens \cup {[who |-> w, exp |-> handler[w].exp]}
    /\ handler' = [handler EXCEPT ![w] = Quiet]
    /\ UNCHANGED <<now, rows, passed, readVars>>

\* append_event returns, and the request is answered.
Answer(w) ==
    /\ handler[w].at = "refresh"
    /\ tokens' = IF handler[w].does = "login"
                 THEN tokens \cup {[who |-> w, exp |-> handler[w].exp]} ELSE tokens
    /\ handler' = [handler EXCEPT ![w] = Quiet]
    /\ UNCHANGED <<now, rows, passed, readVars>>

\* The database raises at any of the waits: no answer; a committed row stays.
Fails(w) ==
    /\ handler[w].does # "nothing"
    /\ handler' = [handler EXCEPT ![w] = Quiet]
    /\ UNCHANGED <<now, rows, passed, tokens, readVars>>

-----------------------------------------------------------------------------
(* Reading rows *)

\* What a client may write in date_from and date_to.
Text == [kind : {"none", "junk"}, value : {0}]
          \cup [kind : {"datetime"}, value : Time]
          \cup [kind : {"date"}, value : 0 .. MaxTime \div DayLength]

\* _parse_date: datetime.fromisoformat also reads a plain date, as its midnight,
\* so end_of_day is never looked at.
ParseDate(text, endOfDay) ==
    CASE text.kind = "none"     -> NoBound
      [] text.kind = "datetime" -> text.value
      [] text.kind = "date"     -> text.value * DayLength

\* (Mutant: the lower bound as it reads.)
MatchesInclusive(at, from, to) ==
    (from # NoBound => at >= from) /\ (to # NoBound => at <= to)

\* The WHERE clause, as SQLite evaluates it (see above).
Matches(at, from, to) ==
    (from # NoBound => at > from) /\ (to # NoBound => at <= to)

\* (Mutant: the oldest rows are kept, and turned round.)
BuildQueryOldest(limit, from, to) ==
    LET ids == {i \in 1 .. Len(rows) : Matches(rows[i].at, from, to)}
        all == SetToSortSeq(ids, LAMBDA i, j : i < j)
    IN  Reverse(SubSeq(all, 1, IF limit < Len(all) THEN limit ELSE Len(all)))

\* ORDER BY created_at DESC, id DESC LIMIT limit.
Newer(i, j) == \/ rows[i].at > rows[j].at
               \/ rows[i].at = rows[j].at /\ i > j
NewestFirst(ids) ==
    CHOOSE s \in [1 .. Cardinality(ids) -> ids] :
        \A i, j \in DOMAIN s : i < j => Newer(s[i], s[j])

BuildQuery(limit, from, to) ==
    LET ids == {i \in 1 .. Len(rows) : Matches(rows[i].at, from, to)}
        all == NewestFirst(ids)
    IN  SubSeq(all, 1, IF limit < Len(all) THEN limit ELSE Len(all))

\* GET /api/journal with a valid token: 422 for what cannot be read, 400 if the
\* bounds are the wrong way round, or the page: the ids of its rows.
GetJournal(limit, first, last) ==
    LET from == ParseDate(first, FALSE)
        to   == ParseDate(last, TRUE)
    IN  CASE "junk" \in {first.kind, last.kind} -> <<"422">>
          [] OTHER ->
               IF NoBound \notin {from, to} /\ from > to THEN <<"400">>
               ELSE <<"200", BuildQuery(limit, from, to)>>

\* GET /api/journal/export by an operator who takes the journal out piece by
\* piece, each from where the last one ended to a second that is over.  A row
\* stamped by then may still be on its way to its commit.
ExportNext(last) ==
    /\ \E u \in Users : Authorised(u)
    /\ upto < last /\ last < now
    /\ LET out == ToSet(BuildQuery(Len(rows), upto, last))
       IN  taken' = [i \in DOMAIN taken |-> IF i \in out THEN taken[i] + 1 ELSE taken[i]]
    /\ upto' = last
    /\ UNCHANGED <<now, writeVars>>

-----------------------------------------------------------------------------

Next ==
    \/ Tick
    \/ \E u \in Users : Login(u) \/ Logout(u)
    \/ RuntimeAppends
    \/ \E w \in Writers : Insert(w) \/ Commit(w) \/ Answer(w) \/ Fails(w)
    \/ \E last \in Time : ExportNext(last)

Spec == Init /\ [][Next]_vars

-----------------------------------------------------------------------------

\* Whatever is asked for, a page has only rows of its window, in the reverse of
\* the order they were committed in, although it is sorted by a stamp that many
\* rows share and that is taken before the commit; and a row of the window that
\* is not on the page is older than all the page has, and the page is full.
PagesAreNewest ==
    \A limit \in Limits, first, last \in Text :
        LET answer == GetJournal(limit, first, last)
            ids    == answer[2]
            Wanted(k) == Matches(rows[k].at, ParseDate(first, FALSE), ParseDate(last, TRUE))
        IN  answer[1] = "200" =>
              /\ \A i \in 1 .. Len(ids) : Wanted(ids[i])
              /\ \A i, j \in 1 .. Len(ids) : i < j => ids[i] > ids[j]
              /\ \A k \in 1 .. Len(rows) :
                    Wanted(k) /\ k \notin ToSet(ids) =>
                       Len(ids) = limit /\ \A i \in 1 .. Len(ids) : ids[i] > k

\* Row k was stamped within an export already made when it was committed.
Late(k) == rows[k].at <= passed[k]

\* Consecutive exports, each from the end of the one before: a row is in exactly
\* one of them, also if it is stamped in the very second where two meet, unless
\* it was late.  An export is never late for two rows: all rows before a late
\* one were committed, and its own was stamped, before that export was made.
ExportsTile ==
    /\ \A k \in 1 .. Len(rows) :
          taken[k] = IF ~Late(k) /\ rows[k].at <= upto THEN 1 ELSE 0
    /\ \A k, l \in 1 .. Len(rows) : k < l /\ Late(l) => passed[k] < rows[l].at

\* Nobody holds a token the journal does not know of: the row of that login,
\* stamped between the making of the token and the answer, is there.  (A row
\* without a token is possible: the database may raise after the commit.)
TokensAreJournalled ==
    \A t \in tokens :
        \E k \in 1 .. Len(rows) :
            rows[k].kind = "login" /\ rows[k].who = t.who /\ rows[k].at >= t.exp - TokenLife

\* date_to is meant to be the end of its day (the routes pass end_of_day), so
\* date_from and date_to of the same day select that day: at the least, every
\* row stamped after its first second.
DayFilterCoversDay ==
    \A d \in 0 .. MaxTime \div DayLength, k \in 1 .. Len(rows) :
        LET day == [kind |-> "date", value |-> d]
        IN  rows[k].at \div DayLength = d /\ rows[k].at > d * DayLength =>
               Matches(rows[k].at, ParseDate(day, FALSE), ParseDate(day, TRUE))

=============================================================================
