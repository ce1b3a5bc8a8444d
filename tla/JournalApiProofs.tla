-------------------------- MODULE JournalApiProofs --------------------------
(***************************************************************************)
(* Proofs about JournalApi, for any users, times, limits and number of     *)
(* rows.                                                                   *)
(***************************************************************************)
EXTENDS JournalApi, FiniteSetTheorems, TLAPS

\* Who writes what, and how far: only users log in and out; the token of a
\* login was made before its row was stamped, and once the row is committed it
\* is in the table.
LoginRow(u, since) ==
    \E k \in 1 .. Len(rows) :
        rows[k].kind = "login" /\ rows[k].who = u /\ rows[k].at >= since

WriteOK(w) ==
    /\ handler[w].at # "start" => handler[w].does # "nothing"
    /\ handler[w].does \in {"login", "logout"} => w \in Users
    /\ handler[w].does = "login" =>
          LET since == handler[w].exp - TokenLife
          IN  /\ handler[w].at = "start"   => since <= now
              /\ handler[w].at = "commit"  => since <= handler[w].stamp
              /\ handler[w].at = "refresh" => LoginRow(w, since)

WriteInv == \A w \in Writers : WriteOK(w)

\* One writer at a time is between INSERT and COMMIT, so the stamps grow with
\* the ids; and there is room for its row.
StampInv ==
    /\ \A i \in 1 .. Len(rows) : rows[i].at <= now
    /\ \A i, j \in 1 .. Len(rows) : i < j => rows[i].at <= rows[j].at
    /\ \A v, w \in Writers : handler[v].at = "commit" /\ handler[w].at = "commit" => v = w
    /\ \A w \in Writers : handler[w].at = "commit" =>
          /\ Len(rows) < MaxRows
          /\ handler[w].stamp <= now
          /\ \A i \in 1 .. Len(rows) : rows[i].at <= handler[w].stamp

\* Each second that was exported was over before any row not yet stamped: what
\* was exported when row k was committed ends before the rows after k begin.
ExportInv ==
    /\ upto < now
    /\ \A k \in 1 .. Len(rows) : passed[k] <= upto
    /\ \A k, l \in 1 .. Len(rows) : k < l => passed[k] < rows[l].at
    /\ \A w \in Writers : handler[w].at = "commit" =>
          \A k \in 1 .. Len(rows) : passed[k] < handler[w].stamp
    /\ \A k \in 1 .. MaxRows :
          taken[k] = IF k \in 1 .. Len(rows) /\ passed[k] < rows[k].at /\ rows[k].at <= upto
                     THEN 1 ELSE 0

IInv == TypeOK /\ WriteInv /\ StampInv /\ ExportInv /\ TokensAreJournalled

-----------------------------------------------------------------------------
(* Types *)

LEMMA QuietType == Quiet \in Handler
  BY ApiAssumption DEF Quiet, Handler, Time

LEMMA InitType == Init => TypeOK
<1> SUFFICES ASSUME Init PROVE TypeOK
  OBVIOUS
<1>1. 0 \in Time /\ MaxRows \in Nat
  BY ApiAssumption DEF Time
<1>2. /\ rows \in Seq(Row) /\ Len(rows) <= MaxRows
      /\ passed \in Seq(Bound) /\ Len(passed) = Len(rows)
  BY <1>1 DEF Init
<1>3. handler \in [Writers -> Handler]
  BY QuietType DEF Init
<1>4. taken \in [1 .. MaxRows -> Nat] /\ upto \in Bound /\ tokens \in SUBSET Token
  BY DEF Init, Bound
<1> QED
  BY <1>1, <1>2, <1>3, <1>4 DEF Init, TypeOK

LEMMA QuietExcept ==
  ASSUME NEW kind, NEW exp, NEW q, q = [Quiet EXCEPT !.does = kind, !.exp = exp]
  PROVE  q = [does |-> kind, at |-> "start", exp |-> exp, stamp |-> 0]
  BY DEF Quiet

\* A request begins to write.
LEMMA BeginType ==
  ASSUME TypeOK, NEW w \in Writers, NEW kind \in Kind, NEW exp \in Nat, Begin(w, kind, exp)
  PROVE  /\ handler' \in [Writers -> Handler]
         /\ handler'[w].does = kind /\ handler'[w].at = "start" /\ handler'[w].exp = exp
         /\ \A v \in Writers : v # w => handler'[v] = handler[v]
         /\ UNCHANGED <<now, rows, passed, readVars>>
<1>1. handler' = [handler EXCEPT ![w] = [Quiet EXCEPT !.does = kind, !.exp = exp]]
  BY DEF Begin
<1>2. [Quiet EXCEPT !.does = kind, !.exp = exp]
        = [does |-> kind, at |-> "start", exp |-> exp, stamp |-> 0]
  BY QuietExcept
<1>3. [does |-> kind, at |-> "start", exp |-> exp, stamp |-> 0] \in Handler
  BY ApiAssumption DEF Handler, Time
<1>4. handler \in [Writers -> Handler]
  BY DEF TypeOK
<1> QED
  <2>1. /\ handler'[w] = [does |-> kind, at |-> "start", exp |-> exp, stamp |-> 0]
        /\ handler' \in [Writers -> Handler]
        /\ \A v \in Writers : v # w => handler'[v] = handler[v]
    BY <1>1, <1>2, <1>3, <1>4
  <2>2. UNCHANGED <<now, rows, passed, readVars>>
    BY DEF Begin
  <2> QED
    BY <2>1, <2>2

\* A login begins before its token is due.
LEMMA LoginExp == TypeOK => now + TokenLife \in Nat /\ now \in Nat
  BY ApiAssumption DEF TypeOK, Time

\* What a handler and a row are made of.
LEMMA RowTimes ==
  ASSUME TypeOK
  PROVE  /\ now \in Int
         /\ Len(rows) \in Nat
         /\ \A i \in 1 .. Len(rows) : rows[i].at \in Int
<1>1. \A i \in 1 .. Len(rows) : rows[i] \in Row
  BY DEF TypeOK
<1>2. \A row \in Row : row.at \in Int
  BY DEF Row, Time
<1> QED
  BY <1>1, <1>2 DEF TypeOK, Time

LEMMA HandlerType ==
  ASSUME TypeOK, NEW w \in Writers
  PROVE  /\ handler[w].does \in Kind \cup {"nothing"}
         /\ handler[w].at \in {"start", "commit", "refresh"}
         /\ handler[w].exp \in Nat
         /\ handler[w].stamp \in Time
  BY DEF TypeOK, Handler

LEMMA InsertHandler ==
  ASSUME TypeOK, NEW w \in Writers, Insert(w)
  PROVE  /\ handler' \in [Writers -> Handler]
         /\ handler'[w].does = handler[w].does /\ handler'[w].at = "commit"
         /\ handler'[w].exp = handler[w].exp /\ handler'[w].stamp = now
         /\ \A v \in Writers : v # w => handler'[v] = handler[v]
  BY DEF TypeOK, Handler, Insert

LEMMA CommitHandler ==
  ASSUME TypeOK, NEW w \in Writers, Commit(w)
  PROVE  /\ handler' \in [Writers -> Handler]
         /\ handler'[w].does = handler[w].does /\ handler'[w].at = "refresh"
         /\ handler'[w].exp = handler[w].exp
         /\ \A v \in Writers : v # w => handler'[v] = handler[v]
  BY DEF TypeOK, Handler, Commit

LEMMA EndHandler ==
  ASSUME TypeOK, NEW w \in Writers, Answer(w) \/ Fails(w)
  PROVE  /\ handler' \in [Writers -> Handler]
         /\ handler'[w] = Quiet
         /\ \A v \in Writers : v # w => handler'[v] = handler[v]
  BY QuietType DEF TypeOK, Answer, Fails

\* The row a commit appends.
LEMMA CommitRow ==
  ASSUME TypeOK, WriteInv, NEW w \in Writers, Commit(w),
         NEW row, row = [at |-> handler[w].stamp, kind |-> handler[w].does, who |-> w]
  PROVE  /\ row \in Row
         /\ rows' = Append(rows, row)
         /\ rows' \in Seq(Row)
         /\ Len(rows) \in Nat
         /\ Len(rows') = Len(rows) + 1
         /\ \A k \in 1 .. Len(rows) : rows'[k] = rows[k]
         /\ rows'[Len(rows')] = row
<1>1. handler[w].at = "commit" /\ rows' = Append(rows, row) /\ rows \in Seq(Row)
  BY DEF Commit, TypeOK
<1>2. row \in Row
  BY <1>1, HandlerType DEF WriteInv, WriteOK, Row
<1> QED
  BY <1>1, <1>2

\* ... and what had been exported by then.
LEMMA PassedGrows ==
  ASSUME TypeOK, NEW w \in Writers, Commit(w)
  PROVE  /\ passed' \in Seq(Bound)
         /\ Len(passed') = Len(passed) + 1
         /\ \A k \in 1 .. Len(passed) : passed'[k] = passed[k]
         /\ passed'[Len(passed) + 1] = upto
<1>1. passed' = Append(passed, upto) /\ passed \in Seq(Bound) /\ upto \in Bound
  BY DEF Commit, TypeOK
<1> QED
  BY <1>1

\* A writer is a user or the runtime, and a user is a writer.
LEMMA UserWrites == Users \subseteq Writers /\ Runtime \in Writers
  BY DEF Writers

LEMMA NextType == TypeOK /\ WriteInv /\ StampInv /\ [Next]_vars => TypeOK'
<1> SUFFICES ASSUME TypeOK, WriteInv, StampInv, [Next]_vars PROVE TypeOK'
  OBVIOUS
<1> USE DEF readVars, writeVars
<1>1. CASE Tick
  BY <1>1, ApiAssumption DEF Tick, TypeOK, Time
<1>2. ASSUME NEW u \in Users, Login(u) \/ Logout(u) PROVE TypeOK'
  BY <1>2, UserWrites, LoginExp, BeginType DEF Login, Logout, Kind, TypeOK
<1>3. CASE RuntimeAppends
  BY <1>3, UserWrites, BeginType DEF RuntimeAppends, Kind, TypeOK
<1>4. ASSUME NEW w \in Writers, Insert(w) PROVE TypeOK'
  BY <1>4, InsertHandler DEF Insert, TypeOK
<1>5. ASSUME NEW w \in Writers, Commit(w) PROVE TypeOK'
  <2>0. passed' \in Seq(Bound) /\ Len(passed') = Len(passed) + 1 /\ Len(passed) = Len(rows)
    BY <1>5, PassedGrows DEF TypeOK
  <2>1. Len(rows) < MaxRows /\ MaxRows \in Nat
    BY <1>5, ApiAssumption DEF Commit, StampInv
  <2>2. PICK row : row = [at |-> handler[w].stamp, kind |-> handler[w].does, who |-> w]
    OBVIOUS
  <2>3. rows' \in Seq(Row) /\ Len(rows) \in Nat /\ Len(rows') = Len(rows) + 1
    BY <1>5, <2>2, CommitRow
  <2>4. Len(rows') <= MaxRows
    BY <2>1, <2>3
  <2> QED
    BY <1>5, <2>0, <2>3, <2>4, CommitHandler DEF Commit, TypeOK
<1>6. ASSUME NEW w \in Writers, Answer(w) PROVE TypeOK'
  <2>1. tokens' \in SUBSET Token
    <3>1. handler[w].does = "login" => [who |-> w, exp |-> handler[w].exp] \in Token
      BY HandlerType DEF WriteInv, WriteOK, Token
    <3> QED
      BY <1>6, <3>1 DEF Answer, TypeOK
  <2> QED
    BY <1>6, <2>1, EndHandler DEF Answer, TypeOK
<1>7. ASSUME NEW w \in Writers, Fails(w) PROVE TypeOK'
  BY <1>7, EndHandler DEF Fails, TypeOK
<1>8. ASSUME NEW last \in Time, ExportNext(last) PROVE TypeOK'
  <2>1. taken \in [1 .. MaxRows -> Nat] /\ taken' \in [1 .. MaxRows -> Nat]
    BY <1>8 DEF ExportNext, TypeOK
  <2>2. upto' \in Bound
    BY <1>8 DEF ExportNext, Bound
  <2> QED
    BY <1>8, <2>1, <2>2 DEF ExportNext, TypeOK
<1>9. CASE UNCHANGED vars
  BY <1>9 DEF vars, TypeOK
<1> QED
  BY <1>1, <1>2, <1>3, <1>4, <1>5, <1>6, <1>7, <1>8, <1>9 DEF Next

-----------------------------------------------------------------------------
(* Writing *)

\* A row that is there stays there.
LEMMA RowStays ==
  ASSUME TypeOK, WriteInv, NEW w \in Writers, Commit(w), NEW u, NEW since, LoginRow(u, since)
  PROVE  LoginRow(u, since)'
<1>1. PICK row : row = [at |-> handler[w].stamp, kind |-> handler[w].does, who |-> w]
  OBVIOUS
<1>2. /\ Len(rows) \in Nat
      /\ Len(rows') = Len(rows) + 1
      /\ \A k \in 1 .. Len(rows) : rows'[k] = rows[k]
  BY <1>1, CommitRow
<1>3. PICK k \in 1 .. Len(rows) :
         rows[k].kind = "login" /\ rows[k].who = u /\ rows[k].at >= since
  BY DEF LoginRow
<1>4. k \in 1 .. Len(rows') /\ rows'[k] = rows[k]
  BY <1>2
<1> QED
  BY <1>3, <1>4 DEF LoginRow

\* A writer that does nothing, or whose handler is as it was.
LEMMA WriterStays ==
  ASSUME NEW w \in Writers, WriteOK(w), handler'[w] = handler[w], UNCHANGED <<now, rows>>
  PROVE  WriteOK(w)'
  BY DEF WriteOK, LoginRow

LEMMA WriterQuiet ==
  ASSUME NEW w \in Writers, handler'[w] = Quiet
  PROVE  WriteOK(w)'
  BY DEF WriteOK, Quiet

LEMMA WriteKept == TypeOK /\ WriteInv /\ [Next]_vars => WriteInv'
<1> SUFFICES ASSUME TypeOK, WriteInv, [Next]_vars, NEW v \in Writers PROVE WriteOK(v)'
  BY DEF WriteInv
<1>0. WriteOK(v) /\ now \in Int /\ TokenLife \in Int
  BY ApiAssumption DEF WriteInv, TypeOK, Time
<1> USE DEF readVars, writeVars
<1>1. CASE Tick
  <2>1. now <= now' /\ now' \in Int /\ UNCHANGED <<rows, handler>>
    BY <1>0, <1>1 DEF Tick
  <2>2. handler[v].exp \in Nat
    BY HandlerType
  <2> QED
    BY <1>0, <2>1, <2>2 DEF WriteOK, LoginRow
<1>2. ASSUME NEW w \in Writers, NEW kind \in Kind, NEW exp \in Nat, Begin(w, kind, exp),
             kind \in {"login", "logout"} => w \in Users,
             kind = "login" => exp - TokenLife <= now
      PROVE  WriteOK(v)'
  <2>1. CASE v = w
    <3>1. /\ handler'[v].does = kind /\ handler'[v].at = "start" /\ handler'[v].exp = exp
          /\ now' = now
      BY <1>2, <2>1, BeginType
    <3> QED
      BY <1>2, <2>1, <3>1 DEF WriteOK
  <2>2. CASE v # w
    BY <1>0, <1>2, <2>2, BeginType, WriterStays
  <2> QED
    BY <2>1, <2>2
<1>3. ASSUME NEW u \in Users, Login(u) PROVE WriteOK(v)'
  <2>1. now + TokenLife \in Nat /\ (now + TokenLife) - TokenLife <= now
    BY <1>0, LoginExp
  <2> QED
    BY <1>2, <1>3, <2>1, UserWrites DEF Login, Kind
<1>4. ASSUME NEW u \in Users, Logout(u) PROVE WriteOK(v)'
  BY <1>2, <1>4, UserWrites DEF Logout, Kind
<1>5. CASE RuntimeAppends
  BY <1>2, <1>5, UserWrites DEF RuntimeAppends, Kind
<1>6. ASSUME NEW w \in Writers, Insert(w) PROVE WriteOK(v)'
  <2>1. UNCHANGED <<now, rows>>
    BY <1>6 DEF Insert
  <2>2. CASE v = w
    <3>1. handler[v].does # "nothing" /\ handler[v].at = "start"
      BY <1>6, <2>2 DEF Insert
    <3>2. /\ handler'[v].does = handler[v].does /\ handler'[v].at = "commit"
          /\ handler'[v].exp = handler[v].exp /\ handler'[v].stamp = now
      BY <1>6, <2>2, InsertHandler
    <3> QED
      BY <1>0, <3>1, <3>2 DEF WriteOK
  <2>3. CASE v # w
    BY <1>0, <1>6, <2>1, <2>3, InsertHandler, WriterStays
  <2> QED
    BY <2>2, <2>3
<1>7. ASSUME NEW w \in Writers, Commit(w) PROVE WriteOK(v)'
  <2>1. now' = now /\ handler[w].at = "commit"
    BY <1>7 DEF Commit
  <2>2. CASE v = w
    <3>1. /\ handler'[v].does = handler[v].does /\ handler'[v].at = "refresh"
          /\ handler'[v].exp = handler[v].exp
      BY <1>7, <2>2, CommitHandler
    <3>2. PICK since : since = handler[v].exp - TokenLife
      OBVIOUS
    <3>3. ASSUME handler[v].does = "login" PROVE LoginRow(v, since)'
      <4>1. PICK row : row = [at |-> handler[w].stamp, kind |-> handler[w].does, who |-> w]
        OBVIOUS
      <4>2. /\ Len(rows) \in Nat /\ Len(rows') = Len(rows) + 1
            /\ rows'[Len(rows')] = row
        BY <1>7, <4>1, CommitRow
      <4>3. handler[v].exp - TokenLife <= handler[v].stamp
        BY <1>0, <2>1, <2>2, <3>3 DEF WriteOK
      <4>4. handler[v].exp - TokenLife \in Int /\ handler[v].stamp \in Int
        BY <1>0, HandlerType DEF Time
      <4>5. row.kind = "login" /\ row.who = v /\ row.at >= handler[v].exp - TokenLife
        BY <2>2, <3>3, <4>1, <4>3, <4>4
      <4>6. Len(rows') \in 1 .. Len(rows')
        BY <4>2
      <4> QED
        BY <3>2, <4>2, <4>5, <4>6 DEF LoginRow
    <3>4. handler'[v].exp - TokenLife = since
      BY <3>1, <3>2
    <3> QED
      BY <1>0, <2>1, <2>2, <3>1, <3>3, <3>4 DEF WriteOK
  <2>3. CASE v # w
    <3>1. handler'[v] = handler[v]
      BY <1>7, <2>3, CommitHandler
    <3>2. PICK since : since = handler[v].exp - TokenLife
      OBVIOUS
    <3>3. LoginRow(v, since) => LoginRow(v, since)'
      BY <1>7, RowStays
    <3> QED
      BY <1>0, <2>1, <3>1, <3>2, <3>3 DEF WriteOK
  <2> QED
    BY <2>2, <2>3
<1>8. ASSUME NEW w \in Writers, Answer(w) \/ Fails(w) PROVE WriteOK(v)'
  <2>1. UNCHANGED <<now, rows>>
    BY <1>8 DEF Answer, Fails
  <2> QED
    BY <1>0, <1>8, <2>1, EndHandler, WriterQuiet, WriterStays
<1>9. ASSUME NEW last \in Time, ExportNext(last) PROVE WriteOK(v)'
  BY <1>0, <1>9, WriterStays DEF ExportNext
<1>10. CASE UNCHANGED vars
  BY <1>0, <1>10, WriterStays DEF vars
<1> QED
  BY <1>1, <1>3, <1>4, <1>5, <1>6, <1>7, <1>8, <1>9, <1>10 DEF Next

-----------------------------------------------------------------------------
(* Stamps *)

\* A step that inserts and commits nothing.
LEMMA StampStays ==
  ASSUME TypeOK, StampInv, rows' = rows, now' \in Int, now <= now',
         \A w \in Writers : handler'[w].at = "commit" => handler'[w] = handler[w]
  PROVE  StampInv'
<1>1. now \in Int /\ \A i \in 1 .. Len(rows) : rows[i].at \in Int
  BY RowTimes
<1>2. \A w \in Writers : handler[w].stamp \in Int
  BY HandlerType DEF Time
<1> QED
  BY <1>1, <1>2 DEF StampInv

LEMMA StampKept == TypeOK /\ WriteInv /\ StampInv /\ [Next]_vars => StampInv'
<1> SUFFICES ASSUME TypeOK, WriteInv, StampInv, [Next]_vars PROVE StampInv'
  OBVIOUS
<1>0. now \in Int /\ \A i \in 1 .. Len(rows) : rows[i].at \in Int
  BY RowTimes
<1>00. \A w \in Writers : handler[w].stamp \in Int
  BY HandlerType DEF Time
<1> USE DEF readVars, writeVars
<1>1. CASE Tick
  BY <1>0, <1>1, StampStays DEF Tick
<1>2. ASSUME NEW w \in Writers, NEW kind \in Kind, NEW exp \in Nat, Begin(w, kind, exp)
      PROVE  StampInv'
  <2>1. /\ handler'[w].at = "start"
        /\ \A v \in Writers : v # w => handler'[v] = handler[v]
        /\ UNCHANGED <<now, rows>>
    BY <1>2, BeginType
  <2> QED
    BY <1>0, <2>1, StampStays
<1>3. ASSUME NEW u \in Users, Login(u) PROVE StampInv'
  BY <1>2, <1>3, LoginExp, UserWrites DEF Login, Kind
<1>4. ASSUME NEW u \in Users, Logout(u) PROVE StampInv'
  BY <1>2, <1>4, UserWrites DEF Logout, Kind
<1>5. CASE RuntimeAppends
  BY <1>2, <1>5, UserWrites DEF RuntimeAppends, Kind
<1>6. ASSUME NEW w \in Writers, Insert(w) PROVE StampInv'
  <2>1. /\ UNCHANGED <<now, rows>> /\ Len(rows) < MaxRows
        /\ \A v \in Writers : handler[v].at # "commit"
    BY <1>6 DEF Insert
  <2>2. /\ handler'[w].stamp = now
        /\ \A v \in Writers : v # w => handler'[v].at # "commit"
    BY <1>6, <2>1, InsertHandler
  <2> QED
    BY <1>0, <2>1, <2>2 DEF StampInv
<1>7. ASSUME NEW w \in Writers, Commit(w) PROVE StampInv'
  <2>1. /\ now' = now /\ handler[w].at = "commit"
        /\ \A v \in Writers : handler'[v].at # "commit"
    <3>1. \A v \in Writers : v # w => handler[v].at # "commit"
      BY <1>7 DEF Commit, StampInv
    <3>2. /\ handler'[w].at = "refresh"
          /\ \A v \in Writers : v # w => handler'[v] = handler[v]
      BY <1>7, CommitHandler
    <3> QED
      BY <1>7, <3>1, <3>2 DEF Commit
  <2>2. PICK row : row = [at |-> handler[w].stamp, kind |-> handler[w].does, who |-> w]
    OBVIOUS
  <2>3. /\ Len(rows) \in Nat
        /\ Len(rows') = Len(rows) + 1
        /\ \A k \in 1 .. Len(rows) : rows'[k] = rows[k]
        /\ rows'[Len(rows')] = row
    BY <1>7, <2>2, CommitRow
  <2>4. /\ row.at = handler[w].stamp /\ handler[w].stamp <= now
        /\ \A i \in 1 .. Len(rows) : rows[i].at <= row.at
    BY <2>1, <2>2 DEF StampInv
  <2>5. \A i \in 1 .. Len(rows') : rows'[i].at <= now
    <3> SUFFICES ASSUME NEW i \in 1 .. Len(rows') PROVE rows'[i].at <= now
      OBVIOUS
    <3>1. CASE i = Len(rows')
      BY <2>3, <2>4, <3>1
    <3>2. CASE i \in 1 .. Len(rows)
      BY <2>3, <3>2 DEF StampInv
    <3> QED
      BY <2>3, <3>1, <3>2
  <2>6. \A i, j \in 1 .. Len(rows') : i < j => rows'[i].at <= rows'[j].at
    <3> SUFFICES ASSUME NEW i \in 1 .. Len(rows'), NEW j \in 1 .. Len(rows'), i < j
                 PROVE  rows'[i].at <= rows'[j].at
      OBVIOUS
    <3>1. i \in 1 .. Len(rows) /\ rows'[i] = rows[i]
      BY <2>3
    <3>2. CASE j = Len(rows')
      BY <2>3, <2>4, <3>1, <3>2
    <3>3. CASE j \in 1 .. Len(rows)
      BY <2>3, <3>1, <3>3 DEF StampInv
    <3> QED
      BY <2>3, <3>2, <3>3
  <2> QED
    BY <2>1, <2>5, <2>6 DEF StampInv
<1>8. ASSUME NEW w \in Writers, Answer(w) \/ Fails(w) PROVE StampInv'
  <2>1. /\ handler'[w].at = "start"
        /\ \A v \in Writers : v # w => handler'[v] = handler[v]
    BY <1>8, EndHandler DEF Quiet
  <2>2. UNCHANGED <<now, rows>>
    BY <1>8 DEF Answer, Fails
  <2> QED
    BY <1>0, <2>1, <2>2, StampStays
<1>9. ASSUME NEW last \in Time, ExportNext(last) PROVE StampInv'
  BY <1>0, <1>9, StampStays DEF ExportNext
<1>10. CASE UNCHANGED vars
  BY <1>0, <1>10, StampStays DEF vars
<1> QED
  BY <1>1, <1>3, <1>4, <1>5, <1>6, <1>7, <1>8, <1>9, <1>10 DEF Next

-----------------------------------------------------------------------------
(* The order of a page *)

\* A finite set of numbers can be listed downwards.  (By the least size of a
\* set that could not: take out its least member.)
LEMMA DownwardsExists ==
  ASSUME NEW S \in SUBSET Nat, IsFiniteSet(S)
  PROVE  \E s \in [1 .. Cardinality(S) -> S] : \A i, j \in DOMAIN s : i < j => s[i] > s[j]
<1> DEFINE Listed(T) == \E s \in [1 .. Cardinality(T) -> T] :
                           \A i, j \in DOMAIN s : i < j => s[i] > s[j]
<1> DEFINE Sets == {T \in SUBSET Nat : IsFiniteSet(T) /\ ~Listed(T)}
<1> DEFINE Sizes == {n \in Nat : \E T \in Sets : Cardinality(T) = n}
<1> SUFFICES ASSUME ~Listed(S) PROVE FALSE
  OBVIOUS
<1>1. IsWellFoundedOn(OpToRel(<, Nat), Nat)
  BY NatLessThanWellFounded
<1>2. Sizes # {} /\ Sizes \subseteq Nat
  <2>1. Cardinality(S) \in Nat
    BY FS_CardinalityType
  <2> QED
    BY <2>1
<1>3. PICK n \in Sizes : \A m \in Sizes : ~(m < n)
  <2>1. \E n \in Sizes : \A m \in Sizes : ~(<<m, n>> \in OpToRel(<, Nat))
    <3> HIDE DEF Sizes
    <3> QED
      BY <1>1, <1>2, WFMin
  <2> QED
    BY <1>2, <2>1 DEF OpToRel
<1>4. PICK T \in SUBSET Nat : IsFiniteSet(T) /\ Cardinality(T) = n /\ ~Listed(T)
  BY <1>3
<1>5. T # {}
  <2> SUFFICES ASSUME T = {} PROVE Listed(T)
    BY <1>4
  <2>1. Cardinality(T) = 0
    BY FS_EmptySet
  <2>2. [i \in 1 .. 0 |-> 0] \in [1 .. 0 -> T]
    OBVIOUS
  <2> QED
    BY <2>1, <2>2
<1>6. PICK m \in T : \A k \in T : m <= k
  <2>1. PICK m \in T : \A k \in T : ~(<<k, m>> \in OpToRel(<, Nat))
    BY <1>1, <1>4, <1>5, WFMin
  <2>2. T \subseteq Nat
    BY <1>4
  <2>3. \A k \in T : ~(k < m)
    BY <2>1, <2>2 DEF OpToRel
  <2> QED
    BY <2>2, <2>3
<1>7. /\ IsFiniteSet(T \ {m}) /\ Cardinality(T \ {m}) = n - 1
      /\ n \in Nat /\ n - 1 \in Nat
  <2>1. IsFiniteSet(T \ {m}) /\ Cardinality(T \ {m}) = n - 1
    BY <1>4, <1>6, FS_RemoveElement
  <2>2. n \in Nat /\ Cardinality(T \ {m}) \in Nat
    BY <1>2, <2>1, FS_CardinalityType
  <2> QED
    BY <2>1, <2>2
<1>8. Listed(T \ {m})
  <2> SUFFICES ASSUME ~Listed(T \ {m}) PROVE FALSE
    OBVIOUS
  <2>1. T \ {m} \in Sets
    BY <1>7
  <2>2. n - 1 \in Sizes
    BY <1>7, <2>1
  <2> QED
    BY <1>3, <1>7, <2>2
<1>9. PICK s \in [1 .. n - 1 -> T \ {m}] : \A i, j \in 1 .. n - 1 : i < j => s[i] > s[j]
  BY <1>7, <1>8
<1> DEFINE t == [i \in 1 .. n |-> IF i = n THEN m ELSE s[i]]
<1>10. t \in [1 .. n -> T]
  BY <1>6, <1>7, <1>9
<1>11. \A i, j \in 1 .. n : i < j => t[i] > t[j]
  <2> SUFFICES ASSUME NEW i \in 1 .. n, NEW j \in 1 .. n, i < j PROVE t[i] > t[j]
    OBVIOUS
  <2>1. i \in 1 .. n - 1 /\ t[i] = s[i] /\ s[i] \in T \ {m}
    BY <1>7, <1>9
  <2>2. CASE j = n
    <3>1. t[j] = m /\ s[i] \in Nat /\ m \in Nat /\ s[i] # m /\ m <= s[i]
      BY <1>4, <1>6, <2>1, <2>2
    <3> QED
      BY <2>1, <3>1
  <2>3. CASE j # n
    BY <1>7, <1>9, <2>1, <2>3
  <2> QED
    BY <2>2, <2>3
<1> HIDE DEF t
<1>12. Listed(T)
  BY <1>4, <1>10, <1>11
<1> QED
  BY <1>4, <1>12

\* The stamps grow with the ids, so the newest row is the one with the highest
\* id.
LEMMA NewerIsHigher ==
  ASSUME TypeOK, StampInv, NEW i \in 1 .. Len(rows), NEW j \in 1 .. Len(rows)
  PROVE  Newer(i, j) <=> i > j
<1>1. rows[i].at \in Int /\ rows[j].at \in Int /\ Len(rows) \in Nat
  BY RowTimes
<1>2. /\ i < j => rows[i].at <= rows[j].at
      /\ j < i => rows[j].at <= rows[i].at
  BY DEF StampInv
<1> QED
  BY <1>1, <1>2 DEF Newer

\* The rows of a query, newest first: each of them once, the highest id first.
LEMMA NewestFirstIs ==
  ASSUME TypeOK, StampInv, NEW ids \in SUBSET (1 .. Len(rows))
  PROVE  LET s == NewestFirst(ids)
             n == Cardinality(ids)
         IN  /\ n \in 0 .. Len(rows)
             /\ s \in [1 .. n -> ids]
             /\ \A i, j \in 1 .. n : i < j => s[i] > s[j]
             /\ \A k \in ids : \E i \in 1 .. n : s[i] = k
<1> DEFINE s == NewestFirst(ids)
<1> DEFINE n == Cardinality(ids)
<1>1. IsFiniteSet(ids) /\ n \in 0 .. Len(rows)
  <2>1. Len(rows) \in Nat
    BY RowTimes
  <2>2. IsFiniteSet(1 .. Len(rows)) /\ Cardinality(1 .. Len(rows)) = Len(rows)
    BY <2>1, FS_Interval
  <2>3. IsFiniteSet(ids) /\ n <= Len(rows)
    BY <2>2, FS_Subset
  <2>4. n \in Nat
    BY <2>3, FS_CardinalityType
  <2> QED
    BY <2>1, <2>3, <2>4
<1>2. \E t \in [1 .. n -> ids] : \A i, j \in DOMAIN t : i < j => Newer(t[i], t[j])
  <2>1. ids \in SUBSET Nat
    BY RowTimes
  <2>2. PICK t \in [1 .. n -> ids] : \A i, j \in DOMAIN t : i < j => t[i] > t[j]
    BY <1>1, <2>1, DownwardsExists
  <2>3. \A i, j \in DOMAIN t : i < j => Newer(t[i], t[j])
    BY <2>2, NewerIsHigher
  <2> QED
    BY <2>2, <2>3
<1>3. s \in [1 .. n -> ids] /\ \A i, j \in DOMAIN s : i < j => Newer(s[i], s[j])
  BY <1>2 DEF NewestFirst
<1> HIDE DEF s, n
<1>4. \A i, j \in 1 .. n : i < j => s[i] > s[j]
  BY <1>3, NewerIsHigher
<1>5. \A k \in ids : \E i \in 1 .. n : s[i] = k
  <2>1. \A i, j \in 1 .. n : s[i] = s[j] => i = j
    <3> SUFFICES ASSUME NEW i \in 1 .. n, NEW j \in 1 .. n, s[i] = s[j], i # j PROVE FALSE
      OBVIOUS
    <3>1. s[i] \in Nat /\ s[j] \in Nat
      BY <1>3, RowTimes
    <3>2. i \in Int /\ j \in Int /\ (i < j \/ j < i)
      BY <1>1 DEF n
    <3> QED
      BY <1>4, <3>1, <3>2
  <2>2. s \in Injection(1 .. n, ids)
    BY <1>3, <2>1 DEF Injection, IsInjective
  <2>3. Cardinality(1 .. n) = n
    BY <1>1, FS_Interval DEF n
  <2>4. Cardinality(1 .. n) = Cardinality(ids)
    BY <2>3 DEF n
  <2>5. s \in Surjection(1 .. n, ids)
    BY <1>1, <2>2, <2>4, FS_Injection
  <2> QED
    BY <2>5 DEF Surjection
<1> QED
  BY <1>1, <1>3, <1>4, <1>5 DEF s, n

Selected(from, to) == {i \in 1 .. Len(rows) : Matches(rows[i].at, from, to)}

\* What a query returns: rows of its window, the highest id first; a row of the
\* window that is left out is older than all of them, and the limit is reached.
IsPage(q, limit, from, to) ==
    /\ Len(q) \in Nat /\ DOMAIN q = 1 .. Len(q)
    /\ \A i \in 1 .. Len(q) : q[i] \in Selected(from, to)
    /\ \A i, j \in 1 .. Len(q) : i < j => q[i] > q[j]
    /\ \A k \in Selected(from, to) :
          \/ \E i \in 1 .. Len(q) : q[i] = k
          \/ Len(q) = limit /\ limit < Len(rows) /\ \A i \in 1 .. Len(q) : q[i] > k

LEMMA QueryIs ==
  ASSUME TypeOK, StampInv, NEW limit \in Nat, NEW from, NEW to
  PROVE  IsPage(BuildQuery(limit, from, to), limit, from, to)
<1>0. PICK q : q = BuildQuery(limit, from, to)
  OBVIOUS
<1> DEFINE ids == Selected(from, to)
<1>1. PICK n, s : n = Cardinality(ids) /\ s = NewestFirst(ids)
  OBVIOUS
<1>2. /\ n \in 0 .. Len(rows)
      /\ s \in [1 .. n -> ids]
      /\ \A i, j \in 1 .. n : i < j => s[i] > s[j]
      /\ \A k \in ids : \E i \in 1 .. n : s[i] = k
  <2>1. ids \in SUBSET (1 .. Len(rows))
    BY DEF Selected
  <2> HIDE DEF ids
  <2> QED
    BY <1>1, <2>1, NewestFirstIs
<1>3. Len(rows) \in Nat /\ ids \subseteq Nat
  BY RowTimes DEF Selected
<1>4. s \in Seq(ids) /\ Len(s) = n
  BY <1>2, <1>3
<1>5. q = SubSeq(s, 1, IF limit < Len(s) THEN limit ELSE Len(s))
  BY <1>0, <1>1 DEF BuildQuery, Selected
<1> HIDE DEF ids
<1>6. PICK m : m = IF limit < n THEN limit ELSE n
  OBVIOUS
<1>7. m \in Nat /\ m <= n /\ n \in Nat /\ (m # n => m = limit /\ limit < n)
  <2>1. n \in Nat
    BY <1>2, <1>3
  <2>2. CASE limit < n
    BY <1>6, <2>1, <2>2
  <2>3. CASE ~(limit < n)
    BY <1>6, <2>1, <2>3
  <2> QED
    BY <2>1, <2>2, <2>3
<1>8. q = SubSeq(s, 1, m)
  BY <1>4, <1>5, <1>6
<1>9. Len(q) = m /\ DOMAIN q = 1 .. m /\ \A i \in 1 .. m : q[i] = s[i]
  BY <1>4, <1>7, <1>8
<1>10. \A i \in 1 .. m : q[i] \in ids
  BY <1>2, <1>7, <1>9
<1>11. \A i, j \in 1 .. m : i < j => q[i] > q[j]
  BY <1>2, <1>7, <1>9
<1>12. ASSUME NEW k \in ids, ~\E i \in 1 .. m : q[i] = k
       PROVE  m = limit /\ limit < Len(rows) /\ \A i \in 1 .. m : q[i] > k
  <2>1. PICK j \in 1 .. n : s[j] = k
    BY <1>2
  <2>2. j > m
    BY <1>7, <1>9, <1>12, <2>1
  <2>3. m = limit /\ limit < n /\ n <= Len(rows)
    BY <1>2, <1>7, <2>2
  <2>4. \A i \in 1 .. m : q[i] > k
    BY <1>2, <1>7, <1>9, <2>1, <2>2
  <2> QED
    BY <1>3, <1>7, <2>3, <2>4
<1> QED
  BY <1>0, <1>7, <1>9, <1>10, <1>11, <1>12 DEF IsPage, ids

-----------------------------------------------------------------------------
(* Exports *)

\* A step that inserts, commits and exports nothing.
LEMMA ExportStays ==
  ASSUME TypeOK, ExportInv, UNCHANGED <<rows, passed, readVars>>, now' \in Int, now <= now',
         \A w \in Writers : handler'[w].at = "commit" => handler'[w] = handler[w]
  PROVE  ExportInv'
<1>1. now \in Int /\ upto \in Int
  BY DEF TypeOK, Time, Bound, NoBound
<1> QED
  BY <1>1 DEF ExportInv, readVars

LEMMA ExportKept == TypeOK /\ WriteInv /\ StampInv /\ ExportInv /\ [Next]_vars => ExportInv'
<1> SUFFICES ASSUME TypeOK, WriteInv, StampInv, ExportInv, [Next]_vars PROVE ExportInv'
  OBVIOUS
<1>0. now \in Int /\ upto \in Int /\ \A w \in Writers : handler[w].stamp \in Int
  BY HandlerType DEF TypeOK, Time, Bound, NoBound
<1>00. Len(rows) \in Nat /\ \A k \in 1 .. Len(rows) : passed[k] \in Int /\ rows[k].at \in Int
  <2>1. \A k \in 1 .. Len(rows) : passed[k] \in Bound
    BY DEF TypeOK
  <2> QED
    BY <2>1, RowTimes DEF Bound, Time, NoBound
<1> USE DEF readVars, writeVars
<1>1. CASE Tick
  BY <1>0, <1>1, ExportStays DEF Tick
<1>2. ASSUME NEW w \in Writers, NEW kind \in Kind, NEW exp \in Nat, Begin(w, kind, exp)
      PROVE  ExportInv'
  <2>1. /\ handler'[w].at = "start"
        /\ \A v \in Writers : v # w => handler'[v] = handler[v]
        /\ UNCHANGED <<now, rows, passed, readVars>>
    BY <1>2, BeginType
  <2> QED
    BY <1>0, <2>1, ExportStays
<1>3. ASSUME NEW u \in Users, Login(u) PROVE ExportInv'
  BY <1>2, <1>3, LoginExp, UserWrites DEF Login, Kind
<1>4. ASSUME NEW u \in Users, Logout(u) PROVE ExportInv'
  BY <1>2, <1>4, UserWrites DEF Logout, Kind
<1>5. CASE RuntimeAppends
  BY <1>2, <1>5, UserWrites DEF RuntimeAppends, Kind
<1>6. ASSUME NEW w \in Writers, Insert(w) PROVE ExportInv'
  <2>1. UNCHANGED <<now, rows, passed, taken, upto>>
    BY <1>6 DEF Insert
  <2>2. \A v \in Writers : handler'[v].at = "commit" =>
           \A k \in 1 .. Len(rows) : passed[k] < handler'[v].stamp
    <3>1. handler'[w].stamp = now /\ \A v \in Writers : v # w => handler'[v] = handler[v]
      BY <1>6, InsertHandler
    <3>2. \A k \in 1 .. Len(rows) : passed[k] < now
      BY <1>0, <1>00 DEF ExportInv
    <3> QED
      BY <3>1, <3>2 DEF ExportInv
  <2> QED
    BY <2>1, <2>2 DEF ExportInv
<1>7. ASSUME NEW w \in Writers, Commit(w) PROVE ExportInv'
  <2>1. UNCHANGED <<now, taken, upto>> /\ handler[w].at = "commit"
    BY <1>7 DEF Commit
  <2>2. \A v \in Writers : handler'[v].at # "commit"
    <3>1. handler'[w].at = "refresh" /\ \A v \in Writers : v # w => handler'[v] = handler[v]
      BY <1>7, CommitHandler
    <3> QED
      BY <2>1, <3>1 DEF StampInv
  <2>3. PICK row : row = [at |-> handler[w].stamp, kind |-> handler[w].does, who |-> w]
    OBVIOUS
  <2>4. /\ Len(rows) \in Nat
        /\ Len(rows') = Len(rows) + 1
        /\ \A k \in 1 .. Len(rows) : rows'[k] = rows[k]
        /\ rows'[Len(rows) + 1] = row
    BY <1>7, <2>3, CommitRow
  <2>5. /\ \A k \in 1 .. Len(rows) : passed'[k] = passed[k]
        /\ passed'[Len(rows) + 1] = upto
    BY <1>7, PassedGrows DEF TypeOK
  <2>6. row.at = handler[w].stamp
    BY <2>3
  <2>7. \A k \in 1 .. Len(rows') : passed'[k] <= upto
    BY <1>0, <2>4, <2>5 DEF ExportInv
  <2>8. \A k, l \in 1 .. Len(rows') : k < l => passed'[k] < rows'[l].at
    <3> SUFFICES ASSUME NEW k \in 1 .. Len(rows'), NEW l \in 1 .. Len(rows'), k < l
                 PROVE  passed'[k] < rows'[l].at
      OBVIOUS
    <3>1. CASE l \in 1 .. Len(rows)
      BY <2>4, <2>5, <3>1 DEF ExportInv
    <3>2. CASE l = Len(rows) + 1
      <4>1. k \in 1 .. Len(rows) /\ rows'[l].at = handler[w].stamp
        BY <2>4, <2>6, <3>2
      <4> QED
        BY <2>1, <2>5, <4>1 DEF ExportInv
    <3> QED
      BY <2>4, <3>1, <3>2
  <2>9. ASSUME NEW k \in 1 .. MaxRows
        PROVE  taken[k] = IF k \in 1 .. Len(rows') /\ passed'[k] < rows'[k].at
                             /\ rows'[k].at <= upto
                          THEN 1 ELSE 0
    <3>1. taken[k] = IF k \in 1 .. Len(rows) /\ passed[k] < rows[k].at /\ rows[k].at <= upto
                     THEN 1 ELSE 0
      BY DEF ExportInv
    <3>2. CASE k \in 1 .. Len(rows)
      BY <2>4, <2>5, <3>1, <3>2
    <3>3. CASE k = Len(rows) + 1
      BY <1>0, <2>4, <2>5, <2>6, <3>1, <3>3
    <3>4. CASE k \notin 1 .. Len(rows')
      BY <2>4, <3>1, <3>4
    <3> QED
      BY <2>4, <3>2, <3>3, <3>4
  <2> QED
    BY <1>0, <2>1, <2>2, <2>7, <2>8, <2>9 DEF ExportInv
<1>8. ASSUME NEW w \in Writers, Answer(w) \/ Fails(w) PROVE ExportInv'
  <2>1. /\ handler'[w].at = "start"
        /\ \A v \in Writers : v # w => handler'[v] = handler[v]
    BY <1>8, EndHandler DEF Quiet
  <2>2. UNCHANGED <<now, rows, passed, taken, upto>>
    BY <1>8 DEF Answer, Fails
  <2> QED
    BY <1>0, <2>1, <2>2, ExportStays
<1>9. ASSUME NEW last \in Time, ExportNext(last) PROVE ExportInv'
  <2>1. PICK q : q = BuildQuery(Len(rows), upto, last)
    OBVIOUS
  <2>2. /\ upto < last /\ last < now /\ upto' = last
        /\ UNCHANGED <<now, rows, passed, handler>>
        /\ taken' = [i \in DOMAIN taken |-> IF i \in ToSet(q) THEN taken[i] + 1 ELSE taken[i]]
    BY <1>9, <2>1 DEF ExportNext
  <2>3. Len(rows) \in Nat /\ ToSet(q) = Selected(upto, last)
    <3>1. Len(rows) \in Nat
      BY RowTimes
    <3>2. /\ Len(q) \in Nat /\ DOMAIN q = 1 .. Len(q)
          /\ \A i \in 1 .. Len(q) : q[i] \in Selected(upto, last)
          /\ \A k \in Selected(upto, last) :
                \/ \E i \in 1 .. Len(q) : q[i] = k
                \/ Len(q) = Len(rows) /\ Len(rows) < Len(rows)
                   /\ \A i \in 1 .. Len(q) : q[i] > k
      <4>1. IsPage(q, Len(rows), upto, last)
        BY <2>1, <3>1, QueryIs
      <4> QED
        BY <4>1 DEF IsPage
    <3>3. \A k \in Selected(upto, last) : \E i \in 1 .. Len(q) : q[i] = k
      BY <3>1, <3>2
    <3> QED
      BY <3>1, <3>2, <3>3 DEF ToSet
  <2>4. last \in Int /\ last # NoBound
    BY ApiAssumption DEF Time, NoBound
  <2>5. \A k \in 1 .. Len(rows) : rows[k].at \in Int /\ rows[k].at > NoBound
    <3>1. \A k \in 1 .. Len(rows) : rows[k] \in Row
      BY DEF TypeOK
    <3> QED
      BY <3>1 DEF Row, Time, NoBound
  <2>6. \A k \in 1 .. Len(rows) :
           k \in Selected(upto, last) <=> rows[k].at > upto /\ rows[k].at <= last
    BY <2>4, <2>5 DEF Selected, Matches
  <2>7. ASSUME NEW k \in 1 .. MaxRows
        PROVE  taken'[k] = IF k \in 1 .. Len(rows) /\ passed[k] < rows[k].at
                              /\ rows[k].at <= last
                           THEN 1 ELSE 0
    <3>1. taken[k] = IF k \in 1 .. Len(rows) /\ passed[k] < rows[k].at /\ rows[k].at <= upto
                     THEN 1 ELSE 0
      BY DEF ExportInv
    <3>2. taken'[k] = IF k \in Selected(upto, last) THEN taken[k] + 1 ELSE taken[k]
      BY <2>2, <2>3 DEF TypeOK
    <3>3. CASE k \in 1 .. Len(rows)
      <4>1. passed[k] <= upto /\ passed[k] \in Int /\ rows[k].at \in Int
        BY <1>00, <3>3 DEF ExportInv
      <4>2. k \in Selected(upto, last) <=> rows[k].at > upto /\ rows[k].at <= last
        BY <2>6, <3>3
      <4>3. CASE rows[k].at > upto
        BY <1>0, <2>2, <2>4, <3>1, <3>2, <3>3, <4>1, <4>2, <4>3
      <4>4. CASE ~(rows[k].at > upto)
        BY <1>0, <2>2, <2>4, <3>1, <3>2, <3>3, <4>1, <4>2, <4>4
      <4> QED
        BY <4>3, <4>4
    <3>4. CASE k \notin 1 .. Len(rows)
      BY <3>1, <3>2, <3>4 DEF Selected
    <3> QED
      BY <3>3, <3>4
  <2>8. \A k \in 1 .. Len(rows) : passed[k] <= last
    BY <1>0, <1>00, <2>2, <2>4 DEF ExportInv
  <2> QED
    BY <2>2, <2>7, <2>8 DEF ExportInv
<1>10. CASE UNCHANGED vars
  BY <1>0, <1>10, ExportStays DEF vars
<1> QED
  BY <1>1, <1>3, <1>4, <1>5, <1>6, <1>7, <1>8, <1>9, <1>10 DEF Next

-----------------------------------------------------------------------------
(* The theorems *)

\* A token is returned once the row of its login is in the table.
LEMMA TokensKept ==
  TypeOK /\ WriteInv /\ TokensAreJournalled /\ [Next]_vars => TokensAreJournalled'
<1> SUFFICES ASSUME TypeOK, WriteInv, TokensAreJournalled, [Next]_vars, NEW t \in tokens'
             PROVE  LoginRow(t.who, t.exp - TokenLife)'
  BY DEF TokensAreJournalled, LoginRow
<1>0. t \in tokens => LoginRow(t.who, t.exp - TokenLife)
  BY DEF TokensAreJournalled, LoginRow
<1> USE DEF writeVars, readVars
<1>1. ASSUME UNCHANGED <<rows, tokens>> PROVE LoginRow(t.who, t.exp - TokenLife)'
  BY <1>0, <1>1 DEF LoginRow
<1>2. CASE Tick \/ RuntimeAppends
  BY <1>1, <1>2 DEF Tick, RuntimeAppends, Begin
<1>3. ASSUME NEW u \in Users, Login(u) \/ Logout(u)
      PROVE  LoginRow(t.who, t.exp - TokenLife)'
  BY <1>1, <1>3 DEF Login, Logout, Begin
<1>4. ASSUME NEW w \in Writers, Insert(w) \/ Fails(w)
      PROVE  LoginRow(t.who, t.exp - TokenLife)'
  BY <1>1, <1>4 DEF Insert, Fails
<1>5. ASSUME NEW w \in Writers, Commit(w) PROVE LoginRow(t.who, t.exp - TokenLife)'
  <2>1. t \in tokens
    BY <1>5 DEF Commit
  <2> QED
    BY <1>0, <1>5, <2>1, RowStays
<1>6. ASSUME NEW w \in Writers, Answer(w) PROVE LoginRow(t.who, t.exp - TokenLife)'
  <2>1. rows' = rows /\ handler[w].at = "refresh"
    BY <1>6 DEF Answer
  <2>2. CASE t \in tokens
    BY <1>0, <2>1, <2>2 DEF LoginRow
  <2>3. CASE t \notin tokens
    <3>1. handler[w].does = "login" /\ t = [who |-> w, exp |-> handler[w].exp]
      BY <1>6, <2>3 DEF Answer
    <3>2. LoginRow(w, handler[w].exp - TokenLife)
      BY <2>1, <3>1 DEF WriteInv, WriteOK
    <3>3. LoginRow(t.who, t.exp - TokenLife)
      BY <3>1, <3>2
    <3> QED
      BY <2>1, <3>3 DEF LoginRow
  <2> QED
    BY <2>2, <2>3
<1>7. ASSUME NEW last \in Time, ExportNext(last) PROVE LoginRow(t.who, t.exp - TokenLife)'
  BY <1>1, <1>7 DEF ExportNext
<1>8. CASE UNCHANGED vars
  BY <1>1, <1>8 DEF vars
<1> QED
  BY <1>2, <1>3, <1>4, <1>5, <1>6, <1>7, <1>8 DEF Next

LEMMA InitInv == Init => IInv
<1> SUFFICES ASSUME Init PROVE IInv
  OBVIOUS
<1>1. TypeOK
  BY InitType
<1>2. Len(rows) = 0 /\ now = 0 /\ upto = -1 /\ tokens = {}
  BY DEF Init, NoBound
<1>3. \A w \in Writers : handler[w] = Quiet
  BY DEF Init
<1>4. \A w \in Writers : handler[w].at = "start" /\ handler[w].does = "nothing"
  BY <1>3 DEF Quiet
<1>5. WriteInv
  BY <1>4 DEF WriteInv, WriteOK
<1>6. StampInv
  BY <1>2, <1>4 DEF StampInv
<1>7. ExportInv
  BY <1>2, <1>4 DEF ExportInv, Init
<1>8. TokensAreJournalled
  BY <1>2 DEF TokensAreJournalled
<1> QED
  BY <1>1, <1>5, <1>6, <1>7, <1>8 DEF IInv

LEMMA NextInv == IInv /\ [Next]_vars => IInv'
  BY NextType, WriteKept, StampKept, ExportKept, TokensKept DEF IInv

LEMMA InvHolds == Spec => []IInv
  BY InitInv, NextInv, PTL DEF Spec

\* Clock, rows, handlers, tokens and exports keep their types.
THEOREM TypeCorrect == Spec => []TypeOK
<1>1. IInv => TypeOK
  BY DEF IInv
<1> QED
  BY <1>1, InvHolds, PTL

\* Whoever holds a token, the journal has the row of that login, whatever the
\* database did to the other requests.
THEOREM Journalled == Spec => []TokensAreJournalled
<1>1. IInv => TokensAreJournalled
  BY DEF IInv
<1> QED
  BY <1>1, InvHolds, PTL

\* Exports that begin where the last one ended have every row once, but for rows
\* stamped within an export and committed after it, of which an export misses at
\* most one.
THEOREM Tile == Spec => []ExportsTile
<1>1. IInv => ExportsTile
  <2> SUFFICES ASSUME IInv PROVE ExportsTile
    OBVIOUS
  <2>1. Len(rows) \in Nat /\ Len(rows) <= MaxRows /\ MaxRows \in Nat
    BY RowTimes, ApiAssumption DEF IInv, TypeOK
  <2>2. ASSUME NEW k \in 1 .. Len(rows)
        PROVE  taken[k] = IF ~Late(k) /\ rows[k].at <= upto THEN 1 ELSE 0
    <3>1. passed[k] \in Bound
      BY DEF IInv, TypeOK
    <3>2. passed[k] \in Int /\ rows[k].at \in Int
      BY <3>1, RowTimes DEF IInv, Bound, Time, NoBound
    <3>3. ~Late(k) <=> passed[k] < rows[k].at
      BY <3>2 DEF Late
    <3> QED
      BY <2>1, <3>3 DEF IInv, ExportInv
  <2> QED
    BY <2>2 DEF ExportsTile, IInv, ExportInv
<1> QED
  BY <1>1, InvHolds, PTL

\* A page has the newest rows of its window, in the reverse of the order they
\* were committed in.
THEOREM Newest == Spec => []PagesAreNewest
<1>1. IInv => PagesAreNewest
  <2> SUFFICES ASSUME IInv, NEW limit \in Limits, NEW first \in Text, NEW last \in Text,
                      GetJournal(limit, first, last)[1] = "200"
               PROVE  LET ids == GetJournal(limit, first, last)[2]
                          Wanted(k) == Matches(rows[k].at, ParseDate(first, FALSE),
                                               ParseDate(last, TRUE))
                      IN  /\ \A i \in 1 .. Len(ids) : Wanted(ids[i])
                          /\ \A i, j \in 1 .. Len(ids) : i < j => ids[i] > ids[j]
                          /\ \A k \in 1 .. Len(rows) :
                                Wanted(k) /\ k \notin ToSet(ids) =>
                                   Len(ids) = limit /\ \A i \in 1 .. Len(ids) : ids[i] > k
    BY DEF PagesAreNewest
  <2>1. PICK from, to : from = ParseDate(first, FALSE) /\ to = ParseDate(last, TRUE)
    OBVIOUS
  <2>2. PICK q : q = BuildQuery(limit, from, to)
    OBVIOUS
  <2>3. limit \in Nat
    BY ApiAssumption
  <2>4. IsPage(q, limit, from, to)
    BY <2>2, <2>3, QueryIs DEF IInv
  <2>5. GetJournal(limit, first, last)[2] = q
    <3>1. \/ GetJournal(limit, first, last) = <<"422">>
          \/ GetJournal(limit, first, last) = <<"400">>
          \/ GetJournal(limit, first, last) = <<"200", q>>
      BY <2>1, <2>2 DEF GetJournal
    <3>2. GetJournal(limit, first, last) = <<"200", q>>
      BY <3>1
    <3> QED
      BY <3>2
  <2>6. \A i \in 1 .. Len(q) : Matches(rows[q[i]].at, from, to)
    BY <2>4 DEF IsPage, Selected
  <2>7. ASSUME NEW k \in 1 .. Len(rows), Matches(rows[k].at, from, to), k \notin ToSet(q)
        PROVE  Len(q) = limit /\ \A i \in 1 .. Len(q) : q[i] > k
    <3>1. k \in Selected(from, to)
      BY <2>7 DEF Selected
    <3>2. ~\E i \in 1 .. Len(q) : q[i] = k
      BY <2>4, <2>7 DEF IsPage, ToSet
    <3> QED
      BY <2>4, <3>1, <3>2 DEF IsPage
  <2>8. \A i, j \in 1 .. Len(q) : i < j => q[i] > q[j]
    BY <2>4 DEF IsPage
  <2> QED
    BY <2>1, <2>5, <2>6, <2>7, <2>8
<1> QED
  BY <1>1, InvHolds, PTL

=============================================================================
