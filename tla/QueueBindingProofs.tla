------------------------- MODULE QueueBindingProofs -------------------------
(***************************************************************************)
(* What holds of the binding of rows for every queue an earlier release    *)
(* may have left, any configurations, any number of rows, kills and        *)
(* changes of the configuration, and any order in which the programs       *)
(* execute the statements of _init_db.                                     *)
(***************************************************************************)
EXTENDS QueueBinding, SequenceTheorems, TLAPS

Statuses == {"queued", "uploading", "done"}
Rows == [status : Statuses, bound : Bindings \cup {Null}, home : Bindings,
         sent : SUBSET (Programs \X [backend : Backends, site : Sites])]
Stages  == {"down", "check", "schema", "columns", "alter", "bind", "recover", "open"}
Columns == {Absent} \cup SUBSET All

-----------------------------------------------------------------------------
(* Types.                                                                  *)

\* What the type of the programs' memory rests on: a program that runs has read the
\* configuration, the table is there from its third statement on, and nobody binds
\* rows without an answer to the question whose they are.
Ready(p) ==
  /\ pc[p] # "down" => seen[p] \in Configs
  /\ pc[p] \in Stages \ {"down", "check", "schema"} => columns \subseteq All
  /\ pc[p] = "alter" => known[p] \subseteq All
  /\ pc[p] = "bind" => Context(p) \in Legacy

ProgramInv == \A p \in Programs : Ready(p)

\* Who has passed the binding of rows leaves none without, whoever opens beside it.
OpenBound == \A p \in Programs : pc[p] \in {"recover", "open"} => AllBound

\* The rows are a sequence, that is, a function on the numbers up to its length.
LEMMA RowsType ==
  ASSUME rows \in Seq(Rows)
  PROVE  /\ Len(rows) \in Nat /\ DOMAIN rows = 1..Len(rows)
         /\ rows \in [1..Len(rows) -> Rows]
         /\ \A r \in DOMAIN rows : rows[r] \in Rows
  OBVIOUS

\* Rows that keep their places and their type are again rows of a queue.
LEMMA SameRows ==
  ASSUME rows \in Seq(Rows), NEW f \in [DOMAIN rows -> Rows]
  PROVE  f \in Seq(Rows) /\ DOMAIN f = DOMAIN rows
<1>1. Len(rows) \in Nat /\ DOMAIN rows = 1..Len(rows)
  BY RowsType
<1>2. f \in [1..Len(rows) -> Rows]
  BY <1>1
<1>3. f \in Seq(Rows)
  BY <1>1, <1>2
<1> QED
  BY <1>3

LEMMA TypeShape ==
  TypeOK <=> /\ columns \in Columns /\ rows \in Seq(Rows) /\ config \in Configs
             /\ pc \in [Programs -> Stages]
             /\ seen \in [Programs -> Configs \cup {Unread}]
             /\ known \in [Programs -> Columns]
             /\ spent \in [{"crash", "change"} -> Nat]
BY DEF TypeOK, Columns, Rows, Statuses, Stages

\* Bindings that are real are not null.
LEMMA NotNull == \A b \in Bindings : b # Null
BY DEF Bindings, Null, Backends

\* A step of one program that leaves the table in place leaves the others ready.
LEMMA OthersReady ==
  ASSUME TypeOK, ProgramInv, columns \subseteq All => columns' \subseteq All,
         NEW p \in Programs, NEW q \in Programs, q # p,
         pc'[q] = pc[q], seen'[q] = seen[q], known'[q] = known[q]
  PROVE  Ready(q)'
<1>1. Ready(q)
  BY DEF ProgramInv
<1> QED
  BY <1>1 DEF Ready, Context

\* What a program may go on to.
LEMMA GotoType ==
  ASSUME TypeOK, ProgramInv, columns \subseteq All => columns' \subseteq All,
         NEW p \in Programs, NEW stage \in Stages \ {"down"}, NEW k \in Columns,
         pc[p] # "down",
         Goto(p, stage), known' = [known EXCEPT ![p] = k],
         stage \notin {"check", "schema"} => columns' \subseteq All,
         stage = "alter" => k \subseteq All,
         stage = "bind" => Context(p) \in Legacy
  PROVE  /\ pc' \in [Programs -> Stages] /\ seen' = seen /\ known' \in [Programs -> Columns]
         /\ ProgramInv'
<1>1. pc' \in [Programs -> Stages] /\ seen' = seen /\ known' \in [Programs -> Columns]
  BY TypeShape DEF Goto
<1>2. pc'[p] = stage /\ known'[p] = k
  BY TypeShape DEF Goto
<1>3. Ready(p)'
  BY <1>1, <1>2 DEF ProgramInv, Ready, Context, Stages
<1>4. ASSUME NEW q \in Programs, q # p PROVE Ready(q)'
  <2>1. pc'[q] = pc[q] /\ seen'[q] = seen[q] /\ known'[q] = known[q]
    BY <1>4, TypeShape DEF Goto
  <2> QED
    BY <1>4, <2>1, OthersReady
<1> QED
  BY <1>1, <1>3, <1>4 DEF ProgramInv

LEMMA FailType ==
  ASSUME TypeOK, ProgramInv, columns' = columns, NEW p \in Programs, Fail(p)
  PROVE  /\ pc' \in [Programs -> Stages] /\ seen' \in [Programs -> Configs \cup {Unread}]
         /\ known' \in [Programs -> Columns]
         /\ ProgramInv'
<1>1. /\ pc' \in [Programs -> Stages] /\ seen' \in [Programs -> Configs \cup {Unread}]
      /\ known' \in [Programs -> Columns]
  <2>1. "down" \in Stages /\ {} \in Columns
    BY DEF Stages, Columns
  <2> QED
    BY <2>1, TypeShape DEF Fail
<1>2. pc'[p] = "down"
  BY TypeShape DEF Fail
<1>3. Ready(p)'
  BY <1>2 DEF Ready
<1>4. ASSUME NEW q \in Programs, q # p PROVE Ready(q)'
  <2>1. pc'[q] = pc[q] /\ seen'[q] = seen[q] /\ known'[q] = known[q]
    BY <1>4, TypeShape DEF Fail
  <2> QED
    BY <1>4, <2>1, OthersReady
<1> QED
  BY <1>1, <1>3, <1>4 DEF ProgramInv

LEMMA NewRowType ==
  ASSUME NEW s \in Statuses, NEW b \in Bindings \cup {Null}, NEW h \in Bindings
  PROVE  NewRow(s, b, h) \in Rows
BY DEF NewRow, Rows

\* A program at work records real bindings, and has a real target.
LEMMA RecordedType ==
  ASSUME TypeOK, ProgramInv, NEW p \in Programs, pc[p] # "down"
  PROVE  /\ Recorded(p) \in Bindings
         /\ seen[p].site \in Sites
         /\ \A b \in Bindings : Target(p, b) \in [backend : Backends, site : Sites]
<1>1. seen[p] \in [backend : Backends, legacy : Legacy \cup {None}, site : Sites]
  BY BindingAssumption DEF ProgramInv, Ready
<1> QED
  BY <1>1 DEF Recorded, Snapshot, Bindings, Target, Registered, OwnFolder, Backends

LEMMA StepType ==
  ASSUME TypeOK, ProgramInv, OpenBound, [Next]_vars
  PROVE  TypeOK' /\ ProgramInv'
<1>t. /\ columns \in Columns /\ rows \in Seq(Rows) /\ config \in Configs
      /\ pc \in [Programs -> Stages] /\ seen \in [Programs -> Configs \cup {Unread}]
      /\ known \in [Programs -> Columns] /\ spent \in [{"crash", "change"} -> Nat]
  BY TypeShape
<1>u. ASSUME columns' \in Columns, rows' \in Seq(Rows), config' \in Configs,
             pc' \in [Programs -> Stages], seen' \in [Programs -> Configs \cup {Unread}],
             known' \in [Programs -> Columns], spent' \in [{"crash", "change"} -> Nat]
      PROVE  TypeOK'
  BY <1>u DEF TypeOK, Columns, Rows, Statuses, Stages
<1>k. \A p \in Programs : known[p] \in Columns /\ known = [known EXCEPT ![p] = known[p]]
  BY <1>t
<1>a. columns \in SUBSET All \/ columns = Absent
  BY <1>t DEF Columns
<1>1. ASSUME NEW p \in Programs, Start(p) PROVE TypeOK' /\ ProgramInv'
  <2>1. /\ pc' \in [Programs -> Stages] /\ seen' \in [Programs -> Configs \cup {Unread}]
        /\ pc'[p] = "check" /\ seen'[p] \in Configs
    BY <1>1, <1>t DEF Start, Stages
  <2>2. Ready(p)'
    BY <2>1 DEF Ready
  <2>3. ASSUME NEW q \in Programs, q # p PROVE Ready(q)'
    <3>1. pc'[q] = pc[q] /\ seen'[q] = seen[q] /\ known'[q] = known[q] /\ columns' = columns
      BY <1>1, <1>t, <2>3 DEF Start
    <3> QED
      BY <2>3, <3>1, OthersReady
  <2> QED
    BY <1>1, <1>t, <1>u, <2>1, <2>2, <2>3 DEF Start, Alone, ProgramInv
<1>2. ASSUME NEW p \in Programs, Check(p) PROVE TypeOK' /\ ProgramInv'
  <2>1. CASE Fail(p)
    BY <1>2, <1>t, <1>u, <2>1, FailType DEF Check, Alone
  <2>2. CASE Goto(p, "schema") /\ UNCHANGED known
    <3>1. pc[p] # "down" /\ columns' = columns /\ "schema" \in Stages \ {"down"}
      BY <1>2 DEF Check, Stages
    <3> QED
      BY <1>2, <1>t, <1>u, <1>k, <2>2, <3>1, GotoType DEF Check, Alone
  <2> QED
    BY <1>2, <2>1, <2>2 DEF Check
<1>3. ASSUME NEW p \in Programs, Schema(p) PROVE TypeOK' /\ ProgramInv'
  <2>1. pc[p] # "down" /\ columns' \in Columns /\ columns' \subseteq All
    BY <1>3, <1>a DEF Schema, Columns
  <2>2. "columns" \in Stages \ {"down"}
    BY DEF Stages
  <2> QED
    BY <1>3, <1>t, <1>u, <1>k, <2>1, <2>2, GotoType DEF Schema, Alone
<1>4. ASSUME NEW p \in Programs, ReadColumns(p) PROVE TypeOK' /\ ProgramInv'
  <2>1. pc[p] # "down" /\ columns \subseteq All /\ "alter" \in Stages \ {"down"}
    BY <1>4 DEF ReadColumns, ProgramInv, Ready, Stages
  <2> QED
    BY <1>4, <1>t, <1>u, <2>1, GotoType DEF ReadColumns, Alone
<1>5. ASSUME NEW p \in Programs, Alter(p) PROVE TypeOK' /\ ProgramInv'
  <2> DEFINE name == IF Binding[1] \notin known[p] THEN Binding[1] ELSE Binding[2]
  <2>1. name \in All
    BY DEF Binding, All
  <2>2. CASE Fail(p) /\ UNCHANGED columns
    BY <1>5, <1>t, <1>u, <2>2, FailType DEF Alter, Alone
  <2>3. CASE /\ columns' = columns \cup {name}
             /\ known' = [known EXCEPT ![p] = @ \cup {name}]
             /\ UNCHANGED <<pc, seen>>
    <3>1. pc[p] = "alter" /\ columns \subseteq All /\ known[p] \subseteq All
      BY <1>5 DEF Alter, ProgramInv, Ready, Stages
    <3>2. columns' \subseteq All /\ columns' \in Columns
      BY <2>1, <2>3, <3>1 DEF Columns
    <3>3. known[p] \cup {name} \in Columns /\ known[p] \cup {name} \subseteq All
      BY <2>1, <3>1 DEF Columns
    <3>4. Goto(p, "alter") /\ known' = [known EXCEPT ![p] = known[p] \cup {name}]
      BY <1>t, <2>3, <3>1 DEF Goto
    <3>5. "alter" \in Stages \ {"down"}
      BY DEF Stages
    <3> HIDE DEF name
    <3>6. pc' \in [Programs -> Stages] /\ seen' = seen /\ known' \in [Programs -> Columns] /\ ProgramInv'
      BY <3>1, <3>2, <3>3, <3>4, <3>5, GotoType
    <3> QED
      BY <1>5, <1>t, <1>u, <3>2, <3>6 DEF Alter, Alone
  <2> QED
    BY <1>5, <2>2, <2>3 DEF Alter
<1>6. ASSUME NEW p \in Programs, CountUnbound(p) PROVE TypeOK' /\ ProgramInv'
  <2>1. CASE Fail(p)
    BY <1>6, <1>t, <1>u, <2>1, FailType DEF CountUnbound, Alone
  <2>2. CASE Verdict(p) # "down" /\ Goto(p, Verdict(p)) /\ known' = [known EXCEPT ![p] = {}]
    <3>1. pc[p] = "alter" /\ columns \subseteq All /\ columns' = columns
      BY <1>6 DEF CountUnbound, ProgramInv, Ready, Stages
    <3>2. Verdict(p) \in Stages \ {"down"} /\ Verdict(p) # "alter"
      BY <2>2 DEF Verdict, Stages
    <3>3. Verdict(p) = "bind" => Context(p) \in Legacy
      BY DEF Verdict
    <3>4. {} \in Columns
      BY DEF Columns
    <3>5. pc' \in [Programs -> Stages] /\ seen' = seen /\ known' \in [Programs -> Columns] /\ ProgramInv'
      BY <2>2, <3>1, <3>2, <3>3, <3>4, GotoType
    <3> QED
      BY <1>6, <1>t, <1>u, <3>5 DEF CountUnbound, Alone
  <2> QED
    BY <1>6, <2>1, <2>2 DEF CountUnbound
<1>7. ASSUME NEW p \in Programs, Bind(p) PROVE TypeOK' /\ ProgramInv'
  <2>1. pc[p] = "bind" /\ columns \subseteq All /\ columns' = columns /\ "recover" \in Stages \ {"down"}
    BY <1>7 DEF Bind, ProgramInv, Ready, Stages
  <2>2. BoundBy(p) \in Bindings
    <3>1. seen[p] \in Configs /\ Context(p) \in Legacy
      BY <2>1 DEF ProgramInv, Ready
    <3> QED
      BY <3>1, BindingAssumption DEF BoundBy, Bindings, Legacy, Backends
  <2>3. rows' \in [DOMAIN rows -> Rows]
    BY <1>7, <1>t, <2>2, RowsType DEF Bind, Rows
  <2>4. rows' \in Seq(Rows)
    BY <1>t, <2>3, SameRows
  <2> QED
    BY <1>7, <1>t, <1>u, <1>k, <2>1, <2>4, GotoType DEF Bind, Alone
<1>8. ASSUME NEW p \in Programs, Recover(p) PROVE TypeOK' /\ ProgramInv'
  <2>1. pc[p] = "recover" /\ columns \subseteq All /\ columns' = columns /\ "open" \in Stages \ {"down"}
    BY <1>8 DEF Recover, ProgramInv, Ready, Stages
  <2>2. rows' \in [DOMAIN rows -> Rows]
    BY <1>8, <1>t, RowsType DEF Recover, Interrupted, Rows, Statuses
  <2>3. rows' \in Seq(Rows)
    BY <1>t, <2>2, SameRows
  <2> QED
    BY <1>8, <1>t, <1>u, <1>k, <2>1, <2>3, GotoType DEF Recover, Alone
<1>q. UNCHANGED <<columns, pc, seen, known>> => ProgramInv'
  BY DEF ProgramInv, Ready, Context
<1>9. ASSUME NEW p \in Programs, Add(p) PROVE TypeOK' /\ ProgramInv'
  <2>1. NewRow("queued", Recorded(p), Recorded(p)) \in Rows
    BY <1>9, RecordedType, NewRowType DEF Add, Statuses
  <2>2. rows' \in Seq(Rows)
    BY <1>9, <1>t, <2>1 DEF Add
  <2> QED
    BY <1>9, <1>t, <1>u, <1>q, <2>2 DEF Add, Alone
<1>10. ASSUME NEW p \in Programs, Deliver(p) PROVE TypeOK' /\ ProgramInv'
  <2>1. PICK r \in DOMAIN rows :
          rows' = [rows EXCEPT ![r].status = "done",
                               ![r].sent = @ \cup {<<p, Target(p, rows[r].bound)>>}]
    BY <1>10 DEF Deliver
  <2>2. Target(p, rows[r].bound) \in [backend : Backends, site : Sites]
    <3>1. pc[p] = "open" /\ rows[r].bound # Null
      BY <1>10 DEF Deliver, OpenBound, AllBound
    <3>2. rows[r].bound \in Bindings
      BY <1>t, <3>1, RowsType DEF Rows
    <3> QED
      BY <3>1, <3>2, RecordedType
  <2> DEFINE more == rows[r].sent \cup {<<p, Target(p, rows[r].bound)>>}
             new  == [rows[r] EXCEPT !.status = "done", !.sent = more]
  <2>3. more \in SUBSET (Programs \X [backend : Backends, site : Sites])
    BY <1>t, <2>2, RowsType DEF Rows
  <2>4. rows' = [rows EXCEPT ![r] = new]
    BY <2>1
  <2> HIDE DEF more
  <2>5. new \in Rows
    BY <1>t, <2>3, RowsType DEF Rows, Statuses
  <2> HIDE DEF new
  <2>6. rows' \in [DOMAIN rows -> Rows]
    BY <1>t, <2>4, <2>5, RowsType
  <2>7. rows' \in Seq(Rows)
    BY <1>t, <2>6, SameRows
  <2> QED
    BY <1>10, <1>t, <1>u, <1>q, <2>7 DEF Deliver, Alone
<1>11. ASSUME NEW p \in Programs, Crash(p) PROVE TypeOK' /\ ProgramInv'
  BY <1>11, <1>t, <1>u, FailType DEF Crash, Spend
<1>12. CASE Reconfigure
  BY <1>12, <1>t, <1>u, <1>q DEF Reconfigure, Spend
<1>13. CASE UNCHANGED vars
  BY <1>13, <1>t, <1>u, <1>q DEF vars
<1> QED
  BY <1>1, <1>2, <1>3, <1>4, <1>5, <1>6, <1>7, <1>8, <1>9, <1>10, <1>11, <1>12, <1>13 DEF Next, Opening

-----------------------------------------------------------------------------
(* Steps of the rows.                                                      *)

\* What a step does to the rows that are there, and what a new one is: the binding
\* stays, or a row without one takes the answer of the program that binds.
RowsFrame ==
  /\ \A r \in DOMAIN rows :
       /\ r \in DOMAIN rows'
       /\ rows'[r].home = rows[r].home
       /\ \/ rows'[r].bound = rows[r].bound
          \/ /\ rows[r].bound = Null
             /\ \E p \in Programs : pc[p] = "bind" /\ rows'[r].bound = BoundBy(p)
  /\ \A r \in DOMAIN rows' \ DOMAIN rows :
       rows'[r].bound \in Bindings /\ rows'[r].home = rows'[r].bound /\ rows'[r].sent = {}

LEMMA StepRows ==
  ASSUME TypeOK, ProgramInv, [Next]_vars
  PROVE  RowsFrame
<1>t. rows \in Seq(Rows)
  BY TypeShape
<1>0. rows' = rows => RowsFrame
  BY DEF RowsFrame
<1>1. ASSUME NEW p \in Programs, Bind(p) PROVE RowsFrame
  <2>1. DOMAIN rows' = DOMAIN rows /\ pc[p] = "bind"
    BY <1>1 DEF Bind
  <2>2. ASSUME NEW r \in DOMAIN rows
        PROVE  /\ rows'[r].home = rows[r].home
               /\ \/ rows'[r].bound = rows[r].bound
                  \/ rows[r].bound = Null /\ rows'[r].bound = BoundBy(p)
    <3>1. rows[r] \in Rows
      BY <1>t, RowsType
    <3> QED
      BY <1>1, <3>1 DEF Bind, Unbound, Rows
  <2> QED
    BY <2>1, <2>2 DEF RowsFrame
<1>2. ASSUME NEW p \in Programs, Recover(p) PROVE RowsFrame
  <2>1. DOMAIN rows' = DOMAIN rows
    BY <1>2 DEF Recover
  <2>2. ASSUME NEW r \in DOMAIN rows
        PROVE  rows'[r].home = rows[r].home /\ rows'[r].bound = rows[r].bound
    <3>1. rows[r] \in Rows
      BY <1>t, RowsType
    <3> QED
      BY <1>2, <3>1 DEF Recover, Interrupted, Rows
  <2> QED
    BY <2>1, <2>2 DEF RowsFrame
<1>3. ASSUME NEW p \in Programs, Add(p) PROVE RowsFrame
  <2> DEFINE new == NewRow("queued", Recorded(p), Recorded(p))
  <2>1. Recorded(p) \in Bindings
    BY <1>3, RecordedType DEF Add
  <2>2. new \in Rows /\ new.bound \in Bindings /\ new.home = new.bound /\ new.sent = {}
    BY <2>1, NewRowType DEF Statuses, NewRow
  <2>3. rows' = Append(rows, new)
    BY <1>3 DEF Add
  <2> HIDE DEF new
  <2>4. /\ DOMAIN rows' = 1..(Len(rows) + 1) /\ DOMAIN rows = 1..Len(rows) /\ Len(rows) \in Nat
        /\ \A r \in DOMAIN rows : rows'[r] = rows[r]
        /\ rows'[Len(rows) + 1] = new
    BY <1>t, <2>2, <2>3
  <2> QED
    BY <2>2, <2>4 DEF RowsFrame
<1>4. ASSUME NEW p \in Programs, Deliver(p) PROVE RowsFrame
  <2>1. PICK r \in DOMAIN rows :
          rows' = [rows EXCEPT ![r].status = "done",
                               ![r].sent = @ \cup {<<p, Target(p, rows[r].bound)>>}]
    BY <1>4 DEF Deliver
  <2>2. DOMAIN rows' = DOMAIN rows
    BY <2>1
  <2>3. ASSUME NEW q \in DOMAIN rows
        PROVE  rows'[q].home = rows[q].home /\ rows'[q].bound = rows[q].bound
    <3>1. rows[q] \in Rows
      BY <1>t, RowsType
    <3> QED
      BY <2>1, <3>1 DEF Rows
  <2> QED
    BY <2>2, <2>3 DEF RowsFrame
<1>5. ASSUME NEW p \in Programs,
             \/ Start(p) \/ Check(p) \/ Schema(p) \/ ReadColumns(p) \/ Alter(p) \/ CountUnbound(p) \/ Crash(p)
      PROVE  RowsFrame
  BY <1>0, <1>5 DEF Start, Check, Schema, ReadColumns, Alter, CountUnbound, Crash
<1>6. CASE Reconfigure \/ UNCHANGED vars
  BY <1>0, <1>6 DEF Reconfigure, vars
<1> QED
  BY <1>1, <1>2, <1>3, <1>4, <1>5, <1>6 DEF Next, Opening

\* What a program that binds writes is a binding, and no row that has one loses it.
LEMMA BoundStays ==
  ASSUME TypeOK, ProgramInv, [Next]_vars, AllBound
  PROVE  AllBound'
<1>1. RowsFrame
  BY StepRows
<1> SUFFICES ASSUME NEW r \in DOMAIN rows' PROVE rows'[r].bound # Null
  BY DEF AllBound
<1>2. CASE r \in DOMAIN rows
  BY <1>1, <1>2 DEF RowsFrame, AllBound
<1>3. CASE r \notin DOMAIN rows
  BY <1>1, <1>3, NotNull DEF RowsFrame
<1> QED
  BY <1>2, <1>3

LEMMA StepOpen ==
  ASSUME TypeOK, ProgramInv, OpenBound, [Next]_vars
  PROVE  OpenBound'
<1>t. pc \in [Programs -> Stages] /\ rows \in Seq(Rows)
  BY TypeShape
<1> SUFFICES ASSUME NEW p \in Programs, pc'[p] \in {"recover", "open"} PROVE AllBound'
  BY DEF OpenBound
<1>1. CASE pc[p] \in {"recover", "open"}
  BY <1>1, BoundStays DEF OpenBound
<1>2. CASE pc[p] \notin {"recover", "open"}
  <2>1. Bind(p) \/ (CountUnbound(p) /\ Verdict(p) = "recover")
    <3>1. ASSUME NEW q \in Programs, Start(q) \/ Crash(q) \/ Check(q) \/ Schema(q) \/ ReadColumns(q) \/ Alter(q)
          PROVE  FALSE
      BY <1>t, <1>2, <3>1 DEF Start, Crash, Check, Schema, ReadColumns, Alter, Goto, Fail
    <3>2. ASSUME NEW q \in Programs, Add(q) \/ Deliver(q)
          PROVE  FALSE
      BY <1>2, <3>2 DEF Add, Deliver
    <3>3. ASSUME NEW q \in Programs, Recover(q)
          PROVE  FALSE
      BY <1>t, <1>2, <3>3 DEF Recover, Goto
    <3>4. ASSUME NEW q \in Programs, Bind(q)
          PROVE  q = p
      BY <1>t, <1>2, <3>4 DEF Bind, Goto
    <3>5. ASSUME NEW q \in Programs, CountUnbound(q)
          PROVE  q = p /\ Verdict(q) = "recover"
      BY <1>t, <1>2, <3>5 DEF CountUnbound, Goto, Fail, Verdict
    <3>6. CASE Reconfigure \/ UNCHANGED vars
      BY <1>2, <3>6 DEF Reconfigure, vars
    <3> QED
      BY <3>1, <3>2, <3>3, <3>4, <3>5, <3>6 DEF Next, Opening
  <2>2. CASE CountUnbound(p) /\ Verdict(p) = "recover"
    <3>1. Unbound = {} /\ rows' = rows
      BY <2>2 DEF CountUnbound, Verdict
    <3> QED
      BY <3>1 DEF Unbound, AllBound
  <2>3. CASE Bind(p)
    <3>1. BoundBy(p) # Null
      <4>1. Context(p) \in Legacy
        BY <2>3 DEF Bind, ProgramInv, Ready
      <4> QED
        BY <4>1 DEF BoundBy, Null, Legacy
    <3>2. ASSUME NEW r \in DOMAIN rows PROVE rows'[r].bound # Null
      <4>1. rows[r] \in Rows
        BY <1>t, RowsType
      <4> QED
        BY <2>3, <3>1, <4>1 DEF Bind, Unbound, Rows
    <3> QED
      BY <2>3, <3>2 DEF Bind, AllBound
  <2> QED
    BY <2>1, <2>2, <2>3
<1> QED
  BY <1>1, <1>2

LEMMA InitBound == Init => TypeOK /\ ProgramInv /\ OpenBound
<1> SUFFICES ASSUME Init PROVE TypeOK /\ ProgramInv /\ OpenBound
  OBVIOUS
<1>1. \A p \in Programs : pc[p] = "down"
  BY DEF Init
<1>2. ProgramInv /\ OpenBound
  BY <1>1 DEF ProgramInv, Ready, OpenBound
<1>3. rows \in Seq(Rows)
  <2>1. CASE rows = <<>>
    BY <2>1
  <2>2. CASE \E old \in Old :
               rows = [r \in DOMAIN old |-> NewRow(old[r], Null, [backend |-> Owner, site |-> Here])]
    <3>1. PICK old \in Old :
            rows = [r \in DOMAIN old |-> NewRow(old[r], Null, [backend |-> Owner, site |-> Here])]
      BY <2>2
    <3>2. old \in Seq(Statuses) /\ Len(old) \in Nat /\ DOMAIN old = 1..Len(old)
      BY BindingAssumption DEF Statuses
    <3>3. [backend |-> Owner, site |-> Here] \in Bindings
      BY BindingAssumption DEF Bindings, Legacy, Backends
    <3>4. \A r \in DOMAIN old : NewRow(old[r], Null, [backend |-> Owner, site |-> Here]) \in Rows
      <4>1. \A r \in DOMAIN old : old[r] \in Statuses
        BY <3>2
      <4> QED
        BY <3>3, <4>1, NewRowType
    <3>5. rows \in [1..Len(old) -> Rows]
      BY <3>1, <3>2, <3>4
    <3> QED
      BY <3>2, <3>5
  <2> QED
    BY <2>1, <2>2 DEF Init
<1>4. columns \in Columns /\ {} \in Columns /\ "down" \in Stages
  BY DEF Init, Columns, Stages
<1> QED
  BY <1>2, <1>3, <1>4, TypeShape DEF Init

LEMMA BoundInductive ==
  TypeOK /\ ProgramInv /\ OpenBound /\ [Next]_vars => TypeOK' /\ ProgramInv' /\ OpenBound'
BY StepType, StepOpen

\* No statement of _init_db, in any order of the programs and wherever one is killed,
\* takes a column, a row or a program's memory out of its type.
THEOREM TypeCorrect == Spec => []TypeOK
BY InitBound, BoundInductive, PTL DEF Spec

\* Whatever the programs, a row without a binding is never worked on: between a
\* program's count of unbound rows and its first delivery none can appear, although
\* no transaction covers the two (_init_db, queue.py:136-139).
THEOREM NeverWorkedUnbound == Spec => []NeverUnbound
<1>1. OpenBound => NeverUnbound
  BY DEF OpenBound, NeverUnbound
<1> QED
  BY <1>1, InitBound, BoundInductive, PTL DEF Spec

\* No start, migration or configuration changes a binding (UPDATE ... WHERE backend IS
\* NULL OR destination_json IS NULL, queue.py:161).
THEOREM BindingIsForGood == Spec => BindingKept
<1>1. TypeOK /\ ProgramInv /\ [Next]_vars
        => [\A r \in DOMAIN rows : rows[r].bound # Null => rows'[r].bound = rows[r].bound]_vars
  BY StepRows DEF RowsFrame
<1> QED
  BY <1>1, InitBound, BoundInductive, PTL DEF Spec, BindingKept

-----------------------------------------------------------------------------
(* Where the bags go.                                                      *)

\* The operator may leave the earlier release's backend, but names no other as the
\* owner of the old rows, in backend.type or in storage.legacy_backend.
TrueOwner ==
  \A c \in Configs : /\ c.backend \in Legacy => c.backend = Owner
                     /\ c.legacy \in {Owner, None}

Home == [backend |-> Owner, site |-> Here]

\* A row without a binding is one of the earlier release.
MeantInv ==
  /\ \A r \in DOMAIN rows : IF rows[r].bound = Null THEN rows[r].home = Home
                                                    ELSE Meant(rows[r].home, rows[r].bound)
  /\ DeliveredAsMeant

LEMMA StepMeant ==
  ASSUME TypeOK, ProgramInv, OpenBound, MeantInv, TrueOwner, [Next]_vars
  PROVE  MeantInv'
<1>f. RowsFrame
  BY StepRows
<1>t. rows \in Seq(Rows)
  BY TypeShape
<1>1. ASSUME NEW r \in DOMAIN rows'
      PROVE  IF rows'[r].bound = Null THEN rows'[r].home = Home
                                      ELSE Meant(rows'[r].home, rows'[r].bound)
  <2>1. CASE r \notin DOMAIN rows
    BY <1>f, <2>1, <1>1, NotNull DEF RowsFrame, Meant
  <2>2. CASE r \in DOMAIN rows /\ rows'[r].bound = rows[r].bound
    BY <1>f, <2>2 DEF RowsFrame, MeantInv
  <2>3. CASE /\ r \in DOMAIN rows /\ rows[r].bound = Null
             /\ \E p \in Programs : pc[p] = "bind" /\ rows'[r].bound = BoundBy(p)
    <3>1. PICK p \in Programs : pc[p] = "bind" /\ rows'[r].bound = BoundBy(p)
      BY <2>3
    <3>2. seen[p] \in Configs /\ Context(p) \in Legacy
      BY <3>1 DEF ProgramInv, Ready
    <3>3. Context(p) = Owner
      BY <3>2, BindingAssumption DEF Context, TrueOwner, Legacy, None
    <3>4. rows'[r].home = Home
      BY <1>f, <2>3 DEF RowsFrame, MeantInv
    <3> QED
      BY <3>1, <3>3, <3>4, BindingAssumption DEF BoundBy, Meant, Home, Null, Legacy
  <2> QED
    BY <1>f, <2>1, <2>2, <2>3 DEF RowsFrame
<1>2. ASSUME NEW r \in DOMAIN rows', NEW s \in rows'[r].sent, s[1] = "service"
      PROVE  Meant(rows'[r].home, s[2])
  <2>1. CASE r \notin DOMAIN rows
    BY <1>f, <1>2, <2>1 DEF RowsFrame
  <2>2. CASE r \in DOMAIN rows /\ rows'[r].sent = rows[r].sent
    BY <1>f, <1>2, <2>2 DEF RowsFrame, MeantInv, DeliveredAsMeant
  <2>3. CASE \E p \in Programs : Deliver(p) /\ r \in DOMAIN rows
    <3>1. PICK p \in Programs, q \in DOMAIN rows :
            /\ pc[p] = "open"
            /\ rows' = [rows EXCEPT ![q].status = "done",
                                  ![q].sent = @ \cup {<<p, Target(p, rows[q].bound)>>}]
      BY <2>3 DEF Deliver
    <3>2. rows[q] \in Rows /\ rows[r] \in Rows /\ rows[q].bound # Null
      BY <1>t, <2>3, <3>1, RowsType DEF OpenBound, AllBound
    <3>3. \/ s \in rows[r].sent
          \/ r = q /\ s = <<p, Target(p, rows[q].bound)>>
      BY <1>2, <2>3, <3>1, <3>2 DEF Rows
    <3>4. CASE s \in rows[r].sent
      BY <1>f, <1>2, <2>3, <3>4 DEF RowsFrame, MeantInv, DeliveredAsMeant
    <3>5. CASE r = q /\ s = <<p, Target(p, rows[q].bound)>>
      <4>1. p = "service" /\ s[2] = Registered(p, rows[q].bound)
        BY <1>2, <3>5 DEF Target
      <4>2. Meant(rows[q].home, rows[q].bound)
        BY <3>2 DEF MeantInv
      <4>3. rows'[r].home = rows[q].home
        BY <1>f, <3>5 DEF RowsFrame
      <4> QED
        BY <4>1, <4>2, <4>3 DEF Meant, Registered
    <3> QED
      BY <3>3, <3>4, <3>5
  <2>4. \/ \E p \in Programs : Deliver(p)
        \/ \A q \in DOMAIN rows : rows'[q].sent = rows[q].sent
    <3>1. ASSUME NEW p \in Programs, Bind(p) \/ Recover(p), NEW q \in DOMAIN rows
          PROVE  rows'[q].sent = rows[q].sent
      <4>1. rows[q] \in Rows
        BY <1>t, RowsType
      <4> QED
        BY <3>1, <4>1 DEF Bind, Recover, Interrupted, Rows
    <3>2. ASSUME NEW p \in Programs, Add(p), NEW q \in DOMAIN rows
          PROVE  rows'[q].sent = rows[q].sent
      <4>1. DOMAIN rows = 1..Len(rows) /\ Len(rows) \in Nat
        BY <1>t, RowsType
      <4> QED
        BY <1>t, <3>2, <4>1 DEF Add
    <3>3. ASSUME NEW p \in Programs,
                 \/ Start(p) \/ Check(p) \/ Schema(p) \/ ReadColumns(p) \/ Alter(p) \/ CountUnbound(p) \/ Crash(p)
          PROVE  rows' = rows
      BY <3>3 DEF Start, Check, Schema, ReadColumns, Alter, CountUnbound, Crash
    <3>4. CASE Reconfigure \/ UNCHANGED vars
      BY <3>4 DEF Reconfigure, vars
    <3> QED
      BY <3>1, <3>2, <3>3, <3>4 DEF Next, Opening
  <2> QED
    BY <2>1, <2>2, <2>3, <2>4
<1> QED
  BY <1>1, <1>2 DEF MeantInv, DeliveredAsMeant

LEMMA InitMeant == Init => MeantInv
<1> SUFFICES ASSUME Init, NEW r \in DOMAIN rows
             PROVE  rows[r].bound = Null /\ rows[r].home = Home /\ rows[r].sent = {}
  BY DEF MeantInv, DeliveredAsMeant
<1>1. PICK old \in Old :
        rows = [q \in DOMAIN old |-> NewRow(old[q], Null, [backend |-> Owner, site |-> Here])]
  BY DEF Init
<1> QED
  BY <1>1 DEF NewRow, Home

LEMMA MeantInductive ==
  ASSUME TrueOwner
  PROVE  TypeOK /\ ProgramInv /\ OpenBound /\ MeantInv /\ [Next]_vars => MeantInv'
BY StepMeant

\* An operator who names no wrong owner gets every old row bound to the backend it was
\* recorded for, and every new one to what was configured then (_migrate, queue.py:145;
\* CollectorService._on_new_bag, service.py:33).
THEOREM BoundRight == ASSUME TrueOwner PROVE Spec => []BoundAsMeant
<1>1. MeantInv => BoundAsMeant
  BY DEF MeantInv, BoundAsMeant
<1> QED
  BY <1>1, InitBound, BoundInductive, InitMeant, MeantInductive, PTL DEF Spec

\* Under the same assumption the service sends every bag where it was meant to go,
\* whatever the configuration has become since (BackendRegistry.get, factory.py:13).
THEOREM DeliveredRight == ASSUME TrueOwner PROVE Spec => []DeliveredAsMeant
<1>1. MeantInv => DeliveredAsMeant
  BY DEF MeantInv
<1> QED
  BY <1>1, InitBound, BoundInductive, InitMeant, MeantInductive, PTL DEF Spec

=============================================================================
