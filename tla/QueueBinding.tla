---------------------------- MODULE QueueBinding ----------------------------
(***************************************************************************)
(* How the rows of the queue come to be bound to a destination and where   *)
(* they are sent: the migration of a database that an earlier release left *)
(* behind (_init_db and _migrate of freefox/queue.py), the binding of new  *)
(* rows (service.py, scripts/watch_gdrive.py) and the choice of a backend  *)
(* (backends/factory.py), while several programs open one database and the *)
(* configuration changes from one start to the next.                       *)
(*                                                                         *)
(* executescript() commits the transaction that _init_db has begun, so     *)
(* that every statement after it stands alone: a program can be killed, or *)
(* overtaken by another one, between any two of them.                      *)
(***************************************************************************)
EXTENDS Naturals, Sequences

CONSTANTS
  Old,        \* queues the earlier release may leave: the status of each row
  Owner,      \* the backend of the earlier release, which had one: gdrive or rsync
  Configs,    \* the configurations: [backend, legacy, site]
  Sites,      \* target folders, rsync destinations, buckets
  MaxRows,    \* how many bags are ever recorded
  Limit       \* how many crashes and reconfigurations a run has

Backends == {"gdrive", "rsync", "s3"}
Legacy   == {"gdrive", "rsync"}
None     == "none"      \* storage.legacy_backend is not set

ASSUME BindingAssumption ==
  /\ Old \subseteq Seq({"queued", "uploading", "done"})
  /\ Owner \in Legacy
  /\ Configs \subseteq [backend : Backends, legacy : Legacy \cup {None}, site : Sites]
  /\ Configs # {}
  /\ MaxRows \in Nat
  /\ Limit \in [{"crash", "change"} -> Nat]

VARIABLES
  columns,    \* of the queue table that bind a row; Absent without a table
  rows,       \* of the queue
  config,     \* the configuration file
  pc, seen, known,   \* of each program: next statement, configuration, columns it read
  spent       \* history: crashes and reconfigurations so far

vars == <<columns, rows, config, pc, seen, known, spent>>

Programs == {"service", "dashboard", "script"}
Binding  == <<"backend", "destination">>      \* in the order of "additions"
Absent   == {"no table"}
All      == {"backend", "destination"}

Null == [backend |-> "null", site |-> "null"]
Unread == [backend |-> None, legacy |-> None, site |-> None]   \* no configuration
Here == "{}"       \* an empty destination_json: whatever the configuration says

\* Where a bag may be bound, and where it was meant to go when it was recorded.
Bindings == [backend : Backends, site : Sites \cup {Here}]

TypeOK ==
  /\ columns \in {Absent} \cup SUBSET All
  /\ rows \in Seq([status : {"queued", "uploading", "done"}, bound : Bindings \cup {Null},
                   home : Bindings, sent : SUBSET (Programs \X [backend : Backends, site : Sites])])
  /\ config \in Configs
  /\ pc \in [Programs -> {"down", "check", "schema", "columns", "alter", "bind", "recover", "open"}]
  /\ seen \in [Programs -> Configs \cup {Unread}]
  /\ known \in [Programs -> {Absent} \cup SUBSET All]
  /\ spent \in [{"crash", "change"} -> Nat]

NewRow(status, bound, home) == [status |-> status, bound |-> bound, home |-> home, sent |-> {}]

\* A fresh robot, or a queue of the earlier release.
Init ==
  /\ \/ columns = Absent /\ rows = <<>>
     \/ /\ columns = {}
        /\ \E old \in Old :
             rows = [r \in DOMAIN old |->
                       NewRow(old[r], Null, [backend |-> Owner, site |-> Here])]
  /\ config \in Configs
  /\ pc = [p \in Programs |-> "down"]
  /\ seen = [p \in Programs |-> Unread]
  /\ known = [p \in Programs |-> {}]
  /\ spent = [k \in {"crash", "change"} |-> 0]

\* Mutant of Unbound: a destination of "{}" counts as none.
UnboundOrEmpty == {r \in DOMAIN rows : rows[r].bound = Null \/ rows[r].bound.site = Here}
Unbound        == {r \in DOMAIN rows : rows[r].bound = Null}

-----------------------------------------------------------------------------
(* Opening the database: one action per statement.                         *)

Goto(p, stage) == pc' = [pc EXCEPT ![p] = stage] /\ UNCHANGED seen
Alone          == UNCHANGED <<config, spent>>

\* The program ends, and its memory with it.
Fail(p) ==
  /\ pc' = [pc EXCEPT ![p] = "down"]
  /\ seen' = [seen EXCEPT ![p] = Unread]
  /\ known' = [known EXCEPT ![p] = {}]

\* Mutant of Context: without an answer, the old rows are taken to be Drive's, as a row
\* of no backend is by _row_to_entry().
ContextOrDrive(p) ==
  IF p # "service" THEN None
  ELSE IF seen[p].backend \in Legacy THEN seen[p].backend
  ELSE IF seen[p].legacy # None THEN seen[p].legacy ELSE "gdrive"

\* The legacy_backend argument: only the service gives one, and the backend in use
\* comes before storage.legacy_backend.
Context(p) ==
  IF p # "service" THEN None
  ELSE IF seen[p].backend \in Legacy THEN seen[p].backend ELSE seen[p].legacy

Start(p) ==
  /\ pc[p] = "down"
  /\ seen' = [seen EXCEPT ![p] = config]
  /\ pc' = [pc EXCEPT ![p] = "check"]
  /\ UNCHANGED <<columns, rows, known>> /\ Alone

\* The look before the transaction, three reads in one: old rows and nobody to own
\* them.
Check(p) ==
  /\ pc[p] = "check"
  /\ IF columns # Absent /\ columns # All /\ rows # <<>> /\ Context(p) = None
     THEN Fail(p) ELSE Goto(p, "schema") /\ UNCHANGED known
  /\ UNCHANGED <<columns, rows>> /\ Alone

\* BEGIN IMMEDIATE, committed at once, and CREATE ... IF NOT EXISTS.
Schema(p) ==
  /\ pc[p] = "schema"
  /\ columns' = IF columns = Absent THEN All ELSE columns
  /\ Goto(p, "columns")
  /\ UNCHANGED <<rows, known>> /\ Alone

\* Mutant of ReadColumns: the table is taken for one of the earlier release.
AssumeColumns(p) ==
  /\ pc[p] = "columns"
  /\ known' = [known EXCEPT ![p] = {}]
  /\ Goto(p, "alter")
  /\ UNCHANGED <<columns, rows>> /\ Alone
ReadColumns(p) ==
  /\ pc[p] = "columns"
  /\ known' = [known EXCEPT ![p] = columns]
  /\ Goto(p, "alter")
  /\ UNCHANGED <<columns, rows>> /\ Alone

\* ALTER TABLE for the first column that was missing; if another program has added it
\* since, "duplicate column name" ends this one.
Alter(p) ==
  /\ pc[p] = "alter" /\ known[p] # All
  /\ LET name == IF Binding[1] \notin known[p] THEN Binding[1] ELSE Binding[2]
     IN  IF name \in columns
         THEN Fail(p) /\ UNCHANGED columns
         ELSE /\ columns' = columns \cup {name}
              /\ known' = [known EXCEPT ![p] = @ \cup {name}]
              /\ UNCHANGED <<pc, seen>>
  /\ UNCHANGED rows /\ Alone

\* Mutant of Verdict: rows without an owner are left as they are.
LeftUnbound(p) ==
  IF Unbound = {} \/ Context(p) \notin Legacy THEN "recover" ELSE "bind"
\* SELECT COUNT(*) ... IS NULL, and the error that stops an ambiguous upgrade.
Verdict(p) ==
  IF Unbound = {} THEN "recover" ELSE IF Context(p) \in Legacy THEN "bind" ELSE "down"

CountUnbound(p) ==
  /\ pc[p] = "alter" /\ known[p] = All
  /\ IF Verdict(p) = "down" THEN Fail(p)
     ELSE Goto(p, Verdict(p)) /\ known' = [known EXCEPT ![p] = {}]
  /\ UNCHANGED <<columns, rows>> /\ Alone

\* Mutant of BoundBy: the row takes storage.legacy_backend even where it is not set.
BoundBySetting(p) == [backend |-> seen[p].legacy, site |-> seen[p].site]
BoundBy(p)        == [backend |-> Context(p), site |-> seen[p].site]

\* UPDATE ... WHERE backend IS NULL OR destination_json IS NULL.
Bind(p) ==
  /\ pc[p] = "bind"
  /\ rows' = [r \in DOMAIN rows |->
                IF r \in Unbound THEN [rows[r] EXCEPT !.bound = BoundBy(p)] ELSE rows[r]]
  /\ Goto(p, "recover")
  /\ UNCHANGED <<columns, known>> /\ Alone

\* Mutant of Interrupted: uploads that were cut off are left alone.
NotInterrupted(row) == row
Interrupted(row)    == [row EXCEPT !.status = IF @ = "uploading" THEN "queued" ELSE @]

Recover(p) ==
  /\ pc[p] = "recover"
  /\ rows' = [r \in DOMAIN rows |-> Interrupted(rows[r])]
  /\ Goto(p, "open")
  /\ UNCHANGED <<columns, known>> /\ Alone

Opening(p) ==
  \/ Check(p) \/ Schema(p) \/ ReadColumns(p) \/ Alter(p) \/ CountUnbound(p) \/ Bind(p) \/ Recover(p)

-----------------------------------------------------------------------------
(* Working with the open database.                                         *)

Snapshot(p) == [backend |-> seen[p].backend, site |-> seen[p].site]

\* _on_new_bag() stores the snapshot; the script stores neither, and add() its defaults.
Recorded(p) == IF p = "service" THEN Snapshot(p) ELSE [backend |-> "gdrive", site |-> Here]

Add(p) ==
  /\ p # "dashboard" /\ pc[p] = "open"
  /\ Len(rows) < MaxRows
  /\ rows' = Append(rows, NewRow("queued", Recorded(p), Recorded(p)))
  /\ UNCHANGED <<columns, pc, seen, known>> /\ Alone

\* Mutant of Registered: the configuration decides, not the row.
Configured(p, bound) == [backend |-> seen[p].backend, site |-> seen[p].site]

\* BackendRegistry.get(): what the snapshot lacks comes from the configuration.
Registered(p, bound) ==
  [backend |-> bound.backend, site |-> IF bound.site = Here THEN seen[p].site ELSE bound.site]

\* _backend_for(): the script's pool has no registry, only its own Drive folder.
OwnFolder(p) == [backend |-> "gdrive", site |-> seen[p].site]
Target(p, bound) == IF p = "service" THEN Registered(p, bound) ELSE OwnFolder(p)

\* next_ready() ... mark_done(), as far as the choice of a backend goes.
Deliver(p) ==
  /\ p # "dashboard" /\ pc[p] = "open"
  /\ \E r \in DOMAIN rows :
       /\ rows[r].status = "queued"
       /\ \A q \in 1..(r - 1) : rows[q].status # "queued"
       /\ rows' = [rows EXCEPT ![r].status = "done",
                              ![r].sent = @ \cup {<<p, Target(p, rows[r].bound)>>}]
  /\ UNCHANGED <<columns, pc, seen, known>> /\ Alone

-----------------------------------------------------------------------------
(* The operator.                                                           *)

Spend(kind) == spent[kind] < Limit[kind] /\ spent' = [spent EXCEPT ![kind] = @ + 1]

Crash(p) ==
  /\ pc[p] # "down"
  /\ Spend("crash")
  /\ Fail(p)
  /\ UNCHANGED <<columns, rows, config>>

\* Programs at work keep the configuration they have read.
Reconfigure ==
  /\ Spend("change")
  /\ config' \in Configs \ {config}
  /\ UNCHANGED <<columns, rows, pc, seen, known>>

Next ==
  \/ \E p \in Programs : Start(p) \/ Opening(p) \/ Add(p) \/ Deliver(p) \/ Crash(p)
  \/ Reconfigure

Spec == Init /\ [][Next]_vars

\* systemd starts the service again and again (Restart=always); a program that runs
\* goes on.  Nobody needs to start the dashboard or the script.
FairSpec ==
  /\ Spec
  /\ WF_vars(Start("service"))
  /\ \A p \in Programs : WF_vars(Opening(p))
  /\ WF_vars(Deliver("service"))

-----------------------------------------------------------------------------
(* Properties.                                                             *)

AllBound == \A r \in DOMAIN rows : rows[r].bound # Null

\* No program goes to work on rows without a binding, however many were killed or
\* reconfigured in the middle of the migration: with nobody to own the old rows the
\* opening fails.  FR-017.
NeverUnbound == (\E p \in Programs : pc[p] = "open") => AllBound

\* "to" is the backend that was meant, and the site, if one was recorded.
Meant(home, to) == to.backend = home.backend /\ (home.site # Here => to.site = home.site)

\* Old rows are bound to the backend of the earlier release, never to S3, new ones to
\* what was configured when the bag was recorded.
BoundAsMeant ==
  \A r \in DOMAIN rows : rows[r].bound # Null => Meant(rows[r].home, rows[r].bound)

\* Whatever the configuration has become, the service sends a bag where it was meant to
\* go.  The script sends every bag to its own Drive folder (see Target).
DeliveredAsMeant ==
  \A r \in DOMAIN rows : \A s \in rows[r].sent :
    s[1] = "service" => Meant(rows[r].home, s[2])

\* A binding is for good: no later start, migration or configuration changes it.
BindingKept ==
  [][\A r \in DOMAIN rows : rows[r].bound # Null => rows'[r].bound = rows[r].bound]_vars

\* Crashes and lost races for a column included, the service opens the database and
\* all bags get through, also those the upgrade cut off, unless nobody says whose the
\* old rows are.
Ambiguous == ~AllBound /\ config.backend = "s3" /\ config.legacy = None
EventuallyServed ==
  \/ <>[](pc["service"] = "open" /\ \A r \in DOMAIN rows : rows[r].status = "done")
  \/ <>[]Ambiguous

=============================================================================
