--------------------------- MODULE ScratchpadSessions ---------------------------
(***************************************************************************)
(* The DuckDB scratchpad of src/scratchpad.rs: the session table guarded   *)
(* by one mutex, the database files it names, and the request threads that *)
(* run the scratchpad_* tools against both.                                *)
(*                                                                         *)
(* One action is one step no other thread can split: a locked region of    *)
(* ScratchpadSessionManager (lock, prune_expired_locked, effect, unlock),  *)
(* one fs::remove_file, one opening of a database, one statement or        *)
(* transaction of the engine.  Between two of them any other thread runs:  *)
(* the tool handlers are spawned concurrently on a multi-threaded runtime. *)
(*                                                                         *)
(* A session id stands for its database path as well: session_db_path is   *)
(* a function of the id (and of the process id) alone.                     *)
(***************************************************************************)
EXTENDS Integers, FiniteSets, Functions

CONSTANTS
  Sessions,     \* normalized session ids
  Tables,       \* normalized table names
  Clients,      \* request threads
  None,         \* "no session", "no table"
  Ops,          \* the operations the clients of this instance call
  BatchSizes,   \* row counts of the ingested batches
  LimitValues,  \* values scratchpad_set_runtime_limits may be given
  MaxRows,      \* config.max_rows_per_session, fixed at start
  InitSessions, \* config.max_sessions, the runtime limit's first value
  InitTables,   \* config.max_tables_per_session, likewise
  TTL,          \* config.session_ttl, in ticks
  DiskRows,     \* bound: rows the engine can store in one table
  ClockRuns,    \* bound: FALSE checks what happens within one TTL
  Restarts      \* bound: FALSE checks one life of the process

AllOps == {"open", "close", "sessions", "list", "create", "append", "drop", "query",
           "limits", "set_limits", "note_created", "note_rows", "count"}

ASSUME ConfigAssumption ==
  /\ IsFiniteSet(Sessions)
  /\ None \notin Sessions /\ None \notin Tables
  /\ Ops \subseteq AllOps
  /\ BatchSizes \subseteq Nat
  /\ LimitValues \subseteq Nat
  /\ MaxRows \in Nat \ {0} /\ InitSessions \in Nat \ {0} /\ InitTables \in Nat \ {0}
  /\ TTL \in Nat \ {0}
  /\ DiskRows \in Nat
  /\ ClockRuns \in BOOLEAN /\ Restarts \in BOOLEAN

VARIABLES
  live,         \* ids with an entry in SessionState.sessions
  tablesUsed,   \* SessionEntry.tables_used  (0 where there is no entry)
  rowsUsed,     \* SessionEntry.rows_used
  age,          \* ticks since SessionEntry.last_touched, at most TTL
  maxSessions,  \* runtime_max_sessions
  maxTables,    \* runtime_max_tables_per_session
  disk,         \* the database at each id's path: its tables and their row counts
  unremoved,    \* ids whose file a failed remove_file has left on the disk
  pc,           \* where each client's request stands
  req,          \* the request it runs
  removals,     \* paths its last locked region told it to remove
  conn          \* the connection it holds

ledger == <<live, tablesUsed, rowsUsed, age>>
limits == <<maxSessions, maxTables>>
thread == <<pc, req, conn>>
vars == <<ledger, limits, disk, unremoved, thread, removals>>

-----------------------------------------------------------------------------
(* Databases.  A file that is absent and a file without tables are the same  *)
(* value: opening a connection creates the file.                             *)

Databases == UNION {[T -> 0..DiskRows] : T \in SUBSET Tables}
EmptyDb == [t \in {} |-> 0]
WithTable(db, t, n) == [x \in DOMAIN db \cup {t} |-> IF x = t THEN n ELSE db[x]]
WithoutTable(db, t) == Restrict(db, DOMAIN db \ {t})

(* A connection to a file that was removed meanwhile keeps working on the    *)
(* unlinked file, with the content it had then ("orphan").                   *)
NoConnection == [kind |-> "none", db |-> EmptyDb]
Linked == [kind |-> "linked", db |-> EmptyDb]
Db(c) == IF conn[c].kind = "orphan" THEN conn[c].db ELSE disk[req[c].session]

Steps == {"idle", "connect", "info", "read", "write", "refund", "inspect", "dropping",
          "note", "snapshot", "set_tables", "count", "sample", "probe"}

(* "rows" is the size of an ingested batch, the row count a drop has read,   *)
(* or the number a limit or a sample is set to.                              *)
Request == [op : AllOps \cup {"none"}, session : Sessions \cup {None},
            table : Tables \cup {None}, rows : Nat, if_exists : BOOLEAN,
            sample : SUBSET Sessions]
NoRequest == [op |-> "none", session |-> None, table |-> None, rows |-> 0,
              if_exists |-> FALSE, sample |-> {}]

Init ==
  /\ live = {}
  /\ tablesUsed = [s \in Sessions |-> 0]
  /\ rowsUsed = [s \in Sessions |-> 0]
  /\ age = [s \in Sessions |-> 0]
  /\ maxSessions = InitSessions
  /\ maxTables = InitTables
  /\ disk = [s \in Sessions |-> EmptyDb]
  /\ unremoved = {}
  /\ pc = [c \in Clients |-> "idle"]
  /\ req = [c \in Clients |-> NoRequest]
  /\ removals = [c \in Clients |-> {}]
  /\ conn = [c \in Clients |-> NoConnection]

-----------------------------------------------------------------------------
(* The pieces every locked region is made of.                                *)

(* Bug: expiry a tick early.                                                 *)
ExpiredEarly == {s \in live : age[s] + 1 >= TTL}
Expired == {s \in live : age[s] >= TTL}
Kept == live \ Expired
KeptTables == [s \in Sessions |-> IF s \in Kept THEN tablesUsed[s] ELSE 0]
(* Bug: the usage of an expired entry outlives it.                           *)
KeptRowsStale == rowsUsed
KeptRows == [s \in Sessions |-> IF s \in Kept THEN rowsUsed[s] ELSE 0]
SaturatingSub(m, n) == IF m > n THEN m - n ELSE 0

(* Bug: one session too many.                                                *)
HasSlotOffByOne(s) == s \in Kept \/ Cardinality(Kept) <= maxSessions
(* session_entry_mut finds the entry or has a slot to create one.            *)
HasSlot(s) == s \in Kept \/ Cardinality(Kept) < maxSessions

(* A locked region leaves these entries, of which "touched" get a new        *)
(* last_touched; once unlocked, its client has the files "removed" to delete.*)
Region(c, entries, tabs, rows, touched, removed) ==
  /\ live' = entries
  /\ tablesUsed' = tabs
  /\ rowsUsed' = rows
  /\ age' = [s \in Sessions |-> IF s \in entries \ touched THEN age[s] ELSE 0]
  /\ removals' = [removals EXCEPT ![c] = removed]

(* The region that only prunes, and then drops the lock and cleans up.       *)
PruneOnly(c, touched) == Region(c, Kept, KeptTables, KeptRows, touched, Expired)

(* The region that is left by `?`: what was pruned is never handed to        *)
(* cleanup_paths.                                                            *)
PruneAndForget(c) == Region(c, Kept, KeptTables, KeptRows, {}, {})

(* The next step of a request begins when the files it was told to remove    *)
(* are gone: cleanup_paths runs to its end before the region's caller goes on.*)
At(c, step) == pc[c] = step /\ removals[c] = {}
Goto(c, step, r) == pc' = [pc EXCEPT ![c] = step] /\ req' = [req EXCEPT ![c] = r]
Return(c) == Goto(c, "idle", NoRequest)
Calls(c, op) == At(c, "idle") /\ op \in Ops
Asks(op, s) == [NoRequest EXCEPT !.op = op, !.session = s]
AsksTable(op, s, t) == [Asks(op, s) EXCEPT !.table = t]

-----------------------------------------------------------------------------
(* Sessions: open, close, expire.                                            *)

(* open_connection: what open_session and run_guarded begin with.            *)
EnsureSession(c, op, s) ==
  /\ Calls(c, op)
  /\ \/ /\ HasSlot(s)
        /\ Region(c, Kept \cup {s}, KeptTables, KeptRows, {s}, Expired)
        /\ Goto(c, "connect", Asks(op, s))
     \/ /\ ~HasSlot(s)
        /\ PruneAndForget(c)
        /\ UNCHANGED <<pc, req>>
  /\ UNCHANGED <<limits, disk, unremoved, conn>>

(* open_session's second locked region.                                      *)
SessionInfo(c) ==
  /\ At(c, "info")
  /\ PruneOnly(c, {req[c].session})
  /\ Return(c)
  /\ UNCHANGED <<limits, disk, unremoved, conn>>

(* Bug: the closed session's own path is not handed to cleanup_paths.        *)
ReleaseSessionKeepingFile(c, s) ==
  /\ Calls(c, "close")
  /\ Region(c, Kept \ {s}, [KeptTables EXCEPT ![s] = 0], [KeptRows EXCEPT ![s] = 0], {},
            Expired)
  /\ UNCHANGED <<limits, disk, unremoved, thread>>
ReleaseSession(c, s) ==
  /\ Calls(c, "close")
  /\ Region(c, Kept \ {s}, [KeptTables EXCEPT ![s] = 0], [KeptRows EXCEPT ![s] = 0], {},
            Expired \cup (Kept \cap {s}))
  /\ UNCHANGED <<limits, disk, unremoved, thread>>

ListSessions(c) ==
  /\ Calls(c, "sessions")
  /\ PruneOnly(c, Kept)
  /\ UNCHANGED <<limits, disk, unremoved, thread>>

(* cleanup_expired, and active_session_count called on its own.              *)
CleanupExpired(c) ==
  /\ Calls(c, "count")
  /\ PruneOnly(c, {})
  /\ UNCHANGED <<limits, disk, unremoved, thread>>

(* One fs::remove_file of cleanup_paths, after the lock was released.  A     *)
(* failure is only logged: the entry is gone and the file stays, to be found *)
(* by whoever opens the id again.  The warning names it: "unremoved".        *)
CleanupPath(c) ==
  \E s \in removals[c] :
    /\ removals' = [removals EXCEPT ![c] = @ \ {s}]
    /\ \/ /\ disk' = [disk EXCEPT ![s] = EmptyDb]
          /\ unremoved' = unremoved \ {s}
          /\ conn' = [d \in Clients |->
                        IF conn[d].kind = "linked" /\ req[d].session = s
                        THEN [kind |-> "orphan", db |-> disk[s]] ELSE conn[d]]
       \/ /\ unremoved' = unremoved \cup {s}
          /\ UNCHANGED <<disk, conn>>
    /\ UNCHANGED <<ledger, limits, pc, req>>

-----------------------------------------------------------------------------
(* Connections and reads.                                                    *)

AfterConnect ==
  [open |-> "info", query |-> "read", list |-> "read", limits |-> "read",
   create |-> "write", append |-> "write", drop |-> "inspect"]

(* get_runtime_limits goes on with the next session it sampled.              *)
EndRead(c) ==
  IF req[c].sample = {} THEN Return(c) ELSE Goto(c, "probe", req[c])

(* open_session_connection; open_session drops its connection at once.       *)
OpenConnection(c) ==
  /\ At(c, "connect")
  /\ \/ /\ Goto(c, AfterConnect[req[c].op], req[c])
        /\ conn' = [conn EXCEPT ![c] = IF req[c].op = "open" THEN NoConnection ELSE Linked]
     \/ /\ req[c].op \in {"create", "append"}
        /\ Goto(c, "refund", req[c])
        /\ UNCHANGED conn
     \/ /\ req[c].op \notin {"create", "append"}
        /\ EndRead(c)
        /\ UNCHANGED conn
  /\ UNCHANGED <<ledger, limits, disk, unremoved, removals>>

(* A read-only statement: a query, a table inventory or a memory probe.      *)
ReadDatabase(c) ==
  /\ At(c, "read")
  /\ EndRead(c)
  /\ conn' = [conn EXCEPT ![c] = NoConnection]
  /\ UNCHANGED <<ledger, limits, disk, unremoved, removals>>

(* existing_session_db_path: list_tables and drop_table, on a live session   *)
(* only.                                                                     *)
ExistingSession(c, r) ==
  /\ Calls(c, r.op)
  /\ PruneOnly(c, {r.session})
  /\ IF r.session \in Kept THEN Goto(c, "connect", r) ELSE UNCHANGED <<pc, req>>
  /\ UNCHANGED <<limits, disk, unremoved, conn>>

ListTables(c, s) == ExistingSession(c, Asks("list", s))

-----------------------------------------------------------------------------
(* Ingest: reserve quota, write in one transaction, refund on failure.       *)

(* Bugs: one table too many; a batch's own rows are not counted.             *)
ExceedsTablesOffByOne(s, op) == op = "create" /\ tablesUsed[s] > maxTables
ExceedsRowsBefore(s, n) == rowsUsed[s] > MaxRows
ExceedsTables(s, op) == op = "create" /\ tablesUsed[s] >= maxTables
ExceedsRows(s, n) == rowsUsed[s] + n > MaxRows

ReserveIngestCapacity(c, op, s, t, n) ==
  /\ Calls(c, op)
  /\ \/ /\ s \notin Kept
        /\ PruneAndForget(c)
        /\ UNCHANGED <<pc, req>>
     \/ /\ s \in Kept
        /\ ExceedsTables(s, op) \/ ExceedsRows(s, n)
        /\ PruneOnly(c, {})
        /\ UNCHANGED <<pc, req>>
     \/ /\ s \in Kept
        /\ ~ExceedsTables(s, op) /\ ~ExceedsRows(s, n)
        /\ Region(c, Kept,
                  [KeptTables EXCEPT ![s] = IF op = "create" THEN @ + 1 ELSE @],
                  [KeptRows EXCEPT ![s] = @ + n], {s}, Expired)
        /\ Goto(c, "connect", [AsksTable(op, s, t) EXCEPT !.rows = n])
  /\ UNCHANGED <<limits, disk, unremoved, conn>>

(* The engine's answer to CREATE TABLE or to the append checks.              *)
Accepts(db, r) ==
  /\ r.op = "create" <=> r.table \notin DOMAIN db
  /\ (IF r.table \in DOMAIN db THEN db[r.table] ELSE 0) + r.rows <= DiskRows
Ingested(db, r) ==
  WithTable(db, r.table, (IF r.table \in DOMAIN db THEN db[r.table] ELSE 0) + r.rows)

(* BEGIN .. COMMIT.  The engine may refuse any statement: then ROLLBACK.     *)
PersistIngestFailingTo(c, step, r) ==
  /\ At(c, "write")
  /\ conn' = [conn EXCEPT ![c] = NoConnection]
  /\ \/ /\ Accepts(Db(c), req[c])
        /\ disk' = IF conn[c].kind = "orphan" THEN disk
                   ELSE [disk EXCEPT ![req[c].session] = Ingested(@, req[c])]
        /\ Return(c)
     \/ /\ Goto(c, step, r)
        /\ UNCHANGED disk
  /\ UNCHANGED <<ledger, limits, unremoved, removals>>

(* Bugs: a failed transaction is not refunded; it is retried for ever.       *)
PersistIngestUnrefunded(c) == PersistIngestFailingTo(c, "idle", NoRequest)
PersistIngestRetried(c) == PersistIngestFailingTo(c, "connect", req[c])
PersistIngestTable(c) == PersistIngestFailingTo(c, "refund", req[c])

(* The entry may have gone meanwhile, or be another one of the same id.      *)
RollbackIngestCapacity(c) ==
  LET s == req[c].session
      refunded == Kept \cap {s}
  IN /\ At(c, "refund")
     /\ Region(c, Kept,
               [x \in Sessions |-> IF x \in refunded /\ req[c].op = "create"
                                   THEN SaturatingSub(KeptTables[x], 1) ELSE KeptTables[x]],
               [x \in Sessions |-> IF x \in refunded
                                   THEN SaturatingSub(KeptRows[x], req[c].rows)
                                   ELSE KeptRows[x]],
               {s}, Expired)
     /\ Return(c)
     /\ UNCHANGED <<limits, disk, unremoved, conn>>

-----------------------------------------------------------------------------
(* Drop: look the table up and count it, drop it, reclaim its quota.         *)

DropTable(c, s, t, if_exists) ==
  ExistingSession(c, [AsksTable("drop", s, t) EXCEPT !.if_exists = if_exists])

(* table_exists and table_row_count, before the DROP.                        *)
InspectTable(c) ==
  LET r == req[c] IN
  /\ At(c, "inspect")
  /\ \/ /\ r.table \in DOMAIN Db(c)
        /\ Goto(c, "dropping", [r EXCEPT !.rows = Db(c)[r.table]])
        /\ UNCHANGED conn
     \/ /\ r.table \notin DOMAIN Db(c) /\ r.if_exists
        /\ Goto(c, "snapshot", r)
        /\ conn' = [conn EXCEPT ![c] = NoConnection]
     \/ /\ Return(c)  \* no such table, or the engine fails
        /\ conn' = [conn EXCEPT ![c] = NoConnection]
  /\ UNCHANGED <<ledger, limits, disk, unremoved, removals>>

(* DROP TABLE has no IF EXISTS: it fails if the table went meanwhile.        *)
ExecuteDrop(c) ==
  LET r == req[c] IN
  /\ At(c, "dropping")
  /\ conn' = [conn EXCEPT ![c] = NoConnection]
  /\ \/ /\ r.table \in DOMAIN Db(c)
        /\ disk' = IF conn[c].kind = "orphan" THEN disk
                   ELSE [disk EXCEPT ![r.session] = WithoutTable(@, r.table)]
        /\ Goto(c, "note", r)
     \/ /\ Return(c)
        /\ UNCHANGED disk
  /\ UNCHANGED <<ledger, limits, unremoved, removals>>

(* A region around session_entry_mut, which creates the entry it cannot find,*)
(* also for a usage that is then refused.                                    *)
WithEntry(c, s, accepted, tabs, rows) ==
  /\ \/ /\ HasSlot(s) /\ accepted
        /\ Region(c, Kept \cup {s}, [KeptTables EXCEPT ![s] = tabs],
                  [KeptRows EXCEPT ![s] = rows], {s}, Expired)
     \/ /\ HasSlot(s) /\ ~accepted
        /\ Region(c, Kept \cup {s}, KeptTables, KeptRows, {s} \ Kept, Expired)
     \/ /\ ~HasSlot(s)
        /\ PruneAndForget(c)
  /\ Return(c)
  /\ UNCHANGED <<limits, disk, unremoved, conn>>

(* Bug: the slot is reclaimed, the rows are not.                             *)
NoteTableDroppedSlotOnly(c) ==
  LET s == req[c].session IN
  /\ At(c, "note")
  /\ WithEntry(c, s, TRUE, SaturatingSub(KeptTables[s], 1), KeptRows[s])
NoteTableDropped(c) ==
  LET s == req[c].session IN
  /\ At(c, "note")
  /\ WithEntry(c, s, TRUE, SaturatingSub(KeptTables[s], 1),
               SaturatingSub(KeptRows[s], req[c].rows))

(* drop_table with if_exists on a table that is not there.                   *)
SessionSnapshot(c) ==
  /\ At(c, "snapshot")
  /\ PruneOnly(c, {req[c].session})
  /\ Return(c)
  /\ UNCHANGED <<limits, disk, unremoved, conn>>

(* Library calls no tool makes.                                              *)
NoteTableCreated(c, s) ==
  /\ Calls(c, "note_created")
  /\ WithEntry(c, s, KeptTables[s] < maxTables, KeptTables[s] + 1, KeptRows[s])

NoteRowsIngested(c, s, n) ==
  /\ Calls(c, "note_rows")
  /\ WithEntry(c, s, KeptRows[s] + n <= MaxRows, KeptTables[s], KeptRows[s] + n)

-----------------------------------------------------------------------------
(* Runtime limits.                                                           *)

(* scratchpad_set_runtime_limits: up to two stores, neither under the lock.  *)
(* Zero is refused, a refused second value leaves the first one stored.      *)
SetsLimits == [NoRequest EXCEPT !.op = "set_limits"]

SetMaxSessionsLimit(c, m) ==
  /\ Calls(c, "set_limits")
  /\ m # 0
  /\ maxSessions' = m
  /\ \/ Goto(c, "count", SetsLimits)
     \/ \E t \in LimitValues : Goto(c, "set_tables", [SetsLimits EXCEPT !.rows = t])
  /\ UNCHANGED <<ledger, maxTables, disk, unremoved, conn, removals>>

StoreMaxTables(c, t) ==
  /\ IF t = 0
     THEN Return(c) /\ UNCHANGED maxTables
     ELSE maxTables' = t /\ Goto(c, "count", SetsLimits)
  /\ UNCHANGED <<ledger, maxSessions, disk, unremoved, conn, removals>>

SetMaxTablesLimit(c, t) == Calls(c, "set_limits") /\ StoreMaxTables(c, t)
SetMaxTablesToo(c) == At(c, "set_tables") /\ StoreMaxTables(c, req[c].rows)

CountAfterSet(c) ==
  /\ At(c, "count")
  /\ PruneOnly(c, {})
  /\ Return(c)
  /\ UNCHANGED <<limits, disk, unremoved, conn>>

(* scratchpad_get_runtime_limits: count the sessions, list as many, open a   *)
(* connection to each to probe its memory.                                   *)
CountForSample(c) ==
  /\ Calls(c, "limits")
  /\ PruneOnly(c, {})
  /\ IF Kept = {} THEN UNCHANGED <<pc, req>>
     ELSE Goto(c, "sample", [NoRequest EXCEPT !.op = "limits", !.rows = Cardinality(Kept)])
  /\ UNCHANGED <<limits, disk, unremoved, conn>>

SampleSessions(c) ==
  /\ At(c, "sample")
  /\ PruneOnly(c, Kept)
  /\ \E sample \in SUBSET Kept :
       /\ \/ Cardinality(sample) = req[c].rows
          \/ sample = Kept /\ Cardinality(Kept) < req[c].rows
       /\ IF sample = {} THEN Return(c) ELSE Goto(c, "probe", [req[c] EXCEPT !.sample = sample])
  /\ UNCHANGED <<limits, disk, unremoved, conn>>

(* open_connection for a sampled id: a session closed since is opened again. *)
Probe(c, s, rest) ==
  /\ At(c, "probe")
  /\ \/ /\ HasSlot(s)
        /\ Region(c, Kept \cup {s}, KeptTables, KeptRows, {s}, Expired)
        /\ Goto(c, "connect", rest)
     \/ /\ ~HasSlot(s)
        /\ PruneAndForget(c)
        /\ IF rest.sample = {} THEN Return(c) ELSE Goto(c, "probe", rest)
  /\ UNCHANGED <<limits, disk, unremoved, conn>>

(* Bug: the sample is never used up.                                         *)
ProbeSessionAgain(c) ==
  \E s \in req[c].sample : Probe(c, s, [req[c] EXCEPT !.session = s])
ProbeSession(c) ==
  \E s \in req[c].sample : Probe(c, s, [req[c] EXCEPT !.session = s, !.sample = @ \ {s}])

-----------------------------------------------------------------------------
(* The environment.                                                          *)

Tick ==
  /\ ClockRuns
  /\ \E s \in live : age[s] < TTL
  /\ age' = [s \in Sessions |-> IF s \in live /\ age[s] < TTL THEN age[s] + 1 ELSE age[s]]
  /\ UNCHANGED <<live, tablesUsed, rowsUsed, limits, disk, unremoved, thread, removals>>

(* The process dies and starts again.  Nothing sweeps root_dir at start:     *)
(* where the process id is the same again, as in a container,                *)
(* session_db_path names the files of the previous life, else new ones.      *)
Restart ==
  /\ Restarts
  /\ live' = {}
  /\ tablesUsed' = [s \in Sessions |-> 0]
  /\ rowsUsed' = [s \in Sessions |-> 0]
  /\ age' = [s \in Sessions |-> 0]
  /\ maxSessions' = InitSessions
  /\ maxTables' = InitTables
  /\ pc' = [c \in Clients |-> "idle"]
  /\ req' = [c \in Clients |-> NoRequest]
  /\ removals' = [c \in Clients |-> {}]
  /\ conn' = [c \in Clients |-> NoConnection]
  /\ \/ UNCHANGED <<disk, unremoved>>
     \/ disk' = [s \in Sessions |-> EmptyDb] /\ unremoved' = {}

(* A client's new request.                                                   *)
Call(c) ==
  \/ ListSessions(c)
  \/ CleanupExpired(c)
  \/ CountForSample(c)
  \/ \E m \in LimitValues : SetMaxSessionsLimit(c, m)
  \/ \E t \in LimitValues : SetMaxTablesLimit(c, t)
  \/ \E s \in Sessions :
       \/ \E op \in {"open", "query"} : EnsureSession(c, op, s)
       \/ ReleaseSession(c, s)
       \/ ListTables(c, s)
       \/ NoteTableCreated(c, s)
       \/ \E n \in BatchSizes : NoteRowsIngested(c, s, n)
       \/ \E t \in Tables :
            \/ \E b \in BOOLEAN : DropTable(c, s, t, b)
            \/ \E op \in {"create", "append"}, n \in BatchSizes :
                 ReserveIngestCapacity(c, op, s, t, n)

(* The rest of a request that has begun.                                     *)
Proceed(c) ==
  \/ CleanupPath(c)
  \/ OpenConnection(c) \/ ReadDatabase(c) \/ SessionInfo(c)
  \/ PersistIngestTable(c) \/ RollbackIngestCapacity(c)
  \/ InspectTable(c) \/ ExecuteDrop(c) \/ NoteTableDropped(c) \/ SessionSnapshot(c)
  \/ SetMaxTablesToo(c) \/ CountAfterSet(c) \/ SampleSessions(c) \/ ProbeSession(c)

Next == Tick \/ Restart \/ \E c \in Clients : Call(c) \/ Proceed(c)

(* Each request runs on a thread of the runtime and nothing it waits for     *)
(* depends on another request: what has begun goes on.                       *)
Fairness == \A c \in Clients : WF_vars(Proceed(c))

Spec == Init /\ [][Next]_vars
FairSpec == Spec /\ Fairness

-----------------------------------------------------------------------------
(* PROPERTIES                                                                *)

(* The request fields a step relies on.                                      *)
RequestOK(step, r) ==
  /\ step \notin {"idle", "set_tables", "count", "sample", "probe"} => r.session \in Sessions
  /\ step \in {"write", "refund", "inspect"} => r.table \in Tables
  /\ step = "connect" => r.op \in DOMAIN AfterConnect
  /\ step = "connect" /\ r.op \in {"create", "append", "drop"} => r.table \in Tables
  /\ step = "sample" \/ r.sample # {} => r.op = "limits"
  /\ step = "probe" => r.sample # {}

LedgerOK ==
  /\ live \subseteq Sessions
  /\ tablesUsed \in [Sessions -> Nat] /\ rowsUsed \in [Sessions -> Nat]
  /\ age \in [Sessions -> 0..TTL]
  /\ \A s \in Sessions \ live : tablesUsed[s] = 0 /\ rowsUsed[s] = 0 /\ age[s] = 0
LimitsOK == maxSessions \in Nat \ {0} /\ maxTables \in Nat \ {0}
DiskOK == disk \in [Sessions -> Databases] /\ unremoved \subseteq Sessions
ThreadOK ==
  /\ pc \in [Clients -> Steps]
  /\ req \in [Clients -> Request]
  /\ \A c \in Clients : RequestOK(pc[c], req[c])
RemovalsOK == removals \in [Clients -> SUBSET Sessions]
ConnOK == conn \in [Clients -> [kind : {"none", "linked", "orphan"}, db : Databases]]

(* Every variable has its type; an id without an entry has no usage, and a   *)
(* request names the session and the table its step works on.                *)
TypeOK == LedgerOK /\ LimitsOK /\ DiskOK /\ ThreadOK /\ RemovalsOK /\ ConnOK

(* Whatever requests, failures, expiries and restarts interleave, the row    *)
(* ledger of a session never passes max_rows_per_session.                    *)
RowsWithinLimit == \A s \in Sessions : rowsUsed[s] <= MaxRows

(* Sessions that a step creates, an expired entry of the same id being       *)
(* another session.                                                          *)
Admitted == {s \in live' : s \notin live \/ (age[s] >= TTL /\ age'[s] < TTL)}

(* A session is created only under the runtime limit of that moment, also    *)
(* when the limit was lowered below the number of open sessions: "existing   *)
(* sessions remain active but new sessions are blocked" (src/tools.rs).      *)
SessionAdmission == [][Admitted # {} => Cardinality(live') <= maxSessions]_vars

(* A step that takes another table slot stays within the runtime limit of    *)
(* that moment, also after the limit was lowered below a session's usage.    *)
TableAdmission ==
  [][\A s \in Sessions : tablesUsed'[s] > tablesUsed[s] => tablesUsed'[s] <= maxTables]_vars

LeavesInTime ==
  \A s \in live \ live' :
    \/ age[s] >= TTL
    \/ Restart
    \/ \E c \in Clients : ReleaseSession(c, s)

(* No session is lost but by its own close, by TTL expiry or with the        *)
(* process: pressure on the session limit evicts nobody.                     *)
NoEviction == [][LeavesInTime]_vars

(* The quota a request holds for data that is not in the database: reserved  *)
(* and not yet written, or dropped and not yet reclaimed.                    *)
Ingesting(c, s) ==
  req[c].session = s /\ req[c].op \in {"create", "append"} /\ pc[c] \in {"connect", "write", "refund"}
Reclaiming(c, s) == req[c].session = s /\ pc[c] = "note"
StoredRows(s) == SumFunction(disk[s])
RowsInFlight(s) ==
  SumFunctionOnSet([c \in Clients |-> req[c].rows],
                   {c \in Clients : Ingesting(c, s) \/ Reclaiming(c, s)})
TablesInFlight(s) ==
  Cardinality({c \in Clients : (Ingesting(c, s) /\ req[c].op = "create") \/ Reclaiming(c, s)})

(* The ledger of a live session says exactly what its database holds, once   *)
(* the requests under way are settled: every failed ingest has refunded what *)
(* it reserved and nothing else, every drop what it removed.  A session whose*)
(* id has a file nobody could remove is excepted: its ledger begins at zero  *)
(* over that file.                                                           *)
LedgerExact ==
  \A s \in live \ unremoved :
    /\ rowsUsed[s] = StoredRows(s) + RowsInFlight(s)
    /\ tablesUsed[s] = Cardinality(DOMAIN disk[s]) + TablesInFlight(s)

(* A database that began with its session never holds more than              *)
(* max_rows_per_session.                                                     *)
StoredWithinLimit == \A s \in live \ unremoved : StoredRows(s) <= MaxRows

(* Every request ends, with the files it was told to remove removed.         *)
RequestsFinish == \A c \in Clients : (pc[c] # "idle") ~> At(c, "idle")

(* The data of a session that was closed or has expired leaves the disk, or  *)
(* a warning names the file that stays, or the session is opened again.      *)
NoDataLeftBehind ==
  \A s \in Sessions : (s \notin live) ~> (s \in live \/ disk[s] = EmptyDb \/ s \in unremoved)

(* The abstract store this module implements: an expired session is gone, and *)
(* so is a database whose removal is on its way.  A session over a file that *)
(* could not be removed is none of it until a later removal succeeds.        *)
OpenSessions == (live \ Expired) \ unremoved
OpenDatabases ==
  [s \in Sessions |-> IF s \in OpenSessions /\ \A c \in Clients : s \notin removals[c]
                      THEN disk[s] ELSE EmptyDb]
Store == INSTANCE SessionStore WITH open <- OpenSessions, db <- OpenDatabases

(* Each session is isolated in time as in space: what a client sees of a     *)
(* session is an atomic store that began empty when the session was opened.  *)
StoreSpec == Store!Spec
=============================================================================
