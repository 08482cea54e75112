------------------------ MODULE ScratchpadSessions_proofs ------------------------
(***************************************************************************)
(* What holds of ScratchpadSessions for any number of sessions, tables and *)
(* request threads, any limits, any TTL.                                   *)
(***************************************************************************)
EXTENDS ScratchpadSessions, FiniteSetTheorems, TLAPS

-----------------------------------------------------------------------------
(* Databases.                                                                *)

LEMMA EmptyDbType == EmptyDb \in Databases
<1>1. EmptyDb \in [{} -> 0..DiskRows]  BY DEF EmptyDb
<1>2. QED  BY <1>1 DEF Databases

(* A database is a function from a set of tables to row counts.              *)
LEMMA DatabaseShape ==
  ASSUME NEW db \in Databases
  PROVE  DOMAIN db \subseteq Tables /\ db \in [DOMAIN db -> 0..DiskRows]
BY DEF Databases

LEMMA WithTableType ==
  ASSUME NEW db \in Databases, NEW t \in Tables, NEW n \in 0..DiskRows
  PROVE  WithTable(db, t, n) \in Databases
<1>1. DOMAIN db \cup {t} \in SUBSET Tables  BY DatabaseShape
<1>2. WithTable(db, t, n) \in [DOMAIN db \cup {t} -> 0..DiskRows]
  BY DatabaseShape DEF WithTable
<1>3. QED  BY <1>1, <1>2 DEF Databases

LEMMA WithoutTableType ==
  ASSUME NEW db \in Databases, NEW t
  PROVE  WithoutTable(db, t) \in Databases
<1>1. DOMAIN db \ {t} \in SUBSET Tables  BY DatabaseShape
<1>2. WithoutTable(db, t) \in [DOMAIN db \ {t} -> 0..DiskRows]
  BY DatabaseShape DEF WithoutTable, Restrict
<1>3. QED  BY <1>1, <1>2 DEF Databases

(* What a request's connection shows is a database.                          *)
LEMMA DbType ==
  ASSUME DiskOK, ConnOK, NEW c \in Clients, req[c].session \in Sessions
  PROVE  Db(c) \in Databases
BY DEF Db, DiskOK, ConnOK

LEMMA IngestedType ==
  ASSUME NEW db \in Databases, NEW r \in Request, r.table \in Tables, Accepts(db, r)
  PROVE  Ingested(db, r) \in Databases
<1> DEFINE n == (IF r.table \in DOMAIN db THEN db[r.table] ELSE 0) + r.rows
<1>1. r.rows \in Nat  BY DEF Request
<1>2. n <= DiskRows  BY DEF Accepts
<1>3. n \in Nat  BY <1>1, DatabaseShape
<1>4. n \in 0..DiskRows  BY <1>2, <1>3, ConfigAssumption DEF ConfigAssumption
<1>5. WithTable(db, r.table, n) \in Databases
  <2> HIDE DEF n
  <2> QED  BY <1>4, WithTableType
<1>6. QED  BY <1>5 DEF Ingested

-----------------------------------------------------------------------------
(* Locked regions.                                                           *)

(* What prune_expired_locked leaves: entries younger than the TTL, usage of  *)
(* nothing else.                                                             *)
LEMMA KeptType ==
  ASSUME LedgerOK
  PROVE  /\ Kept \subseteq live /\ Expired \subseteq live /\ live \ Kept = Expired
         /\ Kept \in SUBSET Sessions /\ Expired \in SUBSET Sessions
         /\ KeptTables \in [Sessions -> Nat] /\ KeptRows \in [Sessions -> Nat]
         /\ \A s \in Sessions \ Kept : KeptTables[s] = 0 /\ KeptRows[s] = 0
         /\ \A s \in Kept : KeptTables[s] = tablesUsed[s] /\ KeptRows[s] = rowsUsed[s]
         /\ \A s \in Kept : age[s] < TTL
BY ConfigAssumption DEF LedgerOK, Kept, Expired, KeptTables, KeptRows, ConfigAssumption

(* A region keeps the ledger well-formed when what it writes is.             *)
LEMMA RegionType ==
  ASSUME LedgerOK, RemovalsOK, NEW c \in Clients,
         NEW entries \in SUBSET Sessions, NEW touched, NEW removed \in SUBSET Sessions,
         NEW tabs \in [Sessions -> Nat], NEW rows \in [Sessions -> Nat],
         \A s \in Sessions \ entries : tabs[s] = 0 /\ rows[s] = 0,
         Region(c, entries, tabs, rows, touched, removed)
  PROVE  LedgerOK' /\ RemovalsOK'
<1>1. age' \in [Sessions -> 0..TTL]
  BY ConfigAssumption DEF Region, LedgerOK, ConfigAssumption
<1>2. \A s \in Sessions \ entries : age'[s] = 0  BY DEF Region
<1>3. RemovalsOK'  BY DEF Region, RemovalsOK
<1>4. QED  BY <1>1, <1>2, <1>3 DEF Region, LedgerOK

LEMMA PruneOnlyType ==
  ASSUME LedgerOK, RemovalsOK, NEW c \in Clients, NEW touched, PruneOnly(c, touched)
  PROVE  LedgerOK' /\ RemovalsOK'
BY KeptType, RegionType DEF PruneOnly

LEMMA PruneAndForgetType ==
  ASSUME LedgerOK, RemovalsOK, NEW c \in Clients, PruneAndForget(c)
  PROVE  LedgerOK' /\ RemovalsOK'
BY KeptType, RegionType DEF PruneAndForget

(* The regions that find or create an entry and leave its usage alone.       *)
LEMMA EnterType ==
  ASSUME LedgerOK, RemovalsOK, NEW c \in Clients, NEW s \in Sessions, NEW touched,
         Region(c, Kept \cup {s}, KeptTables, KeptRows, touched, Expired)
  PROVE  LedgerOK' /\ RemovalsOK'
<1>1. Kept \cup {s} \in SUBSET Sessions  BY KeptType
<1>2. \A x \in Sessions \ (Kept \cup {s}) : KeptTables[x] = 0 /\ KeptRows[x] = 0
  BY KeptType
<1>3. QED  BY <1>1, <1>2, KeptType, RegionType

-----------------------------------------------------------------------------
(* Threads.                                                                  *)

LEMMA GotoType ==
  ASSUME ThreadOK, NEW c \in Clients, NEW step \in Steps, NEW r \in Request,
         RequestOK(step, r), Goto(c, step, r)
  PROVE  ThreadOK'
<1>1. pc' \in [Clients -> Steps] /\ req' \in [Clients -> Request]
  BY DEF ThreadOK, Goto
<1>2. ASSUME NEW d \in Clients  PROVE RequestOK(pc'[d], req'[d])
  <2>1. CASE d = c  BY <2>1 DEF ThreadOK, Goto
  <2>2. CASE d # c  BY <2>2 DEF ThreadOK, Goto
  <2>3. QED  BY <2>1, <2>2
<1>3. QED  BY <1>1, <1>2 DEF ThreadOK

LEMMA NoRequestType == NoRequest \in Request
BY DEF NoRequest, Request

LEMMA ReturnType ==
  ASSUME ThreadOK, NEW c \in Clients, Return(c)
  PROVE  ThreadOK'
<1>1. "idle" \in Steps /\ RequestOK("idle", NoRequest)  BY DEF Steps, RequestOK, NoRequest
<1>2. QED  BY <1>1, GotoType, NoRequestType DEF Return

LEMMA AsksType ==
  ASSUME NEW op \in AllOps, NEW s \in Sessions
  PROVE  /\ Asks(op, s) \in Request
         /\ Asks(op, s).op = op /\ Asks(op, s).session = s /\ Asks(op, s).sample = {}
BY DEF Asks, NoRequest, Request

LEMMA AsksTableType ==
  ASSUME NEW op \in AllOps, NEW s \in Sessions, NEW t \in Tables
  PROVE  /\ AsksTable(op, s, t) \in Request
         /\ AsksTable(op, s, t).op = op /\ AsksTable(op, s, t).session = s
         /\ AsksTable(op, s, t).table = t /\ AsksTable(op, s, t).sample = {}
BY DEF AsksTable, Asks, NoRequest, Request

-----------------------------------------------------------------------------
(* Every action preserves the type invariant.                                *)

LEMMA EnsureSessionType ==
  ASSUME TypeOK, NEW c \in Clients, NEW op \in {"open", "query"}, NEW s \in Sessions,
         EnsureSession(c, op, s)
  PROVE  TypeOK'
<1>1. LimitsOK' /\ DiskOK' /\ ConnOK'
  BY DEF EnsureSession, TypeOK, LimitsOK, DiskOK, ConnOK, limits
<1>2. CASE HasSlot(s) /\ Region(c, Kept \cup {s}, KeptTables, KeptRows, {s}, Expired)
           /\ Goto(c, "connect", Asks(op, s))
  <2>1. LedgerOK' /\ RemovalsOK'  BY <1>2, EnterType DEF TypeOK
  <2>2. op \in AllOps  BY DEF AllOps
  <2>3. Asks(op, s) \in Request /\ Asks(op, s).op = op /\ Asks(op, s).session = s
      /\ Asks(op, s).sample = {}
    BY <2>2, AsksType
  <2>4. RequestOK("connect", Asks(op, s))  BY <2>3 DEF RequestOK, AfterConnect
  <2>5. ThreadOK'  BY <1>2, <2>3, <2>4, GotoType DEF TypeOK, Steps
  <2>6. QED  BY <1>1, <2>1, <2>5 DEF TypeOK
<1>3. CASE PruneAndForget(c) /\ UNCHANGED <<pc, req>>
  <2>1. LedgerOK' /\ RemovalsOK'  BY <1>3, PruneAndForgetType DEF TypeOK
  <2>2. ThreadOK'  BY <1>3 DEF TypeOK, ThreadOK
  <2>3. QED  BY <1>1, <2>1, <2>2 DEF TypeOK
<1>4. QED  BY <1>2, <1>3 DEF EnsureSession

(* The steps that only prune and return.                                     *)
LEMMA PruneAndReturnType ==
  ASSUME TypeOK, NEW c \in Clients, NEW touched,
         PruneOnly(c, touched), Return(c) \/ UNCHANGED <<pc, req>>,
         UNCHANGED <<limits, disk, unremoved, conn>>
  PROVE  TypeOK'
<1>1. LimitsOK' /\ DiskOK' /\ ConnOK'  BY DEF TypeOK, LimitsOK, DiskOK, ConnOK, limits
<1>2. LedgerOK' /\ RemovalsOK'  BY PruneOnlyType DEF TypeOK
<1>3. ThreadOK'
  <2>1. CASE Return(c)  BY <2>1, ReturnType DEF TypeOK
  <2>2. CASE UNCHANGED <<pc, req>>  BY <2>2 DEF TypeOK, ThreadOK
  <2>3. QED  BY <2>1, <2>2
<1>4. QED  BY <1>1, <1>2, <1>3 DEF TypeOK

LEMMA ReleaseSessionType ==
  ASSUME TypeOK, NEW c \in Clients, NEW s \in Sessions, ReleaseSession(c, s)
  PROVE  TypeOK'
<1> DEFINE entries == Kept \ {s}
           tabs == [KeptTables EXCEPT ![s] = 0]
           rows == [KeptRows EXCEPT ![s] = 0]
           removed == Expired \cup (Kept \cap {s})
<1>1. LimitsOK' /\ DiskOK' /\ ConnOK' /\ ThreadOK'
  BY DEF ReleaseSession, TypeOK, LimitsOK, DiskOK, ConnOK, ThreadOK, limits, thread
<1>2. LedgerOK' /\ RemovalsOK'
  <2>1. entries \in SUBSET Sessions /\ removed \in SUBSET Sessions  BY KeptType DEF TypeOK
  <2>2. tabs \in [Sessions -> Nat] /\ rows \in [Sessions -> Nat]  BY KeptType DEF TypeOK
  <2>3. \A x \in Sessions \ entries : tabs[x] = 0 /\ rows[x] = 0  BY KeptType DEF TypeOK
  <2>4. Region(c, entries, tabs, rows, {}, removed)  BY DEF ReleaseSession
  <2>5. LedgerOK /\ RemovalsOK  BY DEF TypeOK
  <2> HIDE DEF entries, tabs, rows, removed
  <2>6. QED  BY <2>1, <2>2, <2>3, <2>4, <2>5, RegionType
<1>3. QED  BY <1>1, <1>2 DEF TypeOK

LEMMA CleanupPathType ==
  ASSUME TypeOK, NEW c \in Clients, CleanupPath(c)
  PROVE  TypeOK'
<1>1. PICK s \in removals[c] :
        /\ removals' = [removals EXCEPT ![c] = @ \ {s}]
        /\ \/ /\ disk' = [disk EXCEPT ![s] = EmptyDb]
              /\ unremoved' = unremoved \ {s}
              /\ conn' = [d \in Clients |->
                            IF conn[d].kind = "linked" /\ req[d].session = s
                            THEN [kind |-> "orphan", db |-> disk[s]] ELSE conn[d]]
           \/ unremoved' = unremoved \cup {s} /\ UNCHANGED <<disk, conn>>
        /\ UNCHANGED <<ledger, limits, pc, req>>
  BY DEF CleanupPath
<1>2. s \in Sessions  BY DEF TypeOK, RemovalsOK
<1>3. LedgerOK' /\ LimitsOK' /\ ThreadOK'
  BY <1>1 DEF TypeOK, LedgerOK, LimitsOK, ThreadOK, ledger, limits
<1>4. RemovalsOK'  BY <1>1 DEF TypeOK, RemovalsOK
<1>5. CASE UNCHANGED <<disk, conn>> /\ unremoved' = unremoved \cup {s}
  <2>1. DiskOK' /\ ConnOK'  BY <1>2, <1>5 DEF TypeOK, DiskOK, ConnOK
  <2>2. QED  BY <1>3, <1>4, <2>1 DEF TypeOK
<1>6. CASE /\ disk' = [disk EXCEPT ![s] = EmptyDb] /\ unremoved' = unremoved \ {s}
           /\ conn' = [d \in Clients |->
                         IF conn[d].kind = "linked" /\ req[d].session = s
                         THEN [kind |-> "orphan", db |-> disk[s]] ELSE conn[d]]
  <2>1. DiskOK'  BY <1>6, EmptyDbType DEF TypeOK, DiskOK
  <2>2. ConnOK'  BY <1>2, <1>6 DEF TypeOK, ConnOK, DiskOK
  <2>3. QED  BY <1>3, <1>4, <2>1, <2>2 DEF TypeOK
<1>7. QED  BY <1>1, <1>5, <1>6

LEMMA NoConnectionType ==
  /\ NoConnection \in [kind : {"none", "linked", "orphan"}, db : Databases]
  /\ Linked \in [kind : {"none", "linked", "orphan"}, db : Databases]
BY EmptyDbType DEF NoConnection, Linked

(* A step of a thread that touches neither the ledger nor what is to be      *)
(* removed, and changes its own connection at most.                          *)
LEMMA ThreadStepType ==
  ASSUME TypeOK, NEW c \in Clients, NEW step \in Steps, NEW r \in Request,
         RequestOK(step, r), Goto(c, step, r),
         conn' \in {conn, [conn EXCEPT ![c] = NoConnection], [conn EXCEPT ![c] = Linked]},
         DiskOK', UNCHANGED <<ledger, limits, unremoved, removals>>
  PROVE  TypeOK'
<1>1. LedgerOK' /\ LimitsOK' /\ RemovalsOK'
  BY DEF TypeOK, LedgerOK, LimitsOK, RemovalsOK, ledger, limits
<1>2. ThreadOK'  BY GotoType DEF TypeOK
<1>3. ConnOK'  BY NoConnectionType DEF TypeOK, ConnOK
<1>4. QED  BY <1>1, <1>2, <1>3 DEF TypeOK

LEMMA ReturnStepType ==
  ASSUME TypeOK, NEW c \in Clients, Return(c),
         conn' \in {conn, [conn EXCEPT ![c] = NoConnection], [conn EXCEPT ![c] = Linked]},
         DiskOK', UNCHANGED <<ledger, limits, unremoved, removals>>
  PROVE  TypeOK'
<1>1. "idle" \in Steps /\ RequestOK("idle", NoRequest)  BY DEF Steps, RequestOK, NoRequest
<1>2. Goto(c, "idle", NoRequest)  BY DEF Return
<1>3. QED  BY <1>1, <1>2, NoRequestType, ThreadStepType

(* What a client's own step and request are at a step it stands at.          *)
LEMMA AtStep ==
  ASSUME TypeOK, NEW c \in Clients, NEW step, At(c, step)
  PROVE  pc[c] = step /\ req[c] \in Request /\ RequestOK(step, req[c])
BY DEF TypeOK, ThreadOK, At

LEMMA EndReadType ==
  ASSUME TypeOK, NEW c \in Clients, EndRead(c),
         conn' \in {conn, [conn EXCEPT ![c] = NoConnection]},
         UNCHANGED <<ledger, limits, disk, unremoved, removals>>
  PROVE  TypeOK'
<1>1. DiskOK'  BY DEF TypeOK, DiskOK
<1>2. CASE req[c].sample = {}
  BY <1>1, <1>2, ReturnStepType DEF EndRead
<1>3. CASE req[c].sample # {}
  <2>1. req[c] \in Request  BY DEF TypeOK, ThreadOK
  <2>2. "probe" \in Steps /\ RequestOK("probe", req[c])
    BY <1>3 DEF TypeOK, ThreadOK, Steps, RequestOK
  <2>3. Goto(c, "probe", req[c])  BY <1>3 DEF EndRead
  <2>4. QED  BY <1>1, <2>1, <2>2, <2>3, ThreadStepType
<1>4. QED  BY <1>2, <1>3

LEMMA OpenConnectionType ==
  ASSUME TypeOK, NEW c \in Clients, OpenConnection(c)
  PROVE  TypeOK'
<1> DEFINE r == req[c]
<1>1. At(c, "connect") /\ UNCHANGED <<ledger, limits, disk, unremoved, removals>>
  BY DEF OpenConnection
<1>2. r \in Request /\ RequestOK("connect", r)  BY <1>1, AtStep
<1>3. DiskOK'  BY <1>1 DEF TypeOK, DiskOK
<1>4. CASE /\ Goto(c, AfterConnect[r.op], r)
           /\ conn' = [conn EXCEPT ![c] = IF r.op = "open" THEN NoConnection ELSE Linked]
  <2>1. AfterConnect[r.op] \in Steps  BY <1>2 DEF RequestOK, AfterConnect, Steps
  <2>2. RequestOK(AfterConnect[r.op], r)  BY <1>2 DEF RequestOK, AfterConnect
  <2>3. QED  BY <1>1, <1>2, <1>3, <1>4, <2>1, <2>2, ThreadStepType
<1>5. CASE r.op \in {"create", "append"} /\ Goto(c, "refund", r) /\ UNCHANGED conn
  <2>1. RequestOK("refund", r) /\ "refund" \in Steps  BY <1>2, <1>5 DEF RequestOK, Steps
  <2>2. QED  BY <1>1, <1>2, <1>3, <1>5, <2>1, ThreadStepType
<1>6. CASE EndRead(c) /\ UNCHANGED conn
  BY <1>1, <1>6, EndReadType
<1>7. QED  BY <1>4, <1>5, <1>6 DEF OpenConnection

LEMMA ExistingSessionType ==
  ASSUME TypeOK, NEW c \in Clients, NEW r \in Request, r.session \in Sessions,
         r.sample = {}, r.op \in {"list", "drop"}, r.op = "drop" => r.table \in Tables,
         ExistingSession(c, r)
  PROVE  TypeOK'
<1>1. LimitsOK' /\ DiskOK' /\ ConnOK'
  BY DEF ExistingSession, TypeOK, LimitsOK, DiskOK, ConnOK, limits
<1>2. LedgerOK' /\ RemovalsOK'
  <2>1. PruneOnly(c, {r.session})  BY DEF ExistingSession
  <2>2. QED  BY <2>1, PruneOnlyType DEF TypeOK
<1>3. ThreadOK'
  <2>1. CASE r.session \in Kept
    <3>1. "connect" \in Steps /\ RequestOK("connect", r)
      BY DEF Steps, RequestOK, AfterConnect
    <3>2. QED  BY <2>1, <3>1, GotoType DEF TypeOK, ExistingSession
  <2>2. CASE r.session \notin Kept
    BY <2>2 DEF TypeOK, ThreadOK, ExistingSession
  <2>3. QED  BY <2>1, <2>2
<1>4. QED  BY <1>1, <1>2, <1>3 DEF TypeOK

LEMMA ReserveIngestCapacityType ==
  ASSUME TypeOK, NEW c \in Clients, NEW op \in {"create", "append"}, NEW s \in Sessions,
         NEW t \in Tables, NEW n \in BatchSizes, ReserveIngestCapacity(c, op, s, t, n)
  PROVE  TypeOK'
<1> DEFINE tabs == [KeptTables EXCEPT ![s] = IF op = "create" THEN @ + 1 ELSE @]
           rows == [KeptRows EXCEPT ![s] = @ + n]
           r == [AsksTable(op, s, t) EXCEPT !.rows = n]
<1>1. LimitsOK' /\ DiskOK' /\ ConnOK'
  BY DEF ReserveIngestCapacity, TypeOK, LimitsOK, DiskOK, ConnOK, limits
<1>2. n \in Nat  BY ConfigAssumption DEF ConfigAssumption
<1>3. CASE PruneAndForget(c) /\ UNCHANGED <<pc, req>>
  <2>1. LedgerOK' /\ RemovalsOK'  BY <1>3, PruneAndForgetType DEF TypeOK
  <2>2. ThreadOK'  BY <1>3 DEF TypeOK, ThreadOK
  <2>3. QED  BY <1>1, <2>1, <2>2 DEF TypeOK
<1>4. CASE PruneOnly(c, {}) /\ UNCHANGED <<pc, req>>
  <2>1. LedgerOK' /\ RemovalsOK'  BY <1>4, PruneOnlyType DEF TypeOK
  <2>2. ThreadOK'  BY <1>4 DEF TypeOK, ThreadOK
  <2>3. QED  BY <1>1, <2>1, <2>2 DEF TypeOK
<1>5. CASE s \in Kept /\ Region(c, Kept, tabs, rows, {s}, Expired) /\ Goto(c, "connect", r)
  <2>1. LedgerOK' /\ RemovalsOK'
    <3>1. tabs \in [Sessions -> Nat] /\ rows \in [Sessions -> Nat]
      BY <1>2, KeptType DEF TypeOK
    <3>2. \A x \in Sessions \ Kept : tabs[x] = 0 /\ rows[x] = 0
      BY <1>5, KeptType DEF TypeOK
    <3>3. LedgerOK /\ RemovalsOK  BY DEF TypeOK
    <3>4. Kept \in SUBSET Sessions /\ Expired \in SUBSET Sessions  BY <3>3, KeptType
    <3>5. Region(c, Kept, tabs, rows, {s}, Expired)  BY <1>5
    <3> HIDE DEF tabs, rows
    <3>6. QED  BY <3>1, <3>2, <3>3, <3>4, <3>5, RegionType
  <2>2. op \in AllOps  BY DEF AllOps
  <2>3. r \in Request /\ r.op = op /\ r.session = s /\ r.table = t /\ r.sample = {}
    BY <1>2, <2>2, AsksTableType DEF Request
  <2>4. "connect" \in Steps /\ RequestOK("connect", r)
    BY <2>3 DEF Steps, RequestOK, AfterConnect
  <2>5. Goto(c, "connect", r)  BY <1>5
  <2> HIDE DEF r
  <2>6. ThreadOK'  BY <2>3, <2>4, <2>5, GotoType DEF TypeOK
  <2>7. QED  BY <1>1, <2>1, <2>6 DEF TypeOK
<1>6. QED  BY <1>3, <1>4, <1>5 DEF ReserveIngestCapacity

LEMMA PersistIngestTableType ==
  ASSUME TypeOK, NEW c \in Clients, PersistIngestTable(c)
  PROVE  TypeOK'
<1> DEFINE r == req[c]
<1>1. At(c, "write") /\ conn' = [conn EXCEPT ![c] = NoConnection]
      /\ UNCHANGED <<ledger, limits, unremoved, removals>>
  BY DEF PersistIngestTable, PersistIngestFailingTo
<1>2. r \in Request /\ RequestOK("write", r)  BY <1>1, AtStep
<1>3. r.session \in Sessions /\ r.table \in Tables  BY <1>2 DEF RequestOK
<1>4. CASE /\ Accepts(Db(c), r) /\ Return(c)
           /\ disk' = IF conn[c].kind = "orphan" THEN disk
                      ELSE [disk EXCEPT ![r.session] = Ingested(@, r)]
  <2>1. CASE conn[c].kind = "orphan"
    <3>1. DiskOK'  BY <1>1, <1>4, <2>1 DEF TypeOK, DiskOK
    <3>2. QED  BY <1>1, <1>4, <3>1, ReturnStepType
  <2>2. CASE conn[c].kind # "orphan"
    <3>1. Db(c) = disk[r.session]  BY <2>2 DEF Db
    <3>2. disk[r.session] \in Databases  BY <1>3 DEF TypeOK, DiskOK
    <3>3. Ingested(disk[r.session], r) \in Databases
      BY <1>2, <1>3, <1>4, <3>1, <3>2, IngestedType
    <3>4. DiskOK'  BY <1>1, <1>3, <1>4, <2>2, <3>3 DEF TypeOK, DiskOK
    <3>5. QED  BY <1>1, <1>4, <3>4, ReturnStepType
  <2>3. QED  BY <2>1, <2>2
<1>5. CASE Goto(c, "refund", r) /\ UNCHANGED disk
  <2>1. DiskOK'  BY <1>1, <1>5 DEF TypeOK, DiskOK
  <2>2. "refund" \in Steps /\ RequestOK("refund", r)  BY <1>2, <1>3 DEF Steps, RequestOK
  <2>3. QED  BY <1>1, <1>2, <1>5, <2>1, <2>2, ThreadStepType
<1>6. QED  BY <1>4, <1>5 DEF PersistIngestTable, PersistIngestFailingTo

LEMMA SaturatingSubType ==
  \A m, n \in Nat : SaturatingSub(m, n) \in Nat /\ SaturatingSub(m, n) <= m
BY DEF SaturatingSub

LEMMA RollbackIngestCapacityType ==
  ASSUME TypeOK, NEW c \in Clients, RollbackIngestCapacity(c)
  PROVE  TypeOK'
<1> DEFINE s == req[c].session
           refunded == Kept \cap {s}
           tabs == [x \in Sessions |-> IF x \in refunded /\ req[c].op = "create"
                                       THEN SaturatingSub(KeptTables[x], 1) ELSE KeptTables[x]]
           rows == [x \in Sessions |-> IF x \in refunded
                                       THEN SaturatingSub(KeptRows[x], req[c].rows)
                                       ELSE KeptRows[x]]
<1>1. LimitsOK' /\ DiskOK' /\ ConnOK'
  BY DEF RollbackIngestCapacity, TypeOK, LimitsOK, DiskOK, ConnOK, limits
<1>2. ThreadOK'  BY ReturnType DEF RollbackIngestCapacity, TypeOK
<1>3. req[c].rows \in Nat  BY DEF TypeOK, ThreadOK, Request
<1>4. LedgerOK /\ RemovalsOK  BY DEF TypeOK
<1>5. tabs \in [Sessions -> Nat] /\ rows \in [Sessions -> Nat]
  BY <1>3, <1>4, KeptType, SaturatingSubType
<1>6. \A x \in Sessions \ Kept : tabs[x] = 0 /\ rows[x] = 0  BY <1>4, KeptType
<1>7. Region(c, Kept, tabs, rows, {s}, Expired)  BY DEF RollbackIngestCapacity
<1>8. Kept \in SUBSET Sessions /\ Expired \in SUBSET Sessions  BY <1>4, KeptType
<1>9. LedgerOK' /\ RemovalsOK'
  <2> HIDE DEF tabs, rows, s
  <2> QED  BY <1>4, <1>5, <1>6, <1>7, <1>8, RegionType
<1>10. QED  BY <1>1, <1>2, <1>9 DEF TypeOK

LEMMA InspectTableType ==
  ASSUME TypeOK, NEW c \in Clients, InspectTable(c)
  PROVE  TypeOK'
<1> DEFINE r == req[c]
<1>1. At(c, "inspect") /\ UNCHANGED <<ledger, limits, disk, unremoved, removals>>
  BY DEF InspectTable
<1>2. r \in Request /\ RequestOK("inspect", r)  BY <1>1, AtStep
<1>3. r.session \in Sessions /\ r.table \in Tables  BY <1>2 DEF RequestOK
<1>4. DiskOK'  BY <1>1 DEF TypeOK, DiskOK
<1>5. CASE /\ r.table \in DOMAIN Db(c)
           /\ Goto(c, "dropping", [r EXCEPT !.rows = Db(c)[r.table]])
           /\ UNCHANGED conn
  <2>1. Db(c) \in Databases  BY <1>3, DbType DEF TypeOK
  <2>2. Db(c)[r.table] \in Nat  BY <1>5, <2>1, DatabaseShape
  <2>3. [r EXCEPT !.rows = Db(c)[r.table]] \in Request  BY <1>2, <2>2 DEF Request
  <2>4. /\ [r EXCEPT !.rows = Db(c)[r.table]].session = r.session
        /\ [r EXCEPT !.rows = Db(c)[r.table]].op = r.op
        /\ [r EXCEPT !.rows = Db(c)[r.table]].sample = r.sample
    BY <1>2 DEF Request
  <2>5. "dropping" \in Steps /\ RequestOK("dropping", [r EXCEPT !.rows = Db(c)[r.table]])
    BY <1>2, <1>3, <2>4 DEF Steps, RequestOK
  <2>6. QED  BY <1>1, <1>4, <1>5, <2>3, <2>5, ThreadStepType
<1>6. CASE Goto(c, "snapshot", r) /\ conn' = [conn EXCEPT ![c] = NoConnection]
  <2>1. "snapshot" \in Steps /\ RequestOK("snapshot", r)  BY <1>2, <1>3 DEF Steps, RequestOK
  <2>2. QED  BY <1>1, <1>2, <1>4, <1>6, <2>1, ThreadStepType
<1>7. CASE Return(c) /\ conn' = [conn EXCEPT ![c] = NoConnection]
  BY <1>1, <1>4, <1>7, ReturnStepType
<1>8. QED  BY <1>5, <1>6, <1>7 DEF InspectTable

LEMMA ExecuteDropType ==
  ASSUME TypeOK, NEW c \in Clients, ExecuteDrop(c)
  PROVE  TypeOK'
<1> DEFINE r == req[c]
<1>1. At(c, "dropping") /\ conn' = [conn EXCEPT ![c] = NoConnection]
      /\ UNCHANGED <<ledger, limits, unremoved, removals>>
  BY DEF ExecuteDrop
<1>2. r \in Request /\ RequestOK("dropping", r)  BY <1>1, AtStep
<1>3. r.session \in Sessions  BY <1>2 DEF RequestOK
<1>4. DiskOK'
  <2>1. disk[r.session] \in Databases  BY <1>3 DEF TypeOK, DiskOK
  <2>2. WithoutTable(disk[r.session], r.table) \in Databases  BY <2>1, WithoutTableType
  <2>3. disk' \in {disk, [disk EXCEPT ![r.session] = WithoutTable(@, r.table)]}
    BY DEF ExecuteDrop
  <2>4. QED  BY <1>1, <1>3, <2>2, <2>3 DEF TypeOK, DiskOK
<1>5. CASE Goto(c, "note", r)
  <2>1. "note" \in Steps /\ RequestOK("note", r)  BY <1>2, <1>3 DEF Steps, RequestOK
  <2>2. QED  BY <1>1, <1>2, <1>4, <1>5, <2>1, ThreadStepType
<1>6. CASE Return(c)  BY <1>1, <1>4, <1>6, ReturnStepType
<1>7. QED  BY <1>5, <1>6 DEF ExecuteDrop

LEMMA WithEntryType ==
  ASSUME TypeOK, NEW c \in Clients, NEW s \in Sessions, NEW accepted,
         NEW tabs, NEW rows, accepted => tabs \in Nat /\ rows \in Nat,
         WithEntry(c, s, accepted, tabs, rows)
  PROVE  TypeOK'
<1>1. LimitsOK' /\ DiskOK' /\ ConnOK'
  BY DEF WithEntry, TypeOK, LimitsOK, DiskOK, ConnOK, limits
<1>2. ThreadOK'  BY ReturnType DEF WithEntry, TypeOK
<1>3. LedgerOK /\ RemovalsOK  BY DEF TypeOK
<1>4. LedgerOK' /\ RemovalsOK'
  <2>1. CASE accepted /\ Region(c, Kept \cup {s}, [KeptTables EXCEPT ![s] = tabs],
                                [KeptRows EXCEPT ![s] = rows], {s}, Expired)
    <3> DEFINE T == [KeptTables EXCEPT ![s] = tabs]
               R == [KeptRows EXCEPT ![s] = rows]
               E == Kept \cup {s}
    <3>1. T \in [Sessions -> Nat] /\ R \in [Sessions -> Nat]  BY <1>3, <2>1, KeptType
    <3>2. \A x \in Sessions \ E : T[x] = 0 /\ R[x] = 0  BY <1>3, KeptType
    <3>3. E \in SUBSET Sessions /\ Expired \in SUBSET Sessions  BY <1>3, KeptType
    <3>4. Region(c, E, T, R, {s}, Expired)  BY <2>1
    <3> HIDE DEF T, R, E
    <3>5. QED  BY <1>3, <3>1, <3>2, <3>3, <3>4, RegionType
  <2>2. CASE Region(c, Kept \cup {s}, KeptTables, KeptRows, {s} \ Kept, Expired)
    BY <1>3, <2>2, EnterType
  <2>3. CASE PruneAndForget(c)  BY <1>3, <2>3, PruneAndForgetType
  <2>4. QED  BY <2>1, <2>2, <2>3 DEF WithEntry
<1>5. QED  BY <1>1, <1>2, <1>4 DEF TypeOK

LEMMA NoteTableDroppedType ==
  ASSUME TypeOK, NEW c \in Clients, NoteTableDropped(c)
  PROVE  TypeOK'
<1> DEFINE s == req[c].session
<1>1. req[c] \in Request /\ RequestOK("note", req[c])  BY AtStep DEF NoteTableDropped
<1>2. s \in Sessions /\ req[c].rows \in Nat  BY <1>1 DEF RequestOK, Request
<1>3. KeptTables[s] \in Nat /\ KeptRows[s] \in Nat  BY <1>2, KeptType DEF TypeOK
<1>4. SaturatingSub(KeptTables[s], 1) \in Nat /\ SaturatingSub(KeptRows[s], req[c].rows) \in Nat
  BY <1>2, <1>3, SaturatingSubType
<1>5. QED  BY <1>2, <1>4, WithEntryType DEF NoteTableDropped

LEMMA NoteUsageType ==
  ASSUME TypeOK, NEW c \in Clients, NEW s \in Sessions,
         NoteTableCreated(c, s) \/ \E n \in BatchSizes : NoteRowsIngested(c, s, n)
  PROVE  TypeOK'
<1>1. KeptTables[s] \in Nat /\ KeptRows[s] \in Nat  BY KeptType DEF TypeOK
<1>2. BatchSizes \subseteq Nat  BY ConfigAssumption DEF ConfigAssumption
<1>3. CASE NoteTableCreated(c, s)  BY <1>1, <1>3, WithEntryType DEF NoteTableCreated
<1>4. ASSUME NEW n \in BatchSizes, NoteRowsIngested(c, s, n)  PROVE TypeOK'
  BY <1>1, <1>2, <1>4, WithEntryType DEF NoteRowsIngested
<1>5. QED  BY <1>3, <1>4

LEMMA SetLimitsType ==
  ASSUME TypeOK, NEW c \in Clients,
         \/ \E m \in LimitValues : SetMaxSessionsLimit(c, m) \/ SetMaxTablesLimit(c, m)
         \/ SetMaxTablesToo(c)
  PROVE  TypeOK'
<1> DEFINE count == SetsLimits
           both(t) == [SetsLimits EXCEPT !.rows = t]
<1>1. LimitValues \subseteq Nat  BY ConfigAssumption DEF ConfigAssumption
<1>2. "count" \in Steps /\ "set_tables" \in Steps  BY DEF Steps
<1>3. count \in Request /\ RequestOK("count", count)
  BY DEF SetsLimits, NoRequest, Request, RequestOK, AllOps
<1>4. ASSUME NEW t \in Nat  PROVE both(t) \in Request /\ RequestOK("set_tables", both(t))
  BY DEF SetsLimits, NoRequest, Request, RequestOK, AllOps
<1>5. ASSUME NEW t \in Nat, StoreMaxTables(c, t)  PROVE TypeOK'
  <2>1. LedgerOK' /\ LimitsOK' /\ DiskOK' /\ RemovalsOK' /\ ConnOK'
    BY <1>5 DEF StoreMaxTables, TypeOK, LedgerOK, LimitsOK, DiskOK, RemovalsOK, ConnOK, ledger
  <2>2. ThreadOK'
    <3>1. CASE Return(c)  BY <3>1, ReturnType DEF TypeOK
    <3>2. CASE Goto(c, "count", SetsLimits)  BY <1>2, <1>3, <3>2, GotoType DEF TypeOK
    <3>3. QED  BY <1>5, <3>1, <3>2 DEF StoreMaxTables
  <2>3. QED  BY <2>1, <2>2 DEF TypeOK
<1>6. ASSUME NEW m \in LimitValues, SetMaxSessionsLimit(c, m)  PROVE TypeOK'
  <2>1. LedgerOK' /\ LimitsOK' /\ DiskOK' /\ RemovalsOK' /\ ConnOK'
    BY <1>1, <1>6
    DEF SetMaxSessionsLimit, TypeOK, LedgerOK, LimitsOK, DiskOK, RemovalsOK, ConnOK, ledger
  <2>2. ThreadOK'
    <3>1. CASE Goto(c, "count", SetsLimits)  BY <1>2, <1>3, <3>1, GotoType DEF TypeOK
    <3>2. ASSUME NEW t \in LimitValues, Goto(c, "set_tables", both(t))  PROVE ThreadOK'
      <4> HIDE DEF both
      <4> QED  BY <1>1, <1>2, <1>4, <3>2, GotoType DEF TypeOK
    <3>3. QED  BY <1>6, <3>1, <3>2 DEF SetMaxSessionsLimit
  <2>3. QED  BY <2>1, <2>2 DEF TypeOK
<1>7. ASSUME NEW m \in LimitValues, SetMaxTablesLimit(c, m)  PROVE TypeOK'
  BY <1>1, <1>5, <1>7 DEF SetMaxTablesLimit
<1>8. CASE SetMaxTablesToo(c)
  <2>1. req[c].rows \in Nat  BY DEF TypeOK, ThreadOK, Request
  <2>2. QED  BY <1>5, <1>8, <2>1 DEF SetMaxTablesToo
<1>9. QED  BY <1>6, <1>7, <1>8

LEMMA KeptCardinality ==
  ASSUME LedgerOK
  PROVE  IsFiniteSet(Kept) /\ Cardinality(Kept) \in Nat
BY KeptType, ConfigAssumption, FS_Subset, FS_CardinalityType DEF ConfigAssumption

LEMMA SampleType ==
  ASSUME TypeOK, NEW c \in Clients, CountForSample(c) \/ SampleSessions(c)
  PROVE  TypeOK'
<1>1. LimitsOK' /\ DiskOK' /\ ConnOK'
  BY DEF CountForSample, SampleSessions, TypeOK, LimitsOK, DiskOK, ConnOK, limits
<1>2. LedgerOK' /\ RemovalsOK'
  BY PruneOnlyType DEF TypeOK, CountForSample, SampleSessions
<1>3. ThreadOK'
  <2>1. CASE CountForSample(c)
    <3> DEFINE r == [NoRequest EXCEPT !.op = "limits", !.rows = Cardinality(Kept)]
    <3>1. CASE Kept = {}  BY <2>1, <3>1 DEF CountForSample, TypeOK, ThreadOK
    <3>2. CASE Kept # {}
      <4>1. Cardinality(Kept) \in Nat  BY KeptCardinality DEF TypeOK
      <4>2. r \in Request  BY <4>1 DEF NoRequest, Request, AllOps
      <4>3. "sample" \in Steps /\ RequestOK("sample", r)  BY DEF NoRequest, Steps, RequestOK
      <4>4. Goto(c, "sample", r)  BY <2>1, <3>2 DEF CountForSample
      <4> HIDE DEF r
      <4>5. QED  BY <4>2, <4>3, <4>4, GotoType DEF TypeOK
    <3>3. QED  BY <3>1, <3>2
  <2>2. CASE SampleSessions(c)
    <3>1. PICK sample \in SUBSET Kept :
            IF sample = {} THEN Return(c)
            ELSE Goto(c, "probe", [req[c] EXCEPT !.sample = sample])
      BY <2>2 DEF SampleSessions
    <3>2. CASE sample = {}  BY <3>1, <3>2, ReturnType DEF TypeOK
    <3>3. CASE sample # {}
      <4> DEFINE r == [req[c] EXCEPT !.sample = sample]
      <4>1. req[c] \in Request /\ req[c].op = "limits"
        BY <2>2, AtStep DEF SampleSessions, RequestOK
      <4>2. sample \in SUBSET Sessions  BY KeptType DEF TypeOK
      <4>3. r \in Request /\ r.sample = sample /\ r.op = "limits"  BY <4>1, <4>2 DEF Request
      <4>4. "probe" \in Steps /\ RequestOK("probe", r)  BY <3>3, <4>3 DEF Steps, RequestOK
      <4>5. Goto(c, "probe", r)  BY <3>1, <3>3
      <4> HIDE DEF r
      <4>6. QED  BY <4>3, <4>4, <4>5, GotoType DEF TypeOK
    <3>4. QED  BY <3>2, <3>3
  <2>3. QED  BY <2>1, <2>2
<1>4. QED  BY <1>1, <1>2, <1>3 DEF TypeOK

LEMMA ProbeSessionType ==
  ASSUME TypeOK, NEW c \in Clients, ProbeSession(c)
  PROVE  TypeOK'
<1>1. PICK s \in req[c].sample :
        Probe(c, s, [req[c] EXCEPT !.session = s, !.sample = @ \ {s}])
  BY DEF ProbeSession
<1> DEFINE r == [req[c] EXCEPT !.session = s, !.sample = @ \ {s}]
<1>2. req[c] \in Request /\ s \in Sessions /\ req[c].op = "limits"
  BY DEF TypeOK, ThreadOK, Request, RequestOK
<1>3. r \in Request /\ r.op = "limits" /\ r.session = s /\ r.sample = req[c].sample \ {s}
  BY <1>2 DEF Request
<1>4. Probe(c, s, r)  BY <1>1
<1> HIDE DEF r
<1>5. LimitsOK' /\ DiskOK' /\ ConnOK'
  BY <1>4 DEF Probe, TypeOK, LimitsOK, DiskOK, ConnOK, limits
<1>6. CASE /\ Region(c, Kept \cup {s}, KeptTables, KeptRows, {s}, Expired)
           /\ Goto(c, "connect", r)
  <2>1. LedgerOK' /\ RemovalsOK'  BY <1>2, <1>6, EnterType DEF TypeOK
  <2>2. "connect" \in Steps /\ RequestOK("connect", r)
    BY <1>2, <1>3 DEF Steps, RequestOK, AfterConnect
  <2>3. ThreadOK'  BY <1>3, <1>6, <2>2, GotoType DEF TypeOK
  <2>4. QED  BY <1>5, <2>1, <2>3 DEF TypeOK
<1>7. CASE PruneAndForget(c) /\ IF r.sample = {} THEN Return(c) ELSE Goto(c, "probe", r)
  <2>1. LedgerOK' /\ RemovalsOK'  BY <1>7, PruneAndForgetType DEF TypeOK
  <2>2. CASE r.sample = {}
    <3>1. ThreadOK'  BY <1>7, <2>2, ReturnType DEF TypeOK
    <3>2. QED  BY <1>5, <2>1, <3>1 DEF TypeOK
  <2>3. CASE r.sample # {}
    <3>1. "probe" \in Steps /\ RequestOK("probe", r)  BY <1>3, <2>3 DEF Steps, RequestOK
    <3>2. ThreadOK'  BY <1>3, <1>7, <2>3, <3>1, GotoType DEF TypeOK
    <3>3. QED  BY <1>5, <2>1, <3>2 DEF TypeOK
  <2>4. QED  BY <2>2, <2>3
<1>8. QED  BY <1>4, <1>6, <1>7 DEF Probe

LEMMA TickType ==
  ASSUME TypeOK, Tick
  PROVE  TypeOK'
<1>1. LimitsOK' /\ DiskOK' /\ ThreadOK' /\ RemovalsOK' /\ ConnOK'
  BY DEF Tick, TypeOK, LimitsOK, DiskOK, ThreadOK, RemovalsOK, ConnOK, limits, thread
<1>2. LedgerOK'  BY ConfigAssumption DEF Tick, TypeOK, LedgerOK, ConfigAssumption
<1>3. QED  BY <1>1, <1>2 DEF TypeOK

LEMMA InitThreadType ==
  /\ "idle" \in Steps /\ RequestOK("idle", NoRequest)
BY DEF Steps, RequestOK, NoRequest

LEMMA RestartType ==
  ASSUME TypeOK, Restart
  PROVE  TypeOK'
<1>1. LedgerOK' /\ LimitsOK' /\ RemovalsOK'
  BY ConfigAssumption DEF Restart, LedgerOK, LimitsOK, RemovalsOK, ConfigAssumption
<1>2. DiskOK'  BY EmptyDbType DEF Restart, TypeOK, DiskOK
<1>3. ThreadOK'  BY InitThreadType, NoRequestType DEF Restart, ThreadOK
<1>4. ConnOK'  BY NoConnectionType DEF Restart, ConnOK
<1>5. QED  BY <1>1, <1>2, <1>3, <1>4 DEF TypeOK

LEMMA InitType ==
  ASSUME Init
  PROVE  TypeOK
<1>1. LedgerOK /\ LimitsOK /\ RemovalsOK
  BY ConfigAssumption DEF Init, LedgerOK, LimitsOK, RemovalsOK, ConfigAssumption
<1>2. DiskOK  BY EmptyDbType DEF Init, DiskOK
<1>3. ThreadOK  BY InitThreadType, NoRequestType DEF Init, ThreadOK
<1>4. ConnOK  BY NoConnectionType DEF Init, ConnOK
<1>5. QED  BY <1>1, <1>2, <1>3, <1>4 DEF TypeOK

LEMMA CallType ==
  ASSUME TypeOK, NEW c \in Clients, Call(c)
  PROVE  TypeOK'
<1>1. CASE ListSessions(c)
  BY <1>1, PruneAndReturnType DEF ListSessions, thread
<1>2. CASE CleanupExpired(c)
  BY <1>2, PruneAndReturnType DEF CleanupExpired, thread
<1>3. CASE CountForSample(c)  BY <1>3, SampleType
<1>4. CASE \E m \in LimitValues : SetMaxSessionsLimit(c, m) \/ SetMaxTablesLimit(c, m)
  BY <1>4, SetLimitsType
<1>5. ASSUME NEW s \in Sessions, \E op \in {"open", "query"} : EnsureSession(c, op, s)
      PROVE TypeOK'
  BY <1>5, EnsureSessionType
<1>6. ASSUME NEW s \in Sessions, ReleaseSession(c, s)  PROVE TypeOK'
  BY <1>6, ReleaseSessionType
<1>7. ASSUME NEW s \in Sessions, ListTables(c, s)  PROVE TypeOK'
  <2>1. "list" \in AllOps  BY DEF AllOps
  <2>2. /\ Asks("list", s) \in Request
        /\ Asks("list", s).op = "list" /\ Asks("list", s).session = s
        /\ Asks("list", s).sample = {}
    BY <2>1, AsksType
  <2>3. QED  BY <1>7, <2>2, ExistingSessionType DEF ListTables
<1>8. ASSUME NEW s \in Sessions,
             NoteTableCreated(c, s) \/ \E n \in BatchSizes : NoteRowsIngested(c, s, n)
      PROVE TypeOK'
  BY <1>8, NoteUsageType
<1>9. ASSUME NEW s \in Sessions, NEW t \in Tables, NEW b \in BOOLEAN, DropTable(c, s, t, b)
      PROVE TypeOK'
  <2> DEFINE r == [AsksTable("drop", s, t) EXCEPT !.if_exists = b]
  <2>1. "drop" \in AllOps  BY DEF AllOps
  <2>2. r \in Request /\ r.op = "drop" /\ r.session = s /\ r.table = t /\ r.sample = {}
    BY <2>1, AsksTableType DEF Request
  <2>3. ExistingSession(c, r)  BY <1>9 DEF DropTable
  <2> HIDE DEF r
  <2>4. QED  BY <2>2, <2>3, ExistingSessionType
<1>10. ASSUME NEW s \in Sessions, NEW t \in Tables, NEW op \in {"create", "append"},
              NEW n \in BatchSizes, ReserveIngestCapacity(c, op, s, t, n)
       PROVE TypeOK'
  BY <1>10, ReserveIngestCapacityType
<1>11. QED  BY <1>1, <1>2, <1>3, <1>4, <1>5, <1>6, <1>7, <1>8, <1>9, <1>10 DEF Call

LEMMA ProceedType ==
  ASSUME TypeOK, NEW c \in Clients, Proceed(c)
  PROVE  TypeOK'
<1>1. CASE CleanupPath(c)  BY <1>1, CleanupPathType
<1>2. CASE OpenConnection(c)  BY <1>2, OpenConnectionType
<1>3. CASE ReadDatabase(c)  BY <1>3, EndReadType DEF ReadDatabase
<1>4. CASE SessionInfo(c)  BY <1>4, PruneAndReturnType DEF SessionInfo
<1>5. CASE PersistIngestTable(c)  BY <1>5, PersistIngestTableType
<1>6. CASE RollbackIngestCapacity(c)  BY <1>6, RollbackIngestCapacityType
<1>7. CASE InspectTable(c)  BY <1>7, InspectTableType
<1>8. CASE ExecuteDrop(c)  BY <1>8, ExecuteDropType
<1>9. CASE NoteTableDropped(c)  BY <1>9, NoteTableDroppedType
<1>10. CASE SessionSnapshot(c)  BY <1>10, PruneAndReturnType DEF SessionSnapshot
<1>11. CASE SetMaxTablesToo(c)  BY <1>11, SetLimitsType
<1>12. CASE CountAfterSet(c)  BY <1>12, PruneAndReturnType DEF CountAfterSet
<1>13. CASE SampleSessions(c)  BY <1>13, SampleType
<1>14. CASE ProbeSession(c)  BY <1>14, ProbeSessionType
<1>15. QED
  BY <1>1, <1>2, <1>3, <1>4, <1>5, <1>6, <1>7, <1>8, <1>9, <1>10, <1>11, <1>12, <1>13, <1>14
  DEF Proceed

LEMMA StutterType ==
  ASSUME TypeOK, UNCHANGED vars
  PROVE  TypeOK'
BY DEF TypeOK, LedgerOK, LimitsOK, DiskOK, ThreadOK, RemovalsOK, ConnOK, vars, ledger, limits,
       thread

LEMMA NextType ==
  ASSUME TypeOK, [Next]_vars
  PROVE  TypeOK'
BY TickType, RestartType, CallType, ProceedType, StutterType DEF Next

(* Whatever the clients do, fail at, and leave half done when the process    *)
(* dies: every entry of the session table, every request and every           *)
(* connection stays well-formed, and no usage is booked on an id without an  *)
(* entry.                                                                    *)
THEOREM TypeCorrect == Spec => []TypeOK
<1>1. Init => TypeOK  BY InitType
<1>2. TypeOK /\ [Next]_vars => TypeOK'  BY NextType
<1>3. QED  BY <1>1, <1>2, PTL DEF Spec

-----------------------------------------------------------------------------
(* What one step may do to the session table.                                *)

LedgerStep ==
  /\ \A s \in Sessions : rowsUsed'[s] <= rowsUsed[s] \/ rowsUsed'[s] <= MaxRows
  /\ \A s \in Sessions : tablesUsed'[s] <= tablesUsed[s] \/ tablesUsed'[s] <= maxTables
  /\ Admitted # {} => Cardinality(live') <= maxSessions
  /\ LeavesInTime

LEMMA SameLedgerStep ==
  ASSUME TypeOK, live' = live, tablesUsed' = tablesUsed, rowsUsed' = rowsUsed,
         age' \in [Sessions -> Nat], \A s \in live : age[s] >= TTL => age'[s] >= TTL
  PROVE  LedgerStep
<1>1. Admitted = {}
  <2>1. \A s \in live : age'[s] \in Nat  BY DEF TypeOK, LedgerOK
  <2>2. TTL \in Nat  BY ConfigAssumption DEF ConfigAssumption
  <2>3. \A s \in live : ~(age[s] >= TTL /\ age'[s] < TTL)  BY <2>1, <2>2
  <2>4. QED  BY <2>3 DEF Admitted
<1>2. tablesUsed \in [Sessions -> Nat] /\ rowsUsed \in [Sessions -> Nat]
  BY DEF TypeOK, LedgerOK
<1>3. QED  BY <1>1, <1>2 DEF LedgerStep, LeavesInTime

LEMMA OtherStep ==
  ASSUME TypeOK, UNCHANGED ledger
  PROVE  LedgerStep
<1>1. live' = live /\ tablesUsed' = tablesUsed /\ rowsUsed' = rowsUsed /\ age' = age
  BY DEF ledger
<1>2. age \in [Sessions -> Nat]
  BY ConfigAssumption DEF TypeOK, LedgerOK, ConfigAssumption
<1>3. QED  BY <1>1, <1>2, SameLedgerStep

(* A region admits at most the one session it has a slot for, and loses      *)
(* nothing it has not pruned but the session being released.                 *)
LEMMA RegionStep ==
  ASSUME TypeOK, NEW c \in Clients, NEW entries, NEW tabs, NEW rows, NEW touched, NEW removed,
         Region(c, entries, tabs, rows, touched, removed),
         \/ entries \subseteq Kept
         \/ \E s \in Sessions : HasSlot(s) /\ entries = Kept \cup {s},
         \A s \in Kept \ entries : ReleaseSession(c, s),
         \A s \in Sessions : tabs[s] <= tablesUsed[s] \/ tabs[s] <= maxTables,
         \A s \in Sessions : rows[s] <= rowsUsed[s] \/ rows[s] <= MaxRows
  PROVE  LedgerStep
<1>1. LedgerOK /\ LimitsOK  BY DEF TypeOK
<1>2. live' = entries /\ tablesUsed' = tabs /\ rowsUsed' = rows  BY DEF Region
<1>3. \A s \in live \ live' : age[s] >= TTL \/ \E d \in Clients : ReleaseSession(d, s)
  <2>1. SUFFICES ASSUME NEW s \in live \ live'
                 PROVE  age[s] >= TTL \/ \E d \in Clients : ReleaseSession(d, s)
    OBVIOUS
  <2>2. CASE s \in Kept  BY <1>2, <2>2
  <2>3. CASE s \notin Kept  BY <2>3 DEF Kept, Expired
  <2>4. QED  BY <2>2, <2>3
<1>4. Admitted # {} => Cardinality(live') <= maxSessions
  <2>1. CASE entries \subseteq Kept
    <3>1. \A s \in Kept : s \in live /\ ~(age[s] >= TTL)  BY DEF Kept, Expired
    <3>2. Admitted = {}  BY <1>2, <2>1, <3>1 DEF Admitted
    <3>3. QED  BY <3>2
  <2>2. ASSUME NEW s \in Sessions, HasSlot(s), entries = Kept \cup {s}, s \notin Kept
        PROVE  Cardinality(live') <= maxSessions
    <3>1. IsFiniteSet(Kept) /\ Cardinality(Kept) \in Nat  BY <1>1, KeptCardinality
    <3>2. Cardinality(Kept \cup {s}) = Cardinality(Kept) + 1
      BY <2>2, <3>1, FS_AddElement
    <3>3. Cardinality(Kept) < maxSessions  BY <2>2 DEF HasSlot
    <3>4. QED  BY <1>1, <1>2, <2>2, <3>1, <3>2, <3>3 DEF LimitsOK
  <2>3. QED  BY <2>1, <2>2
<1>5. QED  BY <1>2, <1>3, <1>4 DEF LedgerStep, LeavesInTime

LEMMA KeptUsage ==
  ASSUME TypeOK
  PROVE  \A s \in Sessions : KeptTables[s] <= tablesUsed[s] /\ KeptRows[s] <= rowsUsed[s]
BY DEF TypeOK, LedgerOK, KeptTables, KeptRows

LEMMA PruneStep ==
  ASSUME TypeOK, NEW c \in Clients,
         PruneAndForget(c) \/ \E touched : PruneOnly(c, touched)
  PROVE  LedgerStep
<1>1. CASE PruneAndForget(c)  BY <1>1, KeptUsage, RegionStep DEF PruneAndForget
<1>2. ASSUME NEW touched, PruneOnly(c, touched)  PROVE LedgerStep
  BY <1>2, KeptUsage, RegionStep DEF PruneOnly
<1>3. QED  BY <1>1, <1>2

LEMMA EnterStep ==
  ASSUME TypeOK, NEW c \in Clients, NEW s \in Sessions, NEW touched, HasSlot(s),
         Region(c, Kept \cup {s}, KeptTables, KeptRows, touched, Expired)
  PROVE  LedgerStep
BY KeptUsage, RegionStep

LEMMA ReleaseStep ==
  ASSUME TypeOK, NEW c \in Clients, NEW s \in Sessions, ReleaseSession(c, s)
  PROVE  LedgerStep
<1> DEFINE tabs == [KeptTables EXCEPT ![s] = 0]
           rows == [KeptRows EXCEPT ![s] = 0]
<1>1. tablesUsed \in [Sessions -> Nat] /\ rowsUsed \in [Sessions -> Nat]
  BY DEF TypeOK, LedgerOK
<1>2. KeptTables \in [Sessions -> Nat] /\ KeptRows \in [Sessions -> Nat]
  BY KeptType DEF TypeOK
<1>3. \A x \in Sessions : tabs[x] <= tablesUsed[x] /\ rows[x] <= rowsUsed[x]
  BY <1>1, <1>2, KeptUsage
<1>4. Region(c, Kept \ {s}, tabs, rows, {}, Expired \cup (Kept \cap {s}))
  BY DEF ReleaseSession
<1>5. \A x \in Kept \ (Kept \ {s}) : ReleaseSession(c, x)  OBVIOUS
<1>6. Kept \ {s} \subseteq Kept  OBVIOUS
<1> HIDE DEF tabs, rows
<1>7. QED  BY <1>3, <1>4, <1>5, <1>6, RegionStep

LEMMA ReserveStep ==
  ASSUME TypeOK, NEW c \in Clients, NEW op \in {"create", "append"}, NEW s \in Sessions,
         NEW t \in Tables, NEW n \in BatchSizes, ReserveIngestCapacity(c, op, s, t, n)
  PROVE  LedgerStep
<1> DEFINE tabs == [KeptTables EXCEPT ![s] = IF op = "create" THEN @ + 1 ELSE @]
           rows == [KeptRows EXCEPT ![s] = @ + n]
<1>1. CASE PruneAndForget(c) \/ PruneOnly(c, {})  BY <1>1, PruneStep
<1>2. CASE /\ s \in Kept /\ ~ExceedsTables(s, op) /\ ~ExceedsRows(s, n)
           /\ Region(c, Kept, tabs, rows, {s}, Expired)
  <2>1. n \in Nat /\ MaxRows \in Nat  BY ConfigAssumption DEF ConfigAssumption
  <2>2. /\ tablesUsed \in [Sessions -> Nat] /\ rowsUsed \in [Sessions -> Nat]
        /\ maxTables \in Nat
    BY DEF TypeOK, LedgerOK, LimitsOK
  <2>3. /\ KeptTables \in [Sessions -> Nat] /\ KeptRows \in [Sessions -> Nat]
        /\ KeptTables[s] = tablesUsed[s] /\ KeptRows[s] = rowsUsed[s]
    BY <1>2, KeptType DEF TypeOK
  <2>4. op = "create" => tablesUsed[s] + 1 <= maxTables
    BY <1>2, <2>2 DEF ExceedsTables
  <2>5. rowsUsed[s] + n <= MaxRows  BY <1>2, <2>1, <2>2 DEF ExceedsRows
  <2>6. \A x \in Sessions : tabs[x] <= tablesUsed[x] \/ tabs[x] <= maxTables
    BY <2>2, <2>3, <2>4, KeptUsage
  <2>7. \A x \in Sessions : rows[x] <= rowsUsed[x] \/ rows[x] <= MaxRows
    BY <2>1, <2>2, <2>3, <2>5, KeptUsage
  <2>8. Region(c, Kept, tabs, rows, {s}, Expired)  BY <1>2
  <2> HIDE DEF tabs, rows
  <2>9. QED  BY <2>6, <2>7, <2>8, RegionStep
<1>3. QED  BY <1>1, <1>2 DEF ReserveIngestCapacity

LEMMA RollbackStep ==
  ASSUME TypeOK, NEW c \in Clients, RollbackIngestCapacity(c)
  PROVE  LedgerStep
<1> DEFINE s == req[c].session
           refunded == Kept \cap {s}
           tabs == [x \in Sessions |-> IF x \in refunded /\ req[c].op = "create"
                                       THEN SaturatingSub(KeptTables[x], 1) ELSE KeptTables[x]]
           rows == [x \in Sessions |-> IF x \in refunded
                                       THEN SaturatingSub(KeptRows[x], req[c].rows)
                                       ELSE KeptRows[x]]
<1>1. req[c].rows \in Nat  BY DEF TypeOK, ThreadOK, Request
<1>2. /\ tablesUsed \in [Sessions -> Nat] /\ rowsUsed \in [Sessions -> Nat]
      /\ KeptTables \in [Sessions -> Nat] /\ KeptRows \in [Sessions -> Nat]
  BY KeptType DEF TypeOK, LedgerOK
<1>3. ASSUME NEW x \in Sessions
      PROVE  tabs[x] <= tablesUsed[x] /\ rows[x] <= rowsUsed[x]
  <2>1. tabs[x] \in {KeptTables[x], SaturatingSub(KeptTables[x], 1)}  OBVIOUS
  <2>2. rows[x] \in {KeptRows[x], SaturatingSub(KeptRows[x], req[c].rows)}  OBVIOUS
  <2> HIDE DEF tabs, rows
  <2>3. KeptTables[x] \in Nat /\ KeptTables[x] <= tablesUsed[x] /\ tablesUsed[x] \in Nat
    BY <1>2, KeptUsage
  <2>4. KeptRows[x] \in Nat /\ KeptRows[x] <= rowsUsed[x] /\ rowsUsed[x] \in Nat
    BY <1>2, KeptUsage
  <2>5. tabs[x] <= tablesUsed[x]  BY <2>1, <2>3 DEF SaturatingSub
  <2>6. rows[x] <= rowsUsed[x]  BY <1>1, <2>2, <2>4 DEF SaturatingSub
  <2>7. QED  BY <2>5, <2>6
<1>4. Region(c, Kept, tabs, rows, {s}, Expired)  BY DEF RollbackIngestCapacity
<1> HIDE DEF tabs, rows
<1>5. QED  BY <1>3, <1>4, RegionStep

LEMMA WithEntryStep ==
  ASSUME TypeOK, NEW c \in Clients, NEW s \in Sessions, NEW accepted, NEW tabs, NEW rows,
         WithEntry(c, s, accepted, tabs, rows),
         accepted => tabs <= tablesUsed[s] \/ tabs <= maxTables,
         accepted => rows <= rowsUsed[s] \/ rows <= MaxRows
  PROVE  LedgerStep
<1> DEFINE T == [KeptTables EXCEPT ![s] = tabs]
           R == [KeptRows EXCEPT ![s] = rows]
<1>1. CASE HasSlot(s) /\ accepted /\ Region(c, Kept \cup {s}, T, R, {s}, Expired)
  <2>1. KeptTables \in [Sessions -> Nat] /\ KeptRows \in [Sessions -> Nat]
    BY KeptType DEF TypeOK
  <2>2. \A x \in Sessions : T[x] <= tablesUsed[x] \/ T[x] <= maxTables
    BY <1>1, <2>1, KeptUsage
  <2>3. \A x \in Sessions : R[x] <= rowsUsed[x] \/ R[x] <= MaxRows
    BY <1>1, <2>1, KeptUsage
  <2>4. Region(c, Kept \cup {s}, T, R, {s}, Expired)  BY <1>1
  <2> HIDE DEF T, R
  <2>5. QED  BY <1>1, <2>2, <2>3, <2>4, RegionStep
<1>2. CASE HasSlot(s) /\ Region(c, Kept \cup {s}, KeptTables, KeptRows, {s} \ Kept, Expired)
  BY <1>2, EnterStep
<1>3. CASE PruneAndForget(c)  BY <1>3, PruneStep
<1>4. QED  BY <1>1, <1>2, <1>3 DEF WithEntry

LEMMA NoteStep ==
  ASSUME TypeOK, NEW c \in Clients,
         \/ NoteTableDropped(c)
         \/ \E s \in Sessions : \/ NoteTableCreated(c, s)
                                \/ \E n \in BatchSizes : NoteRowsIngested(c, s, n)
  PROVE  LedgerStep
<1>1. /\ tablesUsed \in [Sessions -> Nat] /\ rowsUsed \in [Sessions -> Nat]
      /\ KeptTables \in [Sessions -> Nat] /\ KeptRows \in [Sessions -> Nat]
      /\ maxTables \in Nat
  BY KeptType DEF TypeOK, LedgerOK, LimitsOK
<1>2. CASE NoteTableDropped(c)
  <2> DEFINE s == req[c].session
             tabs == SaturatingSub(KeptTables[s], 1)
             rows == SaturatingSub(KeptRows[s], req[c].rows)
  <2>1. req[c] \in Request /\ RequestOK("note", req[c])
    BY <1>2, AtStep DEF NoteTableDropped
  <2>2. s \in Sessions /\ req[c].rows \in Nat  BY <2>1 DEF RequestOK, Request
  <2>3. /\ KeptTables[s] \in Nat /\ KeptTables[s] <= tablesUsed[s] /\ tablesUsed[s] \in Nat
        /\ KeptRows[s] \in Nat /\ KeptRows[s] <= rowsUsed[s] /\ rowsUsed[s] \in Nat
    BY <1>1, <2>2, KeptUsage
  <2>4. tabs <= tablesUsed[s]  BY <2>3 DEF SaturatingSub
  <2>5. rows <= rowsUsed[s]  BY <2>2, <2>3 DEF SaturatingSub
  <2>6. WithEntry(c, s, TRUE, tabs, rows)  BY <1>2 DEF NoteTableDropped
  <2> HIDE DEF tabs, rows, s
  <2>7. QED  BY <2>2, <2>4, <2>5, <2>6, WithEntryStep
<1>3. ASSUME NEW s \in Sessions, NoteTableCreated(c, s)  PROVE LedgerStep
  <2>1. KeptTables[s] < maxTables => KeptTables[s] + 1 <= maxTables  BY <1>1
  <2>2. KeptRows[s] <= rowsUsed[s]  BY KeptUsage
  <2>3. QED  BY <1>3, <2>1, <2>2, WithEntryStep DEF NoteTableCreated
<1>4. ASSUME NEW s \in Sessions, NEW n \in BatchSizes, NoteRowsIngested(c, s, n)
      PROVE LedgerStep
  <2>1. KeptTables[s] <= tablesUsed[s]  BY KeptUsage
  <2>2. QED  BY <1>4, <2>1, WithEntryStep DEF NoteRowsIngested
<1>5. QED  BY <1>2, <1>3, <1>4

LEMMA TickStep ==
  ASSUME TypeOK, Tick
  PROVE  LedgerStep
<1>1. live' = live /\ tablesUsed' = tablesUsed /\ rowsUsed' = rowsUsed  BY DEF Tick
<1>2. age' \in [Sessions -> Nat]
  BY TickType, ConfigAssumption DEF TypeOK, LedgerOK, ConfigAssumption
<1>3. \A s \in live : age[s] >= TTL => age'[s] = age[s]
  BY ConfigAssumption DEF Tick, TypeOK, LedgerOK, ConfigAssumption
<1>4. QED  BY <1>1, <1>2, <1>3, SameLedgerStep

LEMMA RestartStep ==
  ASSUME TypeOK, Restart
  PROVE  LedgerStep
<1>1. live' = {}  BY DEF Restart
<1>2. Admitted = {}  BY <1>1 DEF Admitted
<1>3. \A s \in Sessions : tablesUsed'[s] <= tablesUsed[s] /\ rowsUsed'[s] <= rowsUsed[s]
  BY DEF Restart, TypeOK, LedgerOK
<1>4. QED  BY <1>2, <1>3 DEF LedgerStep, LeavesInTime

LEMMA CallStep ==
  ASSUME TypeOK, NEW c \in Clients, Call(c)
  PROVE  LedgerStep
<1>1. CASE ListSessions(c) \/ CleanupExpired(c) \/ CountForSample(c)
  BY <1>1, PruneStep DEF ListSessions, CleanupExpired, CountForSample
<1>2. CASE \E m \in LimitValues : SetMaxSessionsLimit(c, m) \/ SetMaxTablesLimit(c, m)
  BY <1>2, OtherStep DEF SetMaxSessionsLimit, SetMaxTablesLimit, StoreMaxTables
<1>3. ASSUME NEW s \in Sessions, \E op \in {"open", "query"} : EnsureSession(c, op, s)
      PROVE LedgerStep
  BY <1>3, EnterStep, PruneStep DEF EnsureSession
<1>4. ASSUME NEW s \in Sessions, ReleaseSession(c, s)  PROVE LedgerStep
  BY <1>4, ReleaseStep
<1>5. ASSUME NEW s \in Sessions,
             ListTables(c, s) \/ \E t \in Tables, b \in BOOLEAN : DropTable(c, s, t, b)
      PROVE LedgerStep
  BY <1>5, PruneStep DEF ListTables, DropTable, ExistingSession
<1>6. ASSUME NEW s \in Sessions,
             NoteTableCreated(c, s) \/ \E n \in BatchSizes : NoteRowsIngested(c, s, n)
      PROVE LedgerStep
  BY <1>6, NoteStep
<1>7. ASSUME NEW s \in Sessions, NEW t \in Tables, NEW op \in {"create", "append"},
             NEW n \in BatchSizes, ReserveIngestCapacity(c, op, s, t, n)
      PROVE LedgerStep
  BY <1>7, ReserveStep
<1>8. QED  BY <1>1, <1>2, <1>3, <1>4, <1>5, <1>6, <1>7 DEF Call

LEMMA ProceedStep ==
  ASSUME TypeOK, NEW c \in Clients, Proceed(c)
  PROVE  LedgerStep
<1>1. CASE \/ CleanupPath(c) \/ OpenConnection(c) \/ ReadDatabase(c)
           \/ PersistIngestTable(c) \/ InspectTable(c) \/ ExecuteDrop(c) \/ SetMaxTablesToo(c)
  BY <1>1, OtherStep
  DEF CleanupPath, OpenConnection, ReadDatabase, PersistIngestTable, PersistIngestFailingTo,
      InspectTable, ExecuteDrop, SetMaxTablesToo, StoreMaxTables
<1>2. CASE \/ SessionInfo(c) \/ SessionSnapshot(c) \/ CountAfterSet(c) \/ SampleSessions(c)
  BY <1>2, PruneStep DEF SessionInfo, SessionSnapshot, CountAfterSet, SampleSessions
<1>3. CASE RollbackIngestCapacity(c)  BY <1>3, RollbackStep
<1>4. CASE NoteTableDropped(c)  BY <1>4, NoteStep
<1>5. CASE ProbeSession(c)
  <2>1. PICK s \in req[c].sample : \E r : Probe(c, s, r)  BY <1>5 DEF ProbeSession
  <2>2. s \in Sessions  BY <2>1 DEF TypeOK, ThreadOK, Request
  <2>3. QED  BY <2>1, <2>2, EnterStep, PruneStep DEF Probe
<1>6. QED  BY <1>1, <1>2, <1>3, <1>4, <1>5 DEF Proceed

LEMMA EveryStep ==
  ASSUME TypeOK, [Next]_vars
  PROVE  LedgerStep
<1>1. CASE Tick  BY <1>1, TickStep
<1>2. CASE Restart  BY <1>2, RestartStep
<1>3. CASE \E c \in Clients : Call(c) \/ Proceed(c)  BY <1>3, CallStep, ProceedStep
<1>4. CASE UNCHANGED vars  BY <1>4, OtherStep DEF vars
<1>5. QED  BY <1>1, <1>2, <1>3, <1>4 DEF Next

-----------------------------------------------------------------------------
(* The quota and lifecycle guarantees, for every instance.                   *)

(* No interleaving of ingests, drops, refunds, expiries and restarts makes   *)
(* the row ledger of a session pass max_rows_per_session.                    *)
THEOREM RowLedgerBounded == Spec => []RowsWithinLimit
<1>1. Init => TypeOK /\ RowsWithinLimit
  BY InitType, ConfigAssumption DEF Init, RowsWithinLimit, ConfigAssumption
<1>2. TypeOK /\ RowsWithinLimit /\ [Next]_vars => TypeOK' /\ RowsWithinLimit'
  <2>1. SUFFICES ASSUME TypeOK, RowsWithinLimit, [Next]_vars
                 PROVE  TypeOK' /\ RowsWithinLimit'
    OBVIOUS
  <2>2. TypeOK'  BY <2>1, NextType
  <2>3. LedgerStep  BY <2>1, EveryStep
  <2>4. \A s \in Sessions : rowsUsed'[s] \in Nat /\ rowsUsed[s] \in Nat
    BY <2>1, <2>2 DEF TypeOK, LedgerOK
  <2>5. RowsWithinLimit'
    BY <2>1, <2>3, <2>4, ConfigAssumption DEF RowsWithinLimit, LedgerStep, ConfigAssumption
  <2>6. QED  BY <2>2, <2>5
<1>3. QED  BY <1>1, <1>2, PTL DEF Spec

(* A session is created only while fewer than the runtime limit are open,    *)
(* whichever handler creates it and however low the limit was set meanwhile. *)
THEOREM SessionsAdmitted == Spec => SessionAdmission
<1>1. TypeOK /\ [Next]_vars => (Admitted # {} => Cardinality(live') <= maxSessions)
  BY EveryStep DEF LedgerStep
<1>2. QED  BY <1>1, TypeCorrect, PTL DEF Spec, SessionAdmission

(* A table slot is taken only within the runtime limit of that moment.       *)
THEOREM TablesAdmitted == Spec => TableAdmission
<1>1. TypeOK /\ [Next]_vars =>
        \A s \in Sessions : tablesUsed'[s] > tablesUsed[s] => tablesUsed'[s] <= maxTables
  <2>1. SUFFICES ASSUME TypeOK, [Next]_vars, NEW s \in Sessions, tablesUsed'[s] > tablesUsed[s]
                 PROVE  tablesUsed'[s] <= maxTables
    OBVIOUS
  <2>2. tablesUsed'[s] \in Nat /\ tablesUsed[s] \in Nat
    BY <2>1, NextType DEF TypeOK, LedgerOK
  <2>3. QED  BY <2>1, <2>2, EveryStep DEF LedgerStep
<1>2. QED  BY <1>1, TypeCorrect, PTL DEF Spec, TableAdmission

(* A session leaves the table only by its own close, by its expiry, or with  *)
(* the process.                                                              *)
THEOREM NoSessionEvicted == Spec => NoEviction
<1>1. TypeOK /\ [Next]_vars => LeavesInTime  BY EveryStep DEF LedgerStep
<1>2. QED  BY <1>1, TypeCorrect, PTL DEF Spec, NoEviction
=============================================================================
