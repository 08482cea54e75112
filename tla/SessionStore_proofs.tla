--------------------------- MODULE SessionStore_proofs ---------------------------
(***************************************************************************)
(* Where nothing disturbs them, the ledger of ScratchpadSessions counts    *)
(* exactly what the databases hold, and the scratchpad implements          *)
(* SessionStore.                                                           *)
(*                                                                         *)
(* Neither holds of every instance: a drop or a close that interleaves     *)
(* with another request of its session, an expiry or a restart breaks      *)
(* them, as the violated runs show.  What is proved is that nothing else   *)
(* does.                                                                   *)
(***************************************************************************)
EXTENDS ScratchpadSessions_proofs, FiniteSums

-------------------------------------------------------------------------------
(* The instances.                                                            *)

Alone == \A c, d \in Clients : c = d

(* No session expires, the process lives on, and every request is a tool's.  *)
Undisturbed ==
  /\ ~ClockRuns /\ ~Restarts
  /\ Ops \cap {"note_created", "note_rows"} = {}
  /\ IsFiniteSet(Clients)

(* Requests come one at a time, or nobody closes a session or drops a table. *)
LedgerInstance == Undisturbed /\ (Alone \/ Ops \cap {"close", "drop"} = {})

(* Nor is a table limit lowered while a table is being created.              *)
LimitsStand == Alone \/ "set_limits" \notin Ops
StoreInstance == LedgerInstance /\ LimitsStand

-------------------------------------------------------------------------------
(* The inductive invariant.                                                  *)

(* What a request knows of the session it works on.                          *)
RequestInv(c) ==
  LET r == req[c] IN
  /\ r.op \in Ops \cup {"none"}
  /\ pc[c] \in {"write", "refund"} => r.op \in {"create", "append"}
  /\ pc[c] \in {"inspect", "dropping", "note", "snapshot"} => r.op = "drop"
  /\ pc[c] \in {"connect", "write", "refund", "inspect", "dropping", "note"}
       /\ r.op \in {"create", "append", "drop"} => r.session \in live
  /\ pc[c] \in {"connect", "write"} /\ r.op \in {"create", "append"} => r.rows \in BatchSizes
  /\ pc[c] = "set_tables" => r.op = "set_limits" /\ r.rows \in LimitValues
  /\ pc[c] = "dropping" => /\ r.table \in DOMAIN disk[r.session]
                           /\ r.rows = disk[r.session][r.table]

(* A connection lasts as long as the statements it was opened for, and the   *)
(* files of a closed session go before its client asks for anything else.    *)
FilesInv(c) ==
  /\ conn[c].kind # "orphan"
  /\ conn[c].kind = "linked" => pc[c] \in {"read", "write", "inspect", "dropping"}
  /\ removals[c] \cap live = {}
  /\ removals[c] # {} => pc[c] = "idle" /\ "close" \in Ops

(* A table that was admitted fits under the limit until it is there.         *)
RoomInv(c) ==
  LimitsStand /\ pc[c] \in {"connect", "write"} /\ req[c].op = "create"
    => tablesUsed[req[c].session] <= maxTables

ClientInv(c) == RequestInv(c) /\ FilesInv(c) /\ RoomInv(c)

Pending(s) == \E c \in Clients : s \in removals[c]

(* The ledger, the database and the requests under way, of one session.      *)
Exact(s) ==
  /\ rowsUsed[s] = StoredRows(s) + RowsInFlight(s)
  /\ tablesUsed[s] = Cardinality(DOMAIN disk[s]) + TablesInFlight(s)

(* A file that could not be removed is known: nothing is said of the ledger  *)
(* of a session opened over it.                                              *)
SessionInv(s) ==
  /\ age[s] = 0
  /\ IsFiniteSet(DOMAIN disk[s])
  /\ s \notin live => disk[s] = EmptyDb \/ Pending(s) \/ s \in unremoved
  /\ Pending(s) \/ s \in unremoved \/ Exact(s)

StoreInv == (\A c \in Clients : ClientInv(c)) /\ (\A s \in Sessions : SessionInv(s))

-------------------------------------------------------------------------------
(* Nothing is ever old enough to be pruned, and no file waits to be removed  *)
(* while a request runs.                                                     *)

LEMMA NothingExpired ==
  ASSUME TypeOK, StoreInv
  PROVE  Expired = {} /\ Kept = live /\ KeptTables = tablesUsed /\ KeptRows = rowsUsed
<1>1. \A s \in Sessions : age[s] = 0
  BY DEF StoreInv, SessionInv
<1>2. TTL \in Nat /\ TTL > 0
  BY ConfigAssumption DEF ConfigAssumption
<1>3. Expired = {} /\ Kept = live
  BY <1>1, <1>2 DEF Expired, Kept, TypeOK, LedgerOK
<1>4. KeptTables = tablesUsed /\ KeptRows = rowsUsed
  <2>1. /\ KeptTables \in [Sessions -> Nat] /\ KeptRows \in [Sessions -> Nat]
        /\ tablesUsed \in [Sessions -> Nat] /\ rowsUsed \in [Sessions -> Nat]
    BY KeptType DEF TypeOK, LedgerOK
  <2>2. \A s \in Sessions : KeptTables[s] = tablesUsed[s] /\ KeptRows[s] = rowsUsed[s]
    BY <1>3, KeptType DEF TypeOK, LedgerOK
  <2> QED
    BY <2>1, <2>2
<1> QED
  BY <1>3, <1>4

LEMMA NothingPending ==
  ASSUME LedgerInstance, StoreInv, NEW c \in Clients, removals[c] = {}
  PROVE  /\ \A d \in Clients : removals[d] = {}
         /\ \A s \in Sessions : ~Pending(s)
         /\ \A s \in Sessions \ unremoved : Exact(s)
         /\ \A s \in Sessions \ (live \cup unremoved) : disk[s] = EmptyDb
<1>1. ASSUME NEW d \in Clients
      PROVE  removals[d] = {}
  <2>1. CASE Alone
    BY <2>1 DEF Alone
  <2>2. CASE ~Alone
    BY <2>2 DEF LedgerInstance, StoreInv, ClientInv, FilesInv
  <2> QED
    BY <2>1, <2>2
<1>2. \A s \in Sessions : ~Pending(s)
  BY <1>1 DEF Pending
<1> QED
  BY <1>1, <1>2 DEF StoreInv, SessionInv

-------------------------------------------------------------------------------
(* The requests a step does not belong to.                                   *)

Frame(c) ==
  \A d \in Clients \ {c} :
    pc'[d] = pc[d] /\ req'[d] = req[d] /\ conn'[d] = conn[d] /\ removals'[d] = removals[d]

(* Where another request is under way, nobody closes or drops.               *)
LEMMA OthersKeep ==
  ASSUME LedgerInstance, TypeOK, TypeOK', StoreInv, NEW c \in Clients, NEW d \in Clients \ {c},
         Frame(c),
         live \subseteq live' \/ "close" \in Ops,
         maxTables' = maxTables \/ "set_limits" \in Ops,
         \A s \in Sessions : tablesUsed'[s] <= tablesUsed[s] \/ tablesUsed'[s] <= maxTables
  PROVE  ClientInv(d)'
<1>1. ~Alone /\ "close" \notin Ops /\ "drop" \notin Ops
  BY DEF Alone, LedgerInstance
<1>2. ClientInv(d)
  BY DEF StoreInv
<1>3. pc'[d] = pc[d] /\ req'[d] = req[d] /\ conn'[d] = conn[d] /\ removals'[d] = removals[d]
  BY DEF Frame
<1>4. req[d].op # "drop"
  <2>1. "none" # "drop"
    OBVIOUS
  <2> QED
    BY <1>1, <1>2, <2>1 DEF ClientInv, RequestInv
<1>5. RequestInv(d)'
  BY <1>1, <1>2, <1>3, <1>4 DEF ClientInv, RequestInv
<1>6. FilesInv(d)'
  BY <1>1, <1>2, <1>3 DEF ClientInv, FilesInv
<1>7. RoomInv(d)'
  <2>1. SUFFICES ASSUME LimitsStand, pc[d] \in {"connect", "write"}, req[d].op = "create"
                 PROVE  tablesUsed'[req[d].session] <= maxTables'
    BY <1>3 DEF RoomInv, LimitsStand, Alone
  <2>2. maxTables' = maxTables
    BY <1>1, <2>1 DEF LimitsStand
  <2>3. req[d].session \in Sessions
    BY <2>1 DEF TypeOK, ThreadOK, RequestOK
  <2>4. tablesUsed[req[d].session] <= maxTables
    BY <1>2, <2>1 DEF ClientInv, RoomInv
  <2>5. tablesUsed[req[d].session] \in Nat /\ tablesUsed'[req[d].session] \in Nat /\ maxTables \in Nat
    BY <2>3 DEF TypeOK, LedgerOK, LimitsOK
  <2> QED
    BY <2>2, <2>3, <2>4, <2>5
<1> QED
  BY <1>5, <1>6, <1>7 DEF ClientInv

-------------------------------------------------------------------------------
(* The quota one request holds, and what the others hold.                    *)

Holds(c) ==
  \/ pc[c] \in {"connect", "write", "refund"} /\ req[c].op \in {"create", "append"}
  \/ pc[c] = "note"
HoldsTable(c) == Holds(c) /\ (req[c].op = "create" \/ pc[c] = "note")

OwnRows(c, s) == IF Holds(c) /\ req[c].session = s THEN req[c].rows ELSE 0
OwnTables(c, s) == IF HoldsTable(c) /\ req[c].session = s THEN 1 ELSE 0

Holders(s) == {c \in Clients : Holds(c) /\ req[c].session = s}
TableHolders(s) == {c \in Clients : HoldsTable(c) /\ req[c].session = s}
RequestRows == [c \in Clients |-> req[c].rows]
OtherRows(c, s) == SumFunctionOnSet(RequestRows, Holders(s) \ {c})
OtherTables(c, s) == Cardinality(TableHolders(s) \ {c})

LEMMA InFlight ==
  ASSUME NEW s
  PROVE  /\ RowsInFlight(s) = SumFunctionOnSet(RequestRows, Holders(s))
         /\ TablesInFlight(s) = Cardinality(TableHolders(s))
<1>1. \A c \in Clients :
        (Ingesting(c, s) \/ Reclaiming(c, s)) <=> (Holds(c) /\ req[c].session = s)
  BY DEF Ingesting, Reclaiming, Holds
<1>2. \A c \in Clients :
        ((Ingesting(c, s) /\ req[c].op = "create") \/ Reclaiming(c, s))
          <=> (HoldsTable(c) /\ req[c].session = s)
  BY DEF Ingesting, Reclaiming, Holds, HoldsTable
<1>3. Holders(s) = {c \in Clients : Ingesting(c, s) \/ Reclaiming(c, s)}
  BY <1>1 DEF Holders
<1>4. TableHolders(s)
        = {c \in Clients : (Ingesting(c, s) /\ req[c].op = "create") \/ Reclaiming(c, s)}
  BY <1>2 DEF TableHolders
<1> QED
  BY <1>3, <1>4, Zenon DEF RowsInFlight, TablesInFlight, RequestRows

StoredTables(s) == Cardinality(DOMAIN disk[s])

(* Lemmas that both ends of a step are asked about are implications, which   *)
(* hold of the next state as well.                                           *)
StoredCounts ==
  \A s \in Sessions : IsFiniteSet(DOMAIN disk[s])
                         => StoredRows(s) \in Nat /\ StoredTables(s) \in Nat

LEMMA StoredType == TypeOK => StoredCounts
<1> SUFFICES ASSUME TypeOK, NEW s \in Sessions, IsFiniteSet(DOMAIN disk[s])
             PROVE  StoredRows(s) \in Nat /\ StoredTables(s) \in Nat
  BY DEF StoredCounts
<1>1. \A t \in DOMAIN disk[s] : disk[s][t] \in Nat
  BY DatabaseShape DEF TypeOK, DiskOK
<1>2. StoredTables(s) \in Nat
  BY FS_CardinalityType DEF StoredTables
<1>3. StoredRows(s) \in Nat
  BY <1>1, SumType DEF StoredRows, SumFunction
<1> QED
  BY <1>2, <1>3

Split(c, s) ==
  /\ RowsInFlight(s) = OwnRows(c, s) + OtherRows(c, s)
  /\ TablesInFlight(s) = OwnTables(c, s) + OtherTables(c, s)
  /\ OwnRows(c, s) \in Nat /\ OtherRows(c, s) \in Nat
  /\ OwnTables(c, s) \in Nat /\ OtherTables(c, s) \in Nat

SplitCounts == IsFiniteSet(Clients) => \A c \in Clients, s \in Sessions : Split(c, s)

LEMMA SplitInFlight == TypeOK => SplitCounts
<1> SUFFICES ASSUME TypeOK, IsFiniteSet(Clients), NEW c \in Clients, NEW s \in Sessions
             PROVE  Split(c, s)
  BY DEF SplitCounts
<1> DEFINE H == Holders(s)
           T == TableHolders(s)
<1>1. IsFiniteSet(H) /\ IsFiniteSet(T) /\ IsFiniteSet(H \ {c}) /\ IsFiniteSet(T \ {c})
  BY FS_Subset DEF Holders, TableHolders
<1>2. \A d \in Clients : req[d].rows \in Nat /\ RequestRows[d] = req[d].rows
  BY DEF TypeOK, ThreadOK, Request, RequestRows
<1>3. \A d \in H : RequestRows[d] \in Nat
  BY <1>2 DEF Holders
<1>4. OtherRows(c, s) \in Nat /\ OtherTables(c, s) \in Nat
  <2>1. SumFunctionOnSet(RequestRows, H \ {c}) \in Nat
    BY <1>1, <1>3, SumType
  <2> QED
    BY <1>1, <2>1, FS_CardinalityType DEF OtherRows, OtherTables
<1>5. OwnRows(c, s) \in Nat /\ OwnTables(c, s) \in Nat
  BY <1>2 DEF OwnRows, OwnTables
<1>6. RowsInFlight(s) = OwnRows(c, s) + OtherRows(c, s)
  <2>1. CASE c \in H
    <3>1. SumFunctionOnSet(RequestRows, H) = RequestRows[c] + SumFunctionOnSet(RequestRows, H \ {c})
      BY <1>1, <1>3, <2>1, SumRemove
    <3>2. OwnRows(c, s) = RequestRows[c]
      BY <1>2, <2>1 DEF OwnRows, Holders
    <3> QED
      BY <3>1, <3>2, InFlight DEF OtherRows
  <2>2. CASE c \notin H
    <3>1. H \ {c} = H
      BY <2>2
    <3>2. OwnRows(c, s) = 0
      BY <2>2 DEF OwnRows, Holders
    <3>3. OtherRows(c, s) = RowsInFlight(s)
      BY <3>1, InFlight DEF OtherRows
    <3> QED
      BY <1>4, <3>2, <3>3
  <2> QED
    BY <2>1, <2>2
<1>7. TablesInFlight(s) = OwnTables(c, s) + OtherTables(c, s)
  <2>1. Cardinality(T \ {c}) = IF c \in T THEN Cardinality(T) - 1 ELSE Cardinality(T)
    BY <1>1, FS_RemoveElement
  <2>2. Cardinality(T) \in Nat
    BY <1>1, FS_CardinalityType
  <2>3. OwnTables(c, s) = IF c \in T THEN 1 ELSE 0
    BY DEF OwnTables, TableHolders
  <2> QED
    BY <2>1, <2>2, <2>3, InFlight DEF OtherTables
<1> QED
  BY <1>4, <1>5, <1>6, <1>7 DEF Split

(* A step of one request leaves what the others hold.                        *)
LEMMA OthersHold ==
  ASSUME IsFiniteSet(Clients), NEW c \in Clients, NEW s, Frame(c)
  PROVE  OtherRows(c, s)' = OtherRows(c, s) /\ OtherTables(c, s)' = OtherTables(c, s)
<1>1. \A d \in Clients \ {c} :
        (Holds(d)' <=> Holds(d)) /\ (HoldsTable(d)' <=> HoldsTable(d)) /\ req'[d] = req[d]
  BY DEF Frame, Holds, HoldsTable
<1>2. (Holders(s) \ {c})' = Holders(s) \ {c} /\ (TableHolders(s) \ {c})' = TableHolders(s) \ {c}
  BY <1>1 DEF Holders, TableHolders
<1>3. \A d \in Holders(s) \ {c} : RequestRows'[d] = RequestRows[d]
  BY <1>1 DEF Holders, RequestRows
<1>4. IsFiniteSet(Holders(s) \ {c})
  BY FS_Subset DEF Holders
<1>5. SumFunctionOnSet(RequestRows', Holders(s) \ {c}) = SumFunctionOnSet(RequestRows, Holders(s) \ {c})
  BY <1>3, <1>4, SumSame
<1> QED
  BY <1>2, <1>5 DEF OtherRows, OtherTables

LEMMA NextCounts == TypeOK' => StoredCounts' /\ SplitCounts'
BY StoredType, SplitInFlight, PTL

(* What a request books, it holds or the database holds.                     *)
LEMMA Balance ==
  ASSUME TypeOK, TypeOK', IsFiniteSet(Clients), NEW c \in Clients, NEW s \in Sessions, Frame(c),
         IsFiniteSet(DOMAIN disk[s]), IsFiniteSet(DOMAIN disk'[s]), Exact(s),
         rowsUsed'[s] + StoredRows(s) + OwnRows(c, s)
           = rowsUsed[s] + StoredRows(s)' + OwnRows(c, s)',
         tablesUsed'[s] + StoredTables(s) + OwnTables(c, s)
           = tablesUsed[s] + StoredTables(s)' + OwnTables(c, s)'
  PROVE  Exact(s)'
<1>1. Split(c, s)
  BY SplitInFlight DEF SplitCounts
<1>2. Split(c, s)'
  BY NextCounts DEF SplitCounts
<1>3. OtherRows(c, s)' = OtherRows(c, s) /\ OtherTables(c, s)' = OtherTables(c, s)
  BY OthersHold
<1>4. /\ StoredRows(s) \in Nat /\ StoredTables(s) \in Nat
      /\ StoredRows(s)' \in Nat /\ StoredTables(s)' \in Nat
  BY StoredType, NextCounts DEF StoredCounts
<1>5. /\ rowsUsed[s] \in Nat /\ rowsUsed'[s] \in Nat
      /\ tablesUsed[s] \in Nat /\ tablesUsed'[s] \in Nat
  BY DEF TypeOK, LedgerOK
<1>6. rowsUsed[s] = StoredRows(s) + RowsInFlight(s)
      /\ tablesUsed[s] = StoredTables(s) + TablesInFlight(s)
  BY DEF Exact, StoredTables
<1>7. rowsUsed'[s] = StoredRows(s)' + RowsInFlight(s)'
  <2>1. /\ RowsInFlight(s) = OwnRows(c, s) + OtherRows(c, s)
        /\ RowsInFlight(s)' = OwnRows(c, s)' + OtherRows(c, s)'
        /\ OwnRows(c, s) \in Nat /\ OwnRows(c, s)' \in Nat /\ OtherRows(c, s) \in Nat
    BY <1>1, <1>2 DEF Split
  <2> QED
    BY <1>3, <1>4, <1>5, <1>6, <2>1
<1>8. tablesUsed'[s] = StoredTables(s)' + TablesInFlight(s)'
  <2>1. /\ TablesInFlight(s) = OwnTables(c, s) + OtherTables(c, s)
        /\ TablesInFlight(s)' = OwnTables(c, s)' + OtherTables(c, s)'
        /\ OwnTables(c, s) \in Nat /\ OwnTables(c, s)' \in Nat /\ OtherTables(c, s) \in Nat
    BY <1>1, <1>2 DEF Split
  <2> QED
    BY <1>3, <1>4, <1>5, <1>6, <2>1
<1> QED
  BY <1>7, <1>8 DEF Exact, StoredTables

-------------------------------------------------------------------------------
(* Steps that move a request on and leave the databases and their ledger.    *)

(* The session a step may enter has a slot.                                  *)
Enters ==
  /\ UNCHANGED limits
  /\ \/ live' = live
     \/ \E s \in Sessions \ live : live' = live \cup {s} /\ Cardinality(live) < maxSessions

StoresLimits ==
  /\ "set_limits" \in Ops
  /\ live' = live
  /\ maxSessions' \in (LimitValues \ {0}) \cup {maxSessions}
  /\ maxTables' \in (LimitValues \ {0}) \cup {maxTables}

LedgerStands ==
  /\ Enters \/ StoresLimits
  /\ UNCHANGED <<tablesUsed, rowsUsed, disk, unremoved, removals>>
  /\ \A s \in Sessions : age'[s] = 0

Steady(c) ==
  /\ Frame(c) /\ LedgerStands
  /\ \A s \in Sessions : OwnRows(c, s)' = OwnRows(c, s) /\ OwnTables(c, s)' = OwnTables(c, s)

LEMMA SteadyKeeps ==
  ASSUME LedgerInstance, TypeOK, TypeOK', StoreInv, NEW c \in Clients, Steady(c), ClientInv(c)'
  PROVE  StoreInv'
<1>1. /\ Frame(c) /\ UNCHANGED <<tablesUsed, rowsUsed, disk, unremoved, removals>>
      /\ live \subseteq live'
      /\ maxTables' = maxTables \/ "set_limits" \in Ops
  BY DEF Steady, LedgerStands, Enters, StoresLimits, limits
<1>2. \A s \in Sessions : tablesUsed'[s] <= tablesUsed[s]
  BY <1>1 DEF TypeOK, LedgerOK
<1>3. ASSUME NEW d \in Clients
      PROVE  ClientInv(d)'
  <2>1. CASE d = c
    BY <2>1
  <2>2. CASE d # c
    BY <1>1, <1>2, <2>2, OthersKeep
  <2> QED
    BY <2>1, <2>2
<1>4. ASSUME NEW s \in Sessions
      PROVE  SessionInv(s)'
  <2>1. SessionInv(s) /\ age'[s] = 0
    BY DEF StoreInv, Steady, LedgerStands
  <2>2. Pending(s)' <=> Pending(s)
    BY <1>1 DEF Pending
  <2>3. ASSUME Exact(s)
        PROVE  Exact(s)'
    <3>1. /\ OwnRows(c, s)' = OwnRows(c, s) /\ OwnTables(c, s)' = OwnTables(c, s)
          /\ StoredRows(s)' = StoredRows(s) /\ StoredTables(s)' = StoredTables(s)
      BY <1>1 DEF Steady, StoredRows, StoredTables
    <3>2. IsFiniteSet(DOMAIN disk[s]) /\ IsFiniteSet(DOMAIN disk'[s]) /\ IsFiniteSet(Clients)
      BY <1>1, <2>1 DEF SessionInv, LedgerInstance, Undisturbed
    <3> QED
      BY <1>1, <2>3, <3>1, <3>2, Balance
  <2> QED
    BY <1>1, <2>1, <2>2, <2>3 DEF SessionInv
<1> QED
  BY <1>3, <1>4 DEF StoreInv

-------------------------------------------------------------------------------
(* A request that holds no quota goes on to a step that holds none.          *)

Plain(step, r) ==
  /\ r.op \in Ops \cup {"none"}
  /\ step \notin {"write", "refund", "note"}
  /\ step = "connect" => r.op \notin {"create", "append"}
  /\ step \in {"inspect", "dropping", "snapshot"} => r.op = "drop"
  /\ step \in {"connect", "inspect", "dropping"} /\ r.op = "drop" => r.session \in live
  /\ step = "set_tables" => r.op = "set_limits" /\ r.rows \in LimitValues
  /\ step = "dropping" => r.table \in DOMAIN disk[r.session] /\ r.rows = disk[r.session][r.table]

Connects(c, step) ==
  /\ \A d \in Clients \ {c} : conn'[d] = conn[d]
  /\ conn'[c].kind # "orphan"
  /\ conn'[c].kind = "linked" => step \in {"read", "write", "inspect", "dropping"}

LEMMA GotoFrame ==
  ASSUME TypeOK, NEW c \in Clients, NEW step, NEW r, Goto(c, step, r), Connects(c, step),
         UNCHANGED removals
  PROVE  Frame(c) /\ pc'[c] = step /\ req'[c] = r
BY DEF TypeOK, ThreadOK, Goto, Connects, Frame

LEMMA PlainStep ==
  ASSUME LedgerInstance, TypeOK, TypeOK', StoreInv, NEW c \in Clients, removals[c] = {}, ~Holds(c),
         NEW step, NEW r, Goto(c, step, r), Plain(step, r), Connects(c, step), LedgerStands
  PROVE  StoreInv' /\ Steady(c)
<1>1. Frame(c) /\ pc'[c] = step /\ req'[c] = r
  BY GotoFrame DEF LedgerStands
<1>2. ~Holds(c)'
  BY <1>1 DEF Holds, Plain
<1>3. Steady(c)
  BY <1>1, <1>2 DEF Steady, OwnRows, OwnTables, HoldsTable
<1>4. RequestInv(c)'
  BY <1>1 DEF RequestInv, Plain, LedgerStands, Enters, StoresLimits
<1>5. FilesInv(c)'
  BY <1>1 DEF FilesInv, Connects, LedgerStands
<1>6. RoomInv(c)'
  BY <1>1 DEF RoomInv, Plain
<1>7. StoreInv'
  BY <1>3, <1>4, <1>5, <1>6, SteadyKeeps DEF ClientInv
<1> QED
  BY <1>3, <1>7

(* It may also stay where it was: idle, or refused.                          *)
LEMMA StaysIdle ==
  ASSUME LedgerInstance, TypeOK, TypeOK', StoreInv, NEW c \in Clients, At(c, "idle"),
         UNCHANGED thread, LedgerStands
  PROVE  StoreInv' /\ Steady(c)
<1>1. Goto(c, "idle", req[c])
  BY DEF Goto, At, thread, TypeOK, ThreadOK
<1>2. ClientInv(c)
  BY DEF StoreInv
<1>3. Plain("idle", req[c]) /\ Connects(c, "idle") /\ ~Holds(c)
  BY <1>2 DEF Plain, Connects, Holds, ClientInv, RequestInv, FilesInv, At, thread
<1> QED
  BY <1>1, <1>3, PlainStep DEF At

(* And end.                                                                  *)
LEMMA Returns ==
  ASSUME LedgerInstance, TypeOK, TypeOK', StoreInv, NEW c \in Clients, removals[c] = {}, ~Holds(c),
         Return(c), Connects(c, "idle"), LedgerStands
  PROVE  StoreInv' /\ Steady(c)
<1>1. Plain("idle", NoRequest)
  BY DEF Plain, NoRequest
<1> QED
  BY <1>1, PlainStep DEF Return

(* A step that opens no connection keeps the one it has, if any.             *)
LEMMA KeepsConnection ==
  ASSUME StoreInv, NEW c \in Clients, UNCHANGED conn,
         NEW step, step = pc[c] \/ pc[c] \notin {"read", "write", "inspect", "dropping"}
  PROVE  Connects(c, step)
BY DEF Connects, StoreInv, ClientInv, FilesInv

LEMMA DropsConnection ==
  ASSUME TypeOK, NEW c \in Clients, NEW step, conn' = [conn EXCEPT ![c] = NoConnection]
  PROVE  Connects(c, step)
BY DEF Connects, NoConnection, TypeOK, ConnOK

-------------------------------------------------------------------------------
(* Locked regions that book nothing.                                         *)

LEMMA PruneStands ==
  ASSUME TypeOK, StoreInv, NEW c \in Clients, removals[c] = {}, UNCHANGED <<disk, unremoved, limits>>,
         PruneAndForget(c) \/ \E touched : PruneOnly(c, touched)
  PROVE  LedgerStands
<1>1. PICK touched : Region(c, live, tablesUsed, rowsUsed, touched, {})
  BY NothingExpired DEF PruneAndForget, PruneOnly
<1>2. \A s \in Sessions : age[s] = 0
  BY DEF StoreInv, SessionInv
<1>3. \A s \in Sessions : age'[s] = 0
  BY <1>1, <1>2 DEF Region
<1>4. removals' = removals
  BY <1>1 DEF Region, TypeOK, RemovalsOK
<1> QED
  BY <1>1, <1>3, <1>4 DEF Region, LedgerStands, Enters

LEMMA EnterStands ==
  ASSUME TypeOK, StoreInv, NEW c \in Clients, removals[c] = {}, UNCHANGED <<disk, unremoved, limits>>,
         NEW s \in Sessions, HasSlot(s),
         NEW touched, Region(c, Kept \cup {s}, KeptTables, KeptRows, touched, Expired)
  PROVE  LedgerStands
<1>1. Region(c, live \cup {s}, tablesUsed, rowsUsed, touched, {})
  BY NothingExpired
<1>2. \A x \in Sessions : age[x] = 0
  BY DEF StoreInv, SessionInv
<1>3. \A x \in Sessions : age'[x] = 0
  BY <1>1, <1>2 DEF Region
<1>4. removals' = removals
  BY <1>1 DEF Region, TypeOK, RemovalsOK
<1>5. s \in live \/ Cardinality(live) < maxSessions
  BY NothingExpired DEF HasSlot
<1>6. Enters
  BY <1>1, <1>5 DEF Region, Enters
<1> QED
  BY <1>1, <1>3, <1>4, <1>6 DEF Region, LedgerStands

-------------------------------------------------------------------------------
(* The actions that book nothing, one by one.                                *)

LEMMA EnsureSessionKeeps ==
  ASSUME LedgerInstance, TypeOK, TypeOK', StoreInv, NEW c \in Clients, NEW s \in Sessions,
         NEW op \in {"open", "query"}, EnsureSession(c, op, s)
  PROVE  StoreInv' /\ Steady(c)
<1>1. At(c, "idle") /\ op \in Ops /\ removals[c] = {} /\ ~Holds(c) /\ UNCHANGED <<disk, unremoved, limits, conn>>
  BY DEF EnsureSession, Calls, At, Holds
<1>2. ASSUME HasSlot(s), Region(c, Kept \cup {s}, KeptTables, KeptRows, {s}, Expired),
             Goto(c, "connect", Asks(op, s))
      PROVE  StoreInv' /\ Steady(c)
  <2>1. LedgerStands
    BY <1>1, <1>2, EnterStands
  <2>2. Asks(op, s).op = op
    BY DEF Asks, NoRequest
  <2>3. Plain("connect", Asks(op, s))
    BY <1>1, <2>2 DEF Plain
  <2>4. Connects(c, "connect")
    BY <1>1, KeepsConnection DEF At
  <2> QED
    BY <1>1, <1>2, <2>1, <2>3, <2>4, PlainStep
<1>3. ASSUME PruneAndForget(c), UNCHANGED <<pc, req>>
      PROVE  StoreInv' /\ Steady(c)
  BY <1>1, <1>3, PruneStands, StaysIdle DEF thread
<1> QED
  BY <1>2, <1>3 DEF EnsureSession

(* list_sessions and cleanup_expired leave their client idle.                *)
LEMMA PruneKeeps ==
  ASSUME LedgerInstance, TypeOK, TypeOK', StoreInv, NEW c \in Clients,
         ListSessions(c) \/ CleanupExpired(c)
  PROVE  StoreInv' /\ Steady(c)
<1>1. At(c, "idle") /\ removals[c] = {} /\ UNCHANGED <<disk, unremoved, limits, thread>>
  BY DEF ListSessions, CleanupExpired, Calls, At
<1>2. LedgerStands
  BY <1>1, PruneStands DEF ListSessions, CleanupExpired
<1> QED
  BY <1>1, <1>2, StaysIdle

(* The regions a request ends with.                                          *)
LEMMA LastRegionKeeps ==
  ASSUME LedgerInstance, TypeOK, TypeOK', StoreInv, NEW c \in Clients,
         SessionInfo(c) \/ SessionSnapshot(c) \/ CountAfterSet(c)
  PROVE  StoreInv' /\ Steady(c)
<1>1. /\ pc[c] \in {"info", "snapshot", "count"} /\ removals[c] = {} /\ ~Holds(c)
      /\ Return(c) /\ UNCHANGED <<disk, unremoved, limits, conn>>
  BY DEF SessionInfo, SessionSnapshot, CountAfterSet, At, Holds
<1>2. LedgerStands
  BY <1>1, PruneStands DEF SessionInfo, SessionSnapshot, CountAfterSet
<1>3. Connects(c, "idle")
  BY <1>1, KeepsConnection
<1> QED
  BY <1>1, <1>2, <1>3, Returns

LEMMA ExistingSessionKeeps ==
  ASSUME LedgerInstance, TypeOK, TypeOK', StoreInv, NEW c \in Clients, NEW r,
         r.op \in {"list", "drop"}, ExistingSession(c, r)
  PROVE  StoreInv' /\ Steady(c)
<1>1. At(c, "idle") /\ r.op \in Ops /\ removals[c] = {} /\ ~Holds(c) /\ UNCHANGED <<disk, unremoved, limits, conn>>
  BY DEF ExistingSession, Calls, At, Holds
<1>2. LedgerStands
  BY <1>1, PruneStands DEF ExistingSession
<1>3. ASSUME r.session \in live, Goto(c, "connect", r)
      PROVE  StoreInv' /\ Steady(c)
  <2>1. Plain("connect", r)
    BY <1>1, <1>3 DEF Plain
  <2>2. Connects(c, "connect")
    BY <1>1, KeepsConnection DEF At
  <2> QED
    BY <1>1, <1>2, <1>3, <2>1, <2>2, PlainStep
<1>4. ASSUME UNCHANGED <<pc, req>>
      PROVE  StoreInv' /\ Steady(c)
  BY <1>1, <1>2, <1>4, StaysIdle DEF thread
<1> QED
  BY <1>3, <1>4, NothingExpired DEF ExistingSession

(* A step that touches neither lock nor disk.                                *)
LEMMA SilentStands ==
  ASSUME StoreInv, UNCHANGED <<ledger, limits, disk, unremoved, removals>>
  PROVE  LedgerStands /\ Enters
BY DEF LedgerStands, Enters, ledger, StoreInv, SessionInv

(* A request that ends its read, or goes on with the next sampled session.   *)
LEMMA EndReadKeeps ==
  ASSUME LedgerInstance, TypeOK, TypeOK', StoreInv, NEW c \in Clients, removals[c] = {}, ~Holds(c),
         EndRead(c), Connects(c, "idle"), LedgerStands
  PROVE  StoreInv' /\ Steady(c)
<1>1. CASE Return(c)
  BY <1>1, Returns
<1>2. CASE Goto(c, "probe", req[c])
  <2>1. ClientInv(c)
    BY DEF StoreInv
  <2>2. Plain("probe", req[c])
    BY <2>1 DEF Plain, ClientInv, RequestInv
  <2>3. Connects(c, "probe")
    BY DEF Connects
  <2> QED
    BY <1>2, <2>2, <2>3, PlainStep
<1> QED
  BY <1>1, <1>2 DEF EndRead

LEMMA ReadDatabaseKeeps ==
  ASSUME LedgerInstance, TypeOK, TypeOK', StoreInv, NEW c \in Clients, ReadDatabase(c)
  PROVE  StoreInv' /\ Steady(c)
<1>1. removals[c] = {} /\ ~Holds(c) /\ EndRead(c) /\ Connects(c, "idle") /\ LedgerStands
  BY DropsConnection, SilentStands DEF ReadDatabase, At, Holds
<1> QED
  BY <1>1, EndReadKeeps

LEMMA InspectTableKeeps ==
  ASSUME LedgerInstance, TypeOK, TypeOK', StoreInv, NEW c \in Clients, InspectTable(c)
  PROVE  StoreInv' /\ Steady(c)
<1>1. /\ pc[c] = "inspect" /\ removals[c] = {} /\ ~Holds(c)
      /\ LedgerStands /\ ClientInv(c)
  BY SilentStands DEF InspectTable, At, Holds, StoreInv
<1>2. Db(c) = disk[req[c].session] /\ req[c].op = "drop" /\ "drop" \in Ops /\ req[c].session \in live
  BY <1>1 DEF ClientInv, FilesInv, RequestInv, Db
<1>3. req[c] \in Request
  BY DEF TypeOK, ThreadOK
<1>4. ASSUME req[c].table \in DOMAIN Db(c), UNCHANGED conn,
             Goto(c, "dropping", [req[c] EXCEPT !.rows = Db(c)[req[c].table]])
      PROVE  StoreInv' /\ Steady(c)
  <2> DEFINE r == [req[c] EXCEPT !.rows = Db(c)[req[c].table]]
  <2>1. /\ r.op = req[c].op /\ r.session = req[c].session /\ r.table = req[c].table
        /\ r.rows = Db(c)[req[c].table]
    BY <1>3 DEF Request
  <2>2. Goto(c, "dropping", r)
    BY <1>4
  <2> HIDE DEF r
  <2>3. Plain("dropping", r)
    BY <1>2, <1>4, <2>1 DEF Plain
  <2>4. Connects(c, "dropping")
    BY <1>1, <1>4 DEF Connects, ClientInv, FilesInv
  <2> QED
    BY <1>1, <2>2, <2>3, <2>4, PlainStep
<1>5. ASSUME Goto(c, "snapshot", req[c]), conn' = [conn EXCEPT ![c] = NoConnection]
      PROVE  StoreInv' /\ Steady(c)
  <2>1. Plain("snapshot", req[c])
    BY <1>2 DEF Plain
  <2> QED
    BY <1>1, <1>5, <2>1, DropsConnection, PlainStep
<1>6. ASSUME Return(c), conn' = [conn EXCEPT ![c] = NoConnection]
      PROVE  StoreInv' /\ Steady(c)
  BY <1>1, <1>6, DropsConnection, Returns
<1> QED
  BY <1>4, <1>5, <1>6 DEF InspectTable

(* set_max_sessions and set_max_tables.                                      *)
LEMMA SetLimitsKeeps ==
  ASSUME LedgerInstance, TypeOK, TypeOK', StoreInv, NEW c \in Clients,
         \/ \E m \in LimitValues : SetMaxSessionsLimit(c, m) \/ SetMaxTablesLimit(c, m)
         \/ SetMaxTablesToo(c)
  PROVE  StoreInv' /\ Steady(c)
<1>1. ClientInv(c)
  BY DEF StoreInv
<1>2. SetsLimits.op = "set_limits"
  BY DEF SetsLimits, NoRequest
<1>3. /\ pc[c] \in {"idle", "set_tables"} /\ removals[c] = {} /\ ~Holds(c) /\ "set_limits" \in Ops
      /\ UNCHANGED <<ledger, disk, unremoved, conn, removals>>
  BY <1>1 DEF SetMaxSessionsLimit, SetMaxTablesLimit, SetMaxTablesToo, StoreMaxTables, Calls, At,
              Holds, ClientInv, RequestInv
<1>4. \A s \in Sessions : age'[s] = 0
  BY <1>3 DEF ledger, StoreInv, SessionInv
<1>5. Connects(c, "idle") /\ Connects(c, "count") /\ Connects(c, "set_tables")
  BY <1>3, KeepsConnection
<1>6. Plain("count", SetsLimits)
  BY <1>2, <1>3 DEF Plain
<1>7. ASSUME NEW t \in LimitValues, StoreMaxTables(c, t)
      PROVE  StoreInv' /\ Steady(c)
  <2>1. CASE t = 0
    BY <1>3, <1>4, <1>5, <1>7, <2>1, SilentStands, Returns DEF StoreMaxTables, limits
  <2>2. CASE t # 0
    <3>1. LedgerStands
      BY <1>3, <1>4, <1>7, <2>2 DEF StoreMaxTables, LedgerStands, StoresLimits, ledger
    <3> QED
      BY <1>3, <1>5, <1>6, <1>7, <2>2, <3>1, PlainStep DEF StoreMaxTables
  <2> QED
    BY <2>1, <2>2
<1>8. ASSUME NEW m \in LimitValues, SetMaxSessionsLimit(c, m)
      PROVE  StoreInv' /\ Steady(c)
  <2>1. LedgerStands
    BY <1>3, <1>4, <1>8 DEF SetMaxSessionsLimit, LedgerStands, StoresLimits, ledger
  <2>2. CASE Goto(c, "count", SetsLimits)
    BY <1>3, <1>5, <1>6, <2>1, <2>2, PlainStep
  <2>3. ASSUME NEW t \in LimitValues, Goto(c, "set_tables", [SetsLimits EXCEPT !.rows = t])
        PROVE  StoreInv' /\ Steady(c)
    <3> DEFINE r == [SetsLimits EXCEPT !.rows = t]
    <3>1. r.op = "set_limits" /\ r.rows = t /\ Goto(c, "set_tables", r)
      BY <2>3 DEF SetsLimits, NoRequest
    <3> HIDE DEF r
    <3>2. Plain("set_tables", r)
      BY <1>3, <3>1 DEF Plain
    <3> QED
      BY <1>3, <1>5, <2>1, <3>1, <3>2, PlainStep
  <2> QED
    BY <1>8, <2>2, <2>3 DEF SetMaxSessionsLimit
<1>9. CASE SetMaxTablesToo(c)
  <2>1. req[c].rows \in LimitValues
    BY <1>1, <1>9 DEF SetMaxTablesToo, At, ClientInv, RequestInv
  <2> QED
    BY <1>7, <1>9, <2>1 DEF SetMaxTablesToo
<1> QED
  BY <1>7, <1>8, <1>9 DEF SetMaxTablesLimit

(* get_runtime_limits.                                                       *)
LEMMA SampleKeeps ==
  ASSUME LedgerInstance, TypeOK, TypeOK', StoreInv, NEW c \in Clients,
         CountForSample(c) \/ SampleSessions(c)
  PROVE  StoreInv' /\ Steady(c)
<1>1. ClientInv(c)
  BY DEF StoreInv
<1>2. /\ pc[c] \in {"idle", "sample"} /\ removals[c] = {} /\ ~Holds(c)
      /\ UNCHANGED <<disk, unremoved, limits, conn>>
  BY DEF CountForSample, SampleSessions, Calls, At, Holds
<1>3. LedgerStands
  BY <1>2, PruneStands DEF CountForSample, SampleSessions
<1>4. Connects(c, "idle") /\ Connects(c, "sample") /\ Connects(c, "probe")
  BY <1>2, KeepsConnection
<1>5. ASSUME CountForSample(c)
      PROVE  StoreInv' /\ Steady(c)
  <2> DEFINE r == [NoRequest EXCEPT !.op = "limits", !.rows = Cardinality(Kept)]
  <2>1. r.op = "limits" /\ "limits" \in Ops
    BY <1>5 DEF NoRequest, CountForSample, Calls
  <2>2. CASE Kept = {}
    BY <1>2, <1>3, <1>5, <2>2, StaysIdle DEF CountForSample, Calls, thread
  <2>3. CASE Kept # {}
    <3>1. Goto(c, "sample", r)
      BY <1>5, <2>3 DEF CountForSample
    <3> HIDE DEF r
    <3>2. Plain("sample", r)
      BY <2>1 DEF Plain
    <3> QED
      BY <1>2, <1>3, <1>4, <3>1, <3>2, PlainStep
  <2> QED
    BY <2>2, <2>3
<1>6. ASSUME SampleSessions(c)
      PROVE  StoreInv' /\ Steady(c)
  <2>1. PICK sample : IF sample = {} THEN Return(c)
                      ELSE Goto(c, "probe", [req[c] EXCEPT !.sample = sample])
    BY <1>6 DEF SampleSessions
  <2>2. CASE sample = {}
    BY <1>2, <1>3, <1>4, <2>1, <2>2, Returns
  <2>3. CASE sample # {}
    <3> DEFINE r == [req[c] EXCEPT !.sample = sample]
    <3>1. Goto(c, "probe", r)
      BY <2>1, <2>3
    <3>2. r.op = req[c].op
      BY DEF TypeOK, ThreadOK, Request
    <3> HIDE DEF r
    <3>3. Plain("probe", r)
      BY <1>1, <3>2 DEF Plain, ClientInv, RequestInv
    <3> QED
      BY <1>2, <1>3, <1>4, <3>1, <3>3, PlainStep
  <2> QED
    BY <2>2, <2>3
<1> QED
  BY <1>5, <1>6

LEMMA ProbeSessionKeeps ==
  ASSUME LedgerInstance, TypeOK, TypeOK', StoreInv, NEW c \in Clients, ProbeSession(c)
  PROVE  StoreInv' /\ Steady(c)
<1>1. PICK s \in req[c].sample :
        Probe(c, s, [req[c] EXCEPT !.session = s, !.sample = @ \ {s}])
  BY DEF ProbeSession
<1> DEFINE r == [req[c] EXCEPT !.session = s, !.sample = @ \ {s}]
<1>2. s \in Sessions /\ req[c] \in Request
  BY DEF TypeOK, ThreadOK, Request
<1>3. Probe(c, s, r) /\ r.op = req[c].op
  BY <1>1, <1>2 DEF Request
<1> HIDE DEF r
<1>4. /\ pc[c] = "probe" /\ removals[c] = {} /\ ~Holds(c) /\ ClientInv(c)
      /\ UNCHANGED <<disk, unremoved, limits, conn>>
  BY <1>3 DEF Probe, At, Holds, StoreInv
<1>5. req[c].op = "limits"
  BY <1>4 DEF TypeOK, ThreadOK, RequestOK
<1>6. Plain("connect", r) /\ Plain("probe", r)
  BY <1>3, <1>4, <1>5 DEF Plain, ClientInv, RequestInv
<1>7. Connects(c, "connect") /\ Connects(c, "probe") /\ Connects(c, "idle")
  BY <1>4, KeepsConnection
<1>8. ASSUME HasSlot(s), Region(c, Kept \cup {s}, KeptTables, KeptRows, {s}, Expired),
             Goto(c, "connect", r)
      PROVE  StoreInv' /\ Steady(c)
  <2>1. LedgerStands
    BY <1>2, <1>4, <1>8, EnterStands
  <2> QED
    BY <1>4, <1>6, <1>7, <1>8, <2>1, PlainStep
<1>9. ASSUME PruneAndForget(c), Return(c) \/ Goto(c, "probe", r)
      PROVE  StoreInv' /\ Steady(c)
  <2>1. LedgerStands
    BY <1>4, <1>9, PruneStands
  <2> QED
    BY <1>4, <1>6, <1>7, <1>9, <2>1, PlainStep, Returns
<1> QED
  BY <1>3, <1>8, <1>9 DEF Probe

-------------------------------------------------------------------------------
(* A request that holds quota goes on holding it.                            *)

LEMMA HoldsOn ==
  ASSUME LedgerInstance, TypeOK, TypeOK', StoreInv, NEW c \in Clients, removals[c] = {},
         pc[c] \in {"connect", "write"}, req[c].op \in {"create", "append"},
         NEW step \in {"write", "refund"}, Goto(c, step, req[c]),
         step = "write" => pc[c] = "connect",
         Connects(c, step), LedgerStands, Enters
  PROVE  StoreInv' /\ Steady(c)
<1>1. Frame(c) /\ pc'[c] = step /\ req'[c] = req[c]
  BY GotoFrame DEF LedgerStands
<1>2. ClientInv(c)
  BY DEF StoreInv
<1>3. Holds(c) /\ Holds(c)' /\ (HoldsTable(c) <=> HoldsTable(c)')
  BY <1>1 DEF Holds, HoldsTable
<1>4. Steady(c)
  BY <1>1, <1>3 DEF Steady, OwnRows, OwnTables
<1>5. RequestInv(c)'
  BY <1>1, <1>2 DEF ClientInv, RequestInv, LedgerStands, Enters, StoresLimits
<1>6. FilesInv(c)'
  BY <1>1 DEF FilesInv, Connects, LedgerStands
<1>7. RoomInv(c)'
  BY <1>1, <1>2 DEF ClientInv, RoomInv, LimitsStand, Alone, LedgerStands, Enters, limits
<1> QED
  BY <1>4, <1>5, <1>6, <1>7, SteadyKeeps DEF ClientInv

(* open_session_connection, whatever asked for it.                           *)
LEMMA OpenConnectionKeeps ==
  ASSUME LedgerInstance, TypeOK, TypeOK', StoreInv, NEW c \in Clients, OpenConnection(c)
  PROVE  StoreInv' /\ Steady(c)
<1> DEFINE op == req[c].op
<1>1. /\ pc[c] = "connect" /\ removals[c] = {} /\ ClientInv(c)
      /\ LedgerStands /\ Enters
  BY SilentStands DEF OpenConnection, At, StoreInv
<1>2. op \in DOMAIN AfterConnect
  BY <1>1 DEF TypeOK, ThreadOK, RequestOK
<1>3. op \in {"open", "query", "list", "limits", "create", "append", "drop"}
  BY <1>2 DEF AfterConnect
<1>4. CASE op \in {"create", "append"}
  <2>1. ASSUME Goto(c, AfterConnect[op], req[c]),
               conn' = [conn EXCEPT ![c] = IF op = "open" THEN NoConnection ELSE Linked]
        PROVE  StoreInv' /\ Steady(c)
    <3>1. AfterConnect[op] = "write"
      BY <1>4 DEF AfterConnect
    <3>2. conn' = [conn EXCEPT ![c] = Linked]
      BY <1>4, <2>1
    <3>3. Connects(c, "write")
      BY <3>2 DEF Connects, Linked, TypeOK, ConnOK
    <3> QED
      BY <1>1, <1>4, <2>1, <3>1, <3>3, HoldsOn
  <2>2. ASSUME Goto(c, "refund", req[c]), UNCHANGED conn
        PROVE  StoreInv' /\ Steady(c)
    BY <1>1, <1>4, <2>2, KeepsConnection, HoldsOn
  <2> QED
    BY <1>4, <2>1, <2>2 DEF OpenConnection
<1>5. CASE op \notin {"create", "append"}
  <2>1. ~Holds(c)
    BY <1>1, <1>5 DEF Holds
  <2>2. ASSUME Goto(c, AfterConnect[op], req[c]),
               conn' = [conn EXCEPT ![c] = IF op = "open" THEN NoConnection ELSE Linked]
        PROVE  StoreInv' /\ Steady(c)
    <3>1. CASE op = "open"
      <4>1. AfterConnect[op] = "info" /\ conn' = [conn EXCEPT ![c] = NoConnection]
        BY <2>2, <3>1 DEF AfterConnect
      <4>2. Plain("info", req[c])
        BY <1>1 DEF Plain, ClientInv, RequestInv
      <4> QED
        BY <1>1, <2>1, <2>2, <4>1, <4>2, DropsConnection, PlainStep
    <3>2. CASE op # "open"
      <4>1. conn' = [conn EXCEPT ![c] = Linked]
        BY <2>2, <3>2
      <4>2. Connects(c, "read") /\ Connects(c, "inspect")
        BY <4>1 DEF Connects, Linked, TypeOK, ConnOK
      <4>3. CASE op = "drop"
        <5>1. AfterConnect[op] = "inspect"
          BY <4>3 DEF AfterConnect
        <5>2. Plain("inspect", req[c])
          BY <1>1, <4>3 DEF Plain, ClientInv, RequestInv
        <5> QED
          BY <1>1, <2>1, <2>2, <4>2, <5>1, <5>2, PlainStep
      <4>4. CASE op \in {"query", "list", "limits"}
        <5>1. AfterConnect[op] = "read"
          BY <4>4 DEF AfterConnect
        <5>2. Plain("read", req[c])
          BY <1>1 DEF Plain, ClientInv, RequestInv
        <5> QED
          BY <1>1, <2>1, <2>2, <4>2, <5>1, <5>2, PlainStep
      <4> QED
        BY <1>3, <1>5, <3>2, <4>3, <4>4
    <3> QED
      BY <3>1, <3>2
  <2>3. ASSUME EndRead(c), UNCHANGED conn
        PROVE  StoreInv' /\ Steady(c)
    BY <1>1, <2>1, <2>3, KeepsConnection, EndReadKeeps
  <2> QED
    BY <1>5, <2>2, <2>3 DEF OpenConnection
<1> QED
  BY <1>4, <1>5

-------------------------------------------------------------------------------
(* Steps that book, or do what was booked.                                   *)

(* What they have in common: the sessions stand, and for each of them the    *)
(* ledger changes by what its database and this request's hold on it do.     *)
LEMMA BookKeeps ==
  ASSUME LedgerInstance, TypeOK, TypeOK', StoreInv, NEW c \in Clients, removals[c] = {}, Frame(c),
         UNCHANGED <<live, unremoved, removals, limits>>, \A s \in Sessions : age'[s] = 0,
         \A s \in Sessions : IsFiniteSet(DOMAIN disk'[s]),
         \A s \in Sessions \ live : disk'[s] = disk[s],
         \A s \in Sessions : tablesUsed'[s] <= tablesUsed[s] \/ tablesUsed'[s] <= maxTables,
         \A s \in Sessions \ unremoved :
           /\ rowsUsed'[s] + StoredRows(s) + OwnRows(c, s)
                = rowsUsed[s] + StoredRows(s)' + OwnRows(c, s)'
           /\ tablesUsed'[s] + StoredTables(s) + OwnTables(c, s)
                = tablesUsed[s] + StoredTables(s)' + OwnTables(c, s)',
         ClientInv(c)'
  PROVE  StoreInv'
<1>1. ASSUME NEW d \in Clients
      PROVE  ClientInv(d)'
  <2>1. CASE d = c
    BY <2>1
  <2>2. CASE d # c
    BY <2>2, OthersKeep DEF limits
  <2> QED
    BY <2>1, <2>2
<1>2. ASSUME NEW s \in Sessions
      PROVE  SessionInv(s)'
  <2>1. /\ SessionInv(s) /\ ~Pending(s) /\ IsFiniteSet(Clients)
        /\ s \notin unremoved => Exact(s)
    BY NothingPending DEF StoreInv, LedgerInstance, Undisturbed
  <2>2. s \notin unremoved => Exact(s)'
    BY <2>1, Balance DEF SessionInv
  <2>3. Pending(s)' <=> Pending(s)
    BY DEF Pending
  <2> QED
    BY <2>1, <2>2, <2>3 DEF SessionInv
<1> QED
  BY <1>1, <1>2 DEF StoreInv

(* What is booked covers what a request holds.                               *)
LEMMA Covered ==
  ASSUME LedgerInstance, TypeOK, StoreInv, NEW c \in Clients, removals[c] = {},
         NEW s \in Sessions \ unremoved
  PROVE  /\ OwnRows(c, s) <= rowsUsed[s] /\ OwnTables(c, s) <= tablesUsed[s]
         /\ StoredRows(s) + OwnRows(c, s) <= rowsUsed[s]
         /\ StoredTables(s) + OwnTables(c, s) <= tablesUsed[s]
         /\ OwnRows(c, s) \in Nat /\ OwnTables(c, s) \in Nat
         /\ StoredRows(s) \in Nat /\ StoredTables(s) \in Nat
         /\ rowsUsed[s] \in Nat /\ tablesUsed[s] \in Nat
<1>1. Exact(s) /\ IsFiniteSet(DOMAIN disk[s]) /\ IsFiniteSet(Clients)
  BY NothingPending DEF StoreInv, SessionInv, LedgerInstance, Undisturbed
<1>2. Split(c, s)
  BY <1>1, SplitInFlight DEF SplitCounts
<1>3. StoredRows(s) \in Nat /\ StoredTables(s) \in Nat
  BY <1>1, StoredType DEF StoredCounts
<1>4. rowsUsed[s] \in Nat /\ tablesUsed[s] \in Nat
  BY DEF TypeOK, LedgerOK
<1>5. rowsUsed[s] = StoredRows(s) + RowsInFlight(s) /\ tablesUsed[s] = StoredTables(s) + TablesInFlight(s)
  BY <1>1 DEF Exact, StoredTables
<1> QED
  BY <1>2, <1>3, <1>4, <1>5 DEF Split

(* What a database counts before and after a statement.                      *)
LEMMA IngestedSum ==
  ASSUME NEW db \in Databases, IsFiniteSet(DOMAIN db), NEW r, r.rows \in Nat
  PROVE  /\ IsFiniteSet(DOMAIN Ingested(db, r))
         /\ SumFunction(Ingested(db, r)) = SumFunction(db) + r.rows
         /\ Cardinality(DOMAIN Ingested(db, r))
              = IF r.table \in DOMAIN db THEN Cardinality(DOMAIN db) ELSE Cardinality(DOMAIN db) + 1
<1> DEFINE t == r.table
           D == DOMAIN db
           g == Ingested(db, r)
<1>1. /\ DOMAIN g = D \cup {t}
      /\ g[t] = (IF t \in D THEN db[t] ELSE 0) + r.rows
      /\ \A x \in D \ {t} : g[x] = db[x]
  BY DEF Ingested, WithTable
<1>2. \A x \in D : db[x] \in Nat
  BY DatabaseShape
<1>3. IsFiniteSet(D \ {t})
  BY FS_Subset
<1> HIDE DEF g
<1>4. SumFunctionOnSet(g, D \ {t}) = SumFunctionOnSet(db, D \ {t})
  BY <1>1, <1>3, SumSame
<1>5. SumFunctionOnSet(db, D \ {t}) \in Nat /\ SumFunctionOnSet(db, D) \in Nat
  BY <1>2, <1>3, SumType
<1>6. SumFunctionOnSet(g, DOMAIN g) = g[t] + SumFunctionOnSet(g, D \ {t})
  <2>1. (D \ {t}) \cup {t} = DOMAIN g
    BY <1>1
  <2>2. g[t] \in Nat /\ \A x \in D \ {t} : g[x] \in Nat
    BY <1>1, <1>2
  <2> QED
    BY <1>3, <2>1, <2>2, SumAdd
<1>7. SumFunctionOnSet(db, D) = (IF t \in D THEN db[t] ELSE 0) + SumFunctionOnSet(db, D \ {t})
  <2>1. CASE t \in D
    BY <1>2, <2>1, SumRemove
  <2>2. CASE t \notin D
    <3>1. D \ {t} = D
      BY <2>2
    <3> QED
      BY <1>5, <2>2, <3>1
  <2> QED
    BY <2>1, <2>2
<1>8. SumFunctionOnSet(g, DOMAIN g) = SumFunctionOnSet(db, D) + r.rows
  BY <1>1, <1>2, <1>4, <1>5, <1>6, <1>7
<1>9. IsFiniteSet(DOMAIN g)
      /\ Cardinality(DOMAIN g) = IF t \in D THEN Cardinality(D) ELSE Cardinality(D) + 1
  BY <1>1, FS_AddElement
<1> QED
  BY <1>8, <1>9 DEF SumFunction, g

LEMMA WithoutTableSum ==
  ASSUME NEW db \in Databases, IsFiniteSet(DOMAIN db), NEW t \in DOMAIN db
  PROVE  /\ IsFiniteSet(DOMAIN WithoutTable(db, t))
         /\ SumFunction(WithoutTable(db, t)) + db[t] = SumFunction(db)
         /\ Cardinality(DOMAIN WithoutTable(db, t)) + 1 = Cardinality(DOMAIN db)
<1> DEFINE D == DOMAIN db
           g == WithoutTable(db, t)
<1>1. DOMAIN g = D \ {t} /\ \A x \in D \ {t} : g[x] = db[x]
  BY DEF WithoutTable, Restrict
<1>2. \A x \in D : db[x] \in Nat
  BY DatabaseShape
<1>3. IsFiniteSet(D \ {t}) /\ Cardinality(D \ {t}) = Cardinality(D) - 1 /\ Cardinality(D) \in Nat
  BY FS_RemoveElement, FS_CardinalityType
<1> HIDE DEF g
<1>4. SumFunctionOnSet(g, D \ {t}) = SumFunctionOnSet(db, D \ {t})
  BY <1>1, <1>3, SumSame
<1>5. SumFunctionOnSet(db, D) = db[t] + SumFunctionOnSet(db, D \ {t})
  BY <1>2, SumRemove
<1>6. SumFunctionOnSet(db, D \ {t}) \in Nat
  BY <1>2, <1>3, SumType
<1>7. SumFunctionOnSet(g, DOMAIN g) + db[t] = SumFunctionOnSet(db, D)
  BY <1>1, <1>2, <1>4, <1>5, <1>6
<1>8. Cardinality(DOMAIN g) + 1 = Cardinality(D)
  BY <1>1, <1>3
<1> QED
  BY <1>1, <1>3, <1>7, <1>8 DEF SumFunction, g

LEMMA EmptySum == SumFunction(EmptyDb) = 0 /\ Cardinality(DOMAIN EmptyDb) = 0 /\ IsFiniteSet(DOMAIN EmptyDb)
<1>1. DOMAIN EmptyDb = {}
  BY DEF EmptyDb
<1> QED
  BY <1>1, SumEmpty, FS_EmptySet DEF SumFunction

(* A database that stands counts the same.                                   *)
LEMMA SameStore ==
  ASSUME NEW s, disk'[s] = disk[s]
  PROVE  StoredRows(s)' = StoredRows(s) /\ StoredTables(s)' = StoredTables(s)
BY DEF StoredRows, StoredTables

-------------------------------------------------------------------------------
(* Ingest: reserve, commit or refund.                                        *)

LEMMA ReserveKeeps ==
  ASSUME LedgerInstance, TypeOK, TypeOK', StoreInv, NEW c \in Clients, NEW s \in Sessions,
         NEW op \in {"create", "append"}, NEW t \in Tables, NEW n \in BatchSizes,
         ReserveIngestCapacity(c, op, s, t, n)
  PROVE  StoreInv' /\ (Steady(c) \/ UNCHANGED <<live, disk, unremoved, limits, removals>>)
<1>1. /\ At(c, "idle") /\ op \in Ops /\ pc[c] = "idle" /\ removals[c] = {} /\ ~Holds(c)
      /\ UNCHANGED <<disk, unremoved, limits, conn>>
  BY DEF ReserveIngestCapacity, Calls, At, Holds
<1>2. ASSUME PruneAndForget(c) \/ PruneOnly(c, {}), UNCHANGED <<pc, req>>
      PROVE  StoreInv' /\ Steady(c)
  BY <1>1, <1>2, PruneStands, StaysIdle DEF thread
<1> DEFINE r == [AsksTable(op, s, t) EXCEPT !.rows = n]
<1>3. ASSUME s \in Kept, ~ExceedsTables(s, op),
             Region(c, Kept, [KeptTables EXCEPT ![s] = IF op = "create" THEN @ + 1 ELSE @],
                    [KeptRows EXCEPT ![s] = @ + n], {s}, Expired),
             Goto(c, "connect", r)
      PROVE  StoreInv' /\ UNCHANGED <<live, disk, unremoved, limits, removals>>
  <2>1. s \in live
        /\ Region(c, live, [tablesUsed EXCEPT ![s] = IF op = "create" THEN @ + 1 ELSE @],
                  [rowsUsed EXCEPT ![s] = @ + n], {s}, {})
    BY <1>3, NothingExpired
  <2>2. /\ live' = live
        /\ tablesUsed' = [tablesUsed EXCEPT ![s] = IF op = "create" THEN @ + 1 ELSE @]
        /\ rowsUsed' = [rowsUsed EXCEPT ![s] = @ + n]
        /\ \A x \in Sessions : age'[x] = 0
        /\ removals' = removals
    BY <1>1, <2>1 DEF Region, TypeOK, RemovalsOK, StoreInv, SessionInv
  <2>3. r.op = op /\ r.session = s /\ r.table = t /\ r.rows = n
    BY DEF AsksTable, Asks, NoRequest
  <2>4. Connects(c, "connect")
    BY <1>1, KeepsConnection
  <2>5. Frame(c) /\ pc'[c] = "connect" /\ req'[c] = r
    BY <1>3, <2>2, <2>4, GotoFrame
  <2> HIDE DEF r
  <2>6. ASSUME NEW x \in Sessions \ unremoved
        PROVE  /\ OwnRows(c, x) = 0 /\ OwnTables(c, x) = 0
               /\ OwnRows(c, x)' = (IF x = s THEN n ELSE 0)
               /\ OwnTables(c, x)' = (IF x = s /\ op = "create" THEN 1 ELSE 0)
               /\ StoredRows(x)' = StoredRows(x) /\ StoredTables(x)' = StoredTables(x)
               /\ StoredRows(x) \in Nat /\ StoredTables(x) \in Nat
               /\ rowsUsed[x] \in Nat /\ tablesUsed[x] \in Nat
               /\ rowsUsed'[x] = rowsUsed[x] + (IF x = s THEN n ELSE 0)
               /\ tablesUsed'[x] = tablesUsed[x] + (IF x = s /\ op = "create" THEN 1 ELSE 0)
    <3>1. OwnRows(c, x) = 0 /\ OwnTables(c, x) = 0
      BY <1>1 DEF OwnRows, OwnTables, HoldsTable
    <3>2. /\ OwnRows(c, x)' = (IF x = s THEN n ELSE 0)
          /\ OwnTables(c, x)' = (IF x = s /\ op = "create" THEN 1 ELSE 0)
      BY <2>3, <2>5 DEF OwnRows, OwnTables, Holds, HoldsTable
    <3>3. StoredRows(x)' = StoredRows(x) /\ StoredTables(x)' = StoredTables(x)
      BY <1>1, SameStore
    <3>4. rowsUsed[x] \in Nat /\ tablesUsed[x] \in Nat /\ StoredRows(x) \in Nat /\ StoredTables(x) \in Nat
      BY <1>1, Covered
    <3>5. /\ rowsUsed'[x] = rowsUsed[x] + (IF x = s THEN n ELSE 0)
          /\ tablesUsed'[x] = tablesUsed[x] + (IF x = s /\ op = "create" THEN 1 ELSE 0)
      BY <2>2, <3>4 DEF TypeOK, LedgerOK
    <3> QED
      BY <3>1, <3>2, <3>3, <3>4, <3>5
  <2>7. n \in Nat
    BY ConfigAssumption DEF ConfigAssumption
  <2>8. op = "create" => tablesUsed[s] < maxTables
    BY <1>3 DEF ExceedsTables, TypeOK, LedgerOK, LimitsOK
  <2>9. maxTables \in Nat /\ tablesUsed[s] \in Nat
    BY DEF TypeOK, LimitsOK, LedgerOK
  <2>10. \A x \in Sessions : tablesUsed'[x] <= tablesUsed[x] \/ tablesUsed'[x] <= maxTables
    BY <2>2, <2>8, <2>9 DEF TypeOK, LedgerOK
  <2>11. ClientInv(c)'
    <3>1. RequestInv(c)'
      BY <1>1, <2>1, <2>2, <2>3, <2>5 DEF RequestInv
    <3>2. FilesInv(c)'
      BY <1>1, <2>2, <2>4, <2>5 DEF FilesInv, Connects
    <3>3. op = "create" => tablesUsed'[s] <= maxTables'
      BY <1>1, <2>2, <2>8, <2>9 DEF limits, TypeOK, LedgerOK
    <3>4. RoomInv(c)'
      BY <2>3, <2>5, <3>3 DEF RoomInv
    <3> QED
      BY <3>1, <3>2, <3>4 DEF ClientInv
  <2>12. \A x \in Sessions : IsFiniteSet(DOMAIN disk'[x]) /\ disk'[x] = disk[x]
    BY <1>1 DEF StoreInv, SessionInv
  <2>13. \A x \in Sessions \ unremoved :
           /\ rowsUsed'[x] + StoredRows(x) + OwnRows(c, x)
                = rowsUsed[x] + StoredRows(x)' + OwnRows(c, x)'
           /\ tablesUsed'[x] + StoredTables(x) + OwnTables(c, x)
                = tablesUsed[x] + StoredTables(x)' + OwnTables(c, x)'
    BY <2>6, <2>7
  <2>14. StoreInv'
    BY <1>1, <2>2, <2>5, <2>10, <2>11, <2>12, <2>13, BookKeeps
  <2> QED
    BY <1>1, <2>2, <2>14
<1> QED
  BY <1>2, <1>3 DEF ReserveIngestCapacity

(* The commit, of the database the session still has.                        *)
Commits(c) ==
  LET r == req[c] IN
  /\ r.session \in live /\ r.op \in {"create", "append"} /\ r.rows \in BatchSizes
  /\ r.table \in Tables
  /\ Accepts(disk[r.session], r)
  /\ disk' = [disk EXCEPT ![r.session] = Ingested(@, r)]
  /\ UNCHANGED <<live, unremoved, limits, removals>>

LEMMA PersistKeeps ==
  ASSUME LedgerInstance, TypeOK, TypeOK', StoreInv, NEW c \in Clients, PersistIngestTable(c)
  PROVE  StoreInv' /\ (Steady(c) \/ (Commits(c) /\ pc[c] = "write" /\ removals[c] = {}))
<1>1. /\ pc[c] = "write" /\ removals[c] = {} /\ ClientInv(c)
      /\ conn' = [conn EXCEPT ![c] = NoConnection]
      /\ UNCHANGED <<ledger, limits, unremoved, removals>>
  BY DEF PersistIngestTable, PersistIngestFailingTo, At, StoreInv
<1> DEFINE r == req[c]
           s == r.session
<1>2. /\ r \in Request /\ r.op \in {"create", "append"} /\ s \in live /\ s \in Sessions
      /\ r.table \in Tables /\ r.rows \in Nat /\ r.rows \in BatchSizes
  BY <1>1 DEF ClientInv, RequestInv, TypeOK, ThreadOK, RequestOK, LedgerOK, Request
<1>3. Db(c) = disk[s] /\ conn[c].kind # "orphan"
  BY <1>1 DEF ClientInv, FilesInv, Db
<1>4. ASSUME Accepts(Db(c), r), Return(c),
             disk' = IF conn[c].kind = "orphan" THEN disk ELSE [disk EXCEPT ![s] = Ingested(@, r)]
      PROVE  StoreInv' /\ Commits(c)
  <2>1. Accepts(disk[s], r) /\ disk' = [disk EXCEPT ![s] = Ingested(@, r)]
    BY <1>3, <1>4
  <2>2. Connects(c, "idle")
    BY <1>1, DropsConnection
  <2>3. Frame(c) /\ pc'[c] = "idle" /\ req'[c] = NoRequest
    BY <1>1, <1>4, <2>2, GotoFrame DEF Return
  <2>4. disk \in [Sessions -> Databases] /\ disk[s] \in Databases /\ disk'[s] = Ingested(disk[s], r)
        /\ \A x \in Sessions \ {s} : disk'[x] = disk[x]
    BY <1>2, <2>1 DEF TypeOK, DiskOK
  <2>5. \A x \in Sessions : IsFiniteSet(DOMAIN disk[x])
    BY DEF StoreInv, SessionInv
  <2>6. /\ IsFiniteSet(DOMAIN disk'[s])
        /\ SumFunction(disk'[s]) = SumFunction(disk[s]) + r.rows
        /\ Cardinality(DOMAIN disk'[s])
             = IF r.table \in DOMAIN disk[s] THEN Cardinality(DOMAIN disk[s])
               ELSE Cardinality(DOMAIN disk[s]) + 1
    BY <1>2, <2>4, <2>5, IngestedSum
  <2>7. r.op = "create" <=> r.table \notin DOMAIN disk[s]
    BY <2>1 DEF Accepts
  <2>8. ASSUME NEW x \in Sessions \ unremoved
        PROVE  /\ rowsUsed'[x] + StoredRows(x) + OwnRows(c, x)
                    = rowsUsed[x] + StoredRows(x)' + OwnRows(c, x)'
               /\ tablesUsed'[x] + StoredTables(x) + OwnTables(c, x)
                    = tablesUsed[x] + StoredTables(x)' + OwnTables(c, x)'
    <3>1. /\ OwnRows(c, x) = (IF x = s THEN r.rows ELSE 0)
          /\ OwnTables(c, x) = (IF x = s /\ r.op = "create" THEN 1 ELSE 0)
      BY <1>1, <1>2 DEF OwnRows, OwnTables, Holds, HoldsTable
    <3>2. OwnRows(c, x)' = 0 /\ OwnTables(c, x)' = 0
      BY <2>3 DEF OwnRows, OwnTables, Holds, HoldsTable
    <3>3. /\ rowsUsed'[x] = rowsUsed[x] /\ tablesUsed'[x] = tablesUsed[x]
          /\ rowsUsed[x] \in Nat /\ tablesUsed[x] \in Nat
          /\ StoredRows(x) \in Nat /\ StoredTables(x) \in Nat
      BY <1>1, Covered DEF ledger
    <3>4. CASE x = s
      <4>1. /\ StoredRows(x)' = StoredRows(x) + r.rows
            /\ StoredTables(x)' = IF r.op = "create" THEN StoredTables(x) + 1 ELSE StoredTables(x)
        BY <2>6, <2>7, <3>4 DEF StoredRows, StoredTables
      <4> QED
        BY <1>2, <3>1, <3>2, <3>3, <3>4, <4>1
    <3>5. CASE x # s
      <4>1. StoredRows(x)' = StoredRows(x) /\ StoredTables(x)' = StoredTables(x)
        BY <2>4, <3>5, SameStore
      <4> QED
        BY <3>1, <3>2, <3>3, <3>5, <4>1
    <3> QED
      BY <3>4, <3>5
  <2>9. ClientInv(c)'
    BY <1>1, <2>2, <2>3 DEF ClientInv, RequestInv, FilesInv, RoomInv, Connects, NoRequest
  <2>10. \A x \in Sessions : IsFiniteSet(DOMAIN disk'[x])
    BY <2>4, <2>5, <2>6
  <2>11. \A x \in Sessions \ live : disk'[x] = disk[x]
    BY <1>2, <2>4
  <2>12. /\ UNCHANGED <<live, unremoved, removals, limits>> /\ \A x \in Sessions : age'[x] = 0
         /\ \A x \in Sessions : tablesUsed'[x] <= tablesUsed[x]
    BY <1>1 DEF ledger, StoreInv, SessionInv, TypeOK, LedgerOK
  <2>13. StoreInv'
    BY <1>1, <2>3, <2>8, <2>9, <2>10, <2>11, <2>12, BookKeeps
  <2>14. Commits(c)
    BY <1>2, <2>1, <2>12 DEF Commits
  <2> QED
    BY <2>13, <2>14
<1>5. ASSUME Goto(c, "refund", r), UNCHANGED disk
      PROVE  StoreInv' /\ Steady(c)
  BY <1>1, <1>2, <1>5, DropsConnection, SilentStands, HoldsOn
<1> QED
  BY <1>1, <1>4, <1>5 DEF PersistIngestTable, PersistIngestFailingTo

LEMMA RollbackKeeps ==
  ASSUME LedgerInstance, TypeOK, TypeOK', StoreInv, NEW c \in Clients, RollbackIngestCapacity(c)
  PROVE  StoreInv' /\ UNCHANGED <<live, disk, unremoved, limits, removals>>
<1> DEFINE r == req[c]
           s == r.session
<1>1. /\ pc[c] = "refund" /\ removals[c] = {} /\ ClientInv(c)
      /\ Return(c) /\ UNCHANGED <<limits, disk, unremoved, conn>>
  BY DEF RollbackIngestCapacity, At, StoreInv
<1>2. /\ r \in Request /\ r.op \in {"create", "append"} /\ s \in live /\ s \in Sessions /\ r.rows \in Nat
  BY <1>1 DEF ClientInv, RequestInv, TypeOK, ThreadOK, LedgerOK, Request
<1> HIDE DEF s
<1>3. Region(c, live,
             [x \in Sessions |-> IF x \in live \cap {s} /\ r.op = "create"
                                 THEN SaturatingSub(tablesUsed[x], 1) ELSE tablesUsed[x]],
             [x \in Sessions |-> IF x \in live \cap {s} THEN SaturatingSub(rowsUsed[x], r.rows)
                                 ELSE rowsUsed[x]],
             {s}, {})
  BY NothingExpired DEF RollbackIngestCapacity, s
<1>4. /\ UNCHANGED <<live, removals>> /\ \A x \in Sessions : age'[x] = 0
  BY <1>1, <1>3 DEF Region, TypeOK, RemovalsOK, StoreInv, SessionInv
<1>5. /\ tablesUsed' = [x \in Sessions |-> IF x \in live \cap {s} /\ r.op = "create"
                                           THEN SaturatingSub(tablesUsed[x], 1) ELSE tablesUsed[x]]
      /\ rowsUsed' = [x \in Sessions |-> IF x \in live \cap {s} THEN SaturatingSub(rowsUsed[x], r.rows)
                                         ELSE rowsUsed[x]]
  BY <1>3 DEF Region
<1>6. Connects(c, "idle")
  BY <1>1, KeepsConnection
<1>7. Frame(c) /\ pc'[c] = "idle" /\ req'[c] = NoRequest
  BY <1>1, <1>4, <1>6, GotoFrame DEF Return
<1>8. ASSUME NEW x \in Sessions \ unremoved
      PROVE  /\ rowsUsed'[x] + StoredRows(x) + OwnRows(c, x)
                  = rowsUsed[x] + StoredRows(x)' + OwnRows(c, x)'
             /\ tablesUsed'[x] + StoredTables(x) + OwnTables(c, x)
                  = tablesUsed[x] + StoredTables(x)' + OwnTables(c, x)'
  <2>1. /\ OwnRows(c, x) = (IF x = s THEN r.rows ELSE 0)
        /\ OwnTables(c, x) = (IF x = s /\ r.op = "create" THEN 1 ELSE 0)
    BY <1>1, <1>2 DEF OwnRows, OwnTables, Holds, HoldsTable, s
  <2>2. OwnRows(c, x)' = 0 /\ OwnTables(c, x)' = 0
    BY <1>7 DEF OwnRows, OwnTables, Holds, HoldsTable
  <2>3. StoredRows(x)' = StoredRows(x) /\ StoredTables(x)' = StoredTables(x)
    BY <1>1, SameStore
  <2>4. /\ OwnRows(c, x) <= rowsUsed[x] /\ OwnTables(c, x) <= tablesUsed[x]
        /\ rowsUsed[x] \in Nat /\ tablesUsed[x] \in Nat
        /\ StoredRows(x) \in Nat /\ StoredTables(x) \in Nat
    BY <1>1, Covered
  <2>5. /\ rowsUsed'[x] = rowsUsed[x] - OwnRows(c, x)
        /\ tablesUsed'[x] = tablesUsed[x] - OwnTables(c, x)
    BY <1>2, <1>5, <2>1, <2>4 DEF SaturatingSub
  <2>6. OwnRows(c, x) \in Nat /\ OwnTables(c, x) \in Nat
    BY <1>2, <2>1
  <2> QED
    BY <2>2, <2>3, <2>4, <2>5, <2>6
<1>9. ClientInv(c)'
  BY <1>1, <1>4, <1>6, <1>7 DEF ClientInv, RequestInv, FilesInv, RoomInv, Connects, NoRequest
<1>10. \A x \in Sessions : IsFiniteSet(DOMAIN disk'[x]) /\ disk'[x] = disk[x]
  BY <1>1 DEF StoreInv, SessionInv
<1>11. \A x \in Sessions : tablesUsed'[x] <= tablesUsed[x]
  BY <1>5 DEF SaturatingSub, TypeOK, LedgerOK
<1>12. StoreInv'
  BY <1>1, <1>4, <1>7, <1>8, <1>9, <1>10, <1>11, BookKeeps
<1> QED
  BY <1>1, <1>4, <1>12

-------------------------------------------------------------------------------
(* Drop: the table, then its quota.                                          *)

Drops(c) ==
  LET r == req[c] IN
  /\ r.session \in live /\ r.table \in DOMAIN disk[r.session]
  /\ disk' = [disk EXCEPT ![r.session] = WithoutTable(@, r.table)]
  /\ UNCHANGED <<live, unremoved, limits, removals>>

LEMMA ExecuteDropKeeps ==
  ASSUME LedgerInstance, TypeOK, TypeOK', StoreInv, NEW c \in Clients, ExecuteDrop(c)
  PROVE  StoreInv' /\ (Steady(c) \/ (Drops(c) /\ removals[c] = {}))
<1> DEFINE r == req[c]
           s == r.session
           t == r.table
<1>1. /\ pc[c] = "dropping" /\ removals[c] = {} /\ ClientInv(c)
      /\ conn' = [conn EXCEPT ![c] = NoConnection]
      /\ UNCHANGED <<ledger, limits, unremoved, removals>>
  BY DEF ExecuteDrop, At, StoreInv
<1>2. /\ r \in Request /\ r.op = "drop" /\ s \in live /\ s \in Sessions /\ r.rows \in Nat
      /\ t \in DOMAIN disk[s] /\ r.rows = disk[s][t] /\ "drop" \in Ops
  BY <1>1 DEF ClientInv, RequestInv, TypeOK, ThreadOK, LedgerOK, Request
<1>3. conn[c].kind # "orphan"
  BY <1>1 DEF ClientInv, FilesInv
<1>4. ASSUME Goto(c, "note", r),
             disk' = IF conn[c].kind = "orphan" THEN disk ELSE [disk EXCEPT ![s] = WithoutTable(@, t)]
      PROVE  StoreInv' /\ Drops(c)
  <2>1. disk' = [disk EXCEPT ![s] = WithoutTable(@, t)]
    BY <1>3, <1>4
  <2>2. Connects(c, "note")
    BY <1>1, DropsConnection
  <2>3. Frame(c) /\ pc'[c] = "note" /\ req'[c] = r
    BY <1>1, <1>4, <2>2, GotoFrame
  <2>4. disk[s] \in Databases /\ disk'[s] = WithoutTable(disk[s], t)
        /\ \A x \in Sessions \ {s} : disk'[x] = disk[x]
    BY <1>2, <2>1 DEF TypeOK, DiskOK
  <2>5. \A x \in Sessions : IsFiniteSet(DOMAIN disk[x])
    BY DEF StoreInv, SessionInv
  <2>6. /\ IsFiniteSet(DOMAIN disk'[s])
        /\ SumFunction(disk'[s]) + r.rows = SumFunction(disk[s])
        /\ Cardinality(DOMAIN disk'[s]) + 1 = Cardinality(DOMAIN disk[s])
    BY <1>2, <2>4, <2>5, WithoutTableSum
  <2>7. ASSUME NEW x \in Sessions \ unremoved
        PROVE  /\ rowsUsed'[x] + StoredRows(x) + OwnRows(c, x)
                    = rowsUsed[x] + StoredRows(x)' + OwnRows(c, x)'
               /\ tablesUsed'[x] + StoredTables(x) + OwnTables(c, x)
                    = tablesUsed[x] + StoredTables(x)' + OwnTables(c, x)'
    <3>1. OwnRows(c, x) = 0 /\ OwnTables(c, x) = 0
      BY <1>1 DEF OwnRows, OwnTables, Holds, HoldsTable
    <3>2. /\ OwnRows(c, x)' = (IF x = s THEN r.rows ELSE 0)
          /\ OwnTables(c, x)' = (IF x = s THEN 1 ELSE 0)
      BY <2>3 DEF OwnRows, OwnTables, Holds, HoldsTable
    <3>3. /\ rowsUsed'[x] = rowsUsed[x] /\ tablesUsed'[x] = tablesUsed[x]
          /\ rowsUsed[x] \in Nat /\ tablesUsed[x] \in Nat
          /\ StoredRows(x) \in Nat /\ StoredTables(x) \in Nat
      BY <1>1, Covered DEF ledger
    <3>4. StoredRows(x)' \in Nat /\ StoredTables(x)' \in Nat
      <4>1. IsFiniteSet(DOMAIN disk'[x])
        BY <2>4, <2>5, <2>6
      <4> QED
        BY <4>1, NextCounts DEF StoredCounts
    <3>5. CASE x = s
      <4>1. /\ StoredRows(x)' + r.rows = StoredRows(x)
            /\ StoredTables(x)' + 1 = StoredTables(x)
        BY <2>6, <3>5 DEF StoredRows, StoredTables
      <4> QED
        BY <1>2, <3>1, <3>2, <3>3, <3>4, <3>5, <4>1
    <3>6. CASE x # s
      <4>1. StoredRows(x)' = StoredRows(x) /\ StoredTables(x)' = StoredTables(x)
        BY <2>4, <3>6, SameStore
      <4> QED
        BY <3>1, <3>2, <3>3, <3>6, <4>1
    <3> QED
      BY <3>5, <3>6
  <2>8. UNCHANGED <<live, unremoved, removals, limits>> /\ (\A x \in Sessions : age'[x] = 0)
        /\ \A x \in Sessions : tablesUsed'[x] <= tablesUsed[x]
    BY <1>1 DEF ledger, StoreInv, SessionInv, TypeOK, LedgerOK
  <2>9. ClientInv(c)'
    <3>1. RequestInv(c)'
      BY <1>2, <2>3, <2>8 DEF RequestInv
    <3>2. FilesInv(c)' /\ RoomInv(c)'
      BY <1>1, <2>2, <2>3 DEF FilesInv, RoomInv, Connects
    <3> QED
      BY <3>1, <3>2 DEF ClientInv
  <2>10. (\A x \in Sessions : IsFiniteSet(DOMAIN disk'[x]))
         /\ \A x \in Sessions \ live : disk'[x] = disk[x]
    BY <1>2, <2>4, <2>5, <2>6
  <2>11. StoreInv'
    BY <1>1, <2>3, <2>7, <2>8, <2>9, <2>10, BookKeeps
  <2>12. Drops(c)
    BY <1>2, <2>1, <2>8 DEF Drops
  <2> QED
    BY <2>11, <2>12
<1>5. ASSUME Return(c), UNCHANGED disk
      PROVE  StoreInv' /\ Steady(c)
  <2>1. ~Holds(c)
    BY <1>1 DEF Holds
  <2> QED
    BY <1>1, <1>5, <2>1, DropsConnection, SilentStands, Returns
<1> QED
  BY <1>1, <1>4, <1>5 DEF ExecuteDrop

LEMMA NoteTableDroppedKeeps ==
  ASSUME LedgerInstance, TypeOK, TypeOK', StoreInv, NEW c \in Clients, NoteTableDropped(c)
  PROVE  StoreInv' /\ UNCHANGED <<live, disk, unremoved, limits, removals>>
<1> DEFINE r == req[c]
           s == r.session
<1>1. /\ pc[c] = "note" /\ removals[c] = {} /\ ClientInv(c)
      /\ Return(c) /\ UNCHANGED <<limits, disk, unremoved, conn>>
  BY DEF NoteTableDropped, WithEntry, At, StoreInv
<1>2. /\ r \in Request /\ r.op = "drop" /\ s \in live /\ s \in Sessions /\ r.rows \in Nat
  BY <1>1 DEF ClientInv, RequestInv, TypeOK, ThreadOK, LedgerOK, Request
<1> HIDE DEF s
<1>3. HasSlot(s) /\ live \cup {s} = live
  BY <1>2, NothingExpired DEF HasSlot
<1>4. Region(c, live, [tablesUsed EXCEPT ![s] = SaturatingSub(tablesUsed[s], 1)],
             [rowsUsed EXCEPT ![s] = SaturatingSub(rowsUsed[s], r.rows)], {s}, {})
  BY <1>3, NothingExpired DEF NoteTableDropped, WithEntry, s
<1>5. UNCHANGED <<live, removals>> /\ \A x \in Sessions : age'[x] = 0
  BY <1>1, <1>4 DEF Region, TypeOK, RemovalsOK, StoreInv, SessionInv
<1>6. /\ tablesUsed' = [tablesUsed EXCEPT ![s] = SaturatingSub(tablesUsed[s], 1)]
      /\ rowsUsed' = [rowsUsed EXCEPT ![s] = SaturatingSub(rowsUsed[s], r.rows)]
  BY <1>4 DEF Region
<1>7. Connects(c, "idle")
  BY <1>1, KeepsConnection
<1>8. Frame(c) /\ pc'[c] = "idle" /\ req'[c] = NoRequest
  BY <1>1, <1>5, <1>7, GotoFrame DEF Return
<1>9. ASSUME NEW x \in Sessions \ unremoved
      PROVE  /\ rowsUsed'[x] + StoredRows(x) + OwnRows(c, x)
                  = rowsUsed[x] + StoredRows(x)' + OwnRows(c, x)'
             /\ tablesUsed'[x] + StoredTables(x) + OwnTables(c, x)
                  = tablesUsed[x] + StoredTables(x)' + OwnTables(c, x)'
  <2>1. /\ OwnRows(c, x) = (IF x = s THEN r.rows ELSE 0)
        /\ OwnTables(c, x) = (IF x = s THEN 1 ELSE 0)
    BY <1>1 DEF OwnRows, OwnTables, Holds, HoldsTable, s
  <2>2. OwnRows(c, x)' = 0 /\ OwnTables(c, x)' = 0
    BY <1>8 DEF OwnRows, OwnTables, Holds, HoldsTable
  <2>3. StoredRows(x)' = StoredRows(x) /\ StoredTables(x)' = StoredTables(x)
    BY <1>1, SameStore
  <2>4. /\ OwnRows(c, x) <= rowsUsed[x] /\ OwnTables(c, x) <= tablesUsed[x]
        /\ rowsUsed[x] \in Nat /\ tablesUsed[x] \in Nat
        /\ StoredRows(x) \in Nat /\ StoredTables(x) \in Nat
    BY <1>1, Covered
  <2>5. tablesUsed \in [Sessions -> Nat] /\ rowsUsed \in [Sessions -> Nat]
    BY DEF TypeOK, LedgerOK
  <2>6. /\ rowsUsed'[x] = rowsUsed[x] - OwnRows(c, x)
        /\ tablesUsed'[x] = tablesUsed[x] - OwnTables(c, x)
    BY <1>2, <1>6, <2>1, <2>4, <2>5 DEF SaturatingSub
  <2>7. OwnRows(c, x) \in Nat /\ OwnTables(c, x) \in Nat
    BY <1>2, <2>1
  <2> QED
    BY <2>2, <2>3, <2>4, <2>6, <2>7
<1>10. ClientInv(c)'
  BY <1>1, <1>5, <1>7, <1>8 DEF ClientInv, RequestInv, FilesInv, RoomInv, Connects, NoRequest
<1>11. \A x \in Sessions : IsFiniteSet(DOMAIN disk'[x]) /\ disk'[x] = disk[x]
  BY <1>1 DEF StoreInv, SessionInv
<1>12. \A x \in Sessions : tablesUsed'[x] <= tablesUsed[x]
  BY <1>6 DEF SaturatingSub, TypeOK, LedgerOK
<1>13. StoreInv'
  BY <1>1, <1>5, <1>8, <1>9, <1>10, <1>11, <1>12, BookKeeps
<1> QED
  BY <1>1, <1>5, <1>13

-------------------------------------------------------------------------------
(* Close: the entry goes first, its file when the lock is released.          *)

LEMMA ReleaseSessionKeeps ==
  ASSUME LedgerInstance, TypeOK, TypeOK', StoreInv, NEW c \in Clients, NEW s \in Sessions,
         ReleaseSession(c, s)
  PROVE  StoreInv' /\ live' = live \ {s} /\ UNCHANGED <<disk, unremoved, limits>> /\ removals[c] = {}
<1>1. /\ pc[c] = "idle" /\ removals[c] = {} /\ "close" \in Ops /\ ClientInv(c)
      /\ UNCHANGED <<disk, unremoved, limits, thread>>
  BY DEF ReleaseSession, Calls, At, StoreInv
<1>2. Region(c, live \ {s}, [tablesUsed EXCEPT ![s] = 0], [rowsUsed EXCEPT ![s] = 0], {},
             live \cap {s})
  BY NothingExpired DEF ReleaseSession
<1>3. /\ live' = live \ {s}
      /\ tablesUsed' = [tablesUsed EXCEPT ![s] = 0] /\ rowsUsed' = [rowsUsed EXCEPT ![s] = 0]
      /\ removals' = [removals EXCEPT ![c] = live \cap {s}]
      /\ \A x \in Sessions : age'[x] = 0
  BY <1>2 DEF Region, StoreInv, SessionInv
<1>4. removals'[c] = live \cap {s} /\ \A d \in Clients \ {c} : removals'[d] = removals[d]
  BY <1>3 DEF TypeOK, RemovalsOK
<1>5. pc' = pc /\ req' = req /\ conn' = conn
  BY <1>1 DEF thread
<1>6. Frame(c)
  BY <1>4, <1>5 DEF Frame
<1>7. ASSUME NEW x \in Sessions
      PROVE  /\ tablesUsed'[x] = IF x = s THEN 0 ELSE tablesUsed[x]
             /\ rowsUsed'[x] = IF x = s THEN 0 ELSE rowsUsed[x]
             /\ tablesUsed'[x] <= tablesUsed[x]
  BY <1>3 DEF TypeOK, LedgerOK
<1>8. ClientInv(c)'
  BY <1>1, <1>3, <1>4, <1>5 DEF ClientInv, RequestInv, FilesInv, RoomInv
<1>9. ASSUME NEW d \in Clients
      PROVE  ClientInv(d)'
  <2>1. CASE d = c
    BY <1>8, <2>1
  <2>2. CASE d # c
    BY <1>1, <1>6, <1>7, <2>2, OthersKeep DEF limits
  <2> QED
    BY <2>1, <2>2
<1>10. ASSUME NEW x \in Sessions
       PROVE  SessionInv(x)'
  <2>1. /\ SessionInv(x) /\ ~Pending(x) /\ IsFiniteSet(Clients)
        /\ x \notin unremoved => Exact(x) /\ (x \notin live => disk[x] = EmptyDb)
    BY <1>1, NothingPending DEF StoreInv, LedgerInstance, Undisturbed
  <2>2. CASE x \in live \cap {s}
    <3>1. Pending(x)'
      BY <1>4, <2>2 DEF Pending
    <3> QED
      BY <1>1, <1>3, <2>1, <3>1 DEF SessionInv
  <2>3. CASE x \notin live \cap {s}
    <3>1. tablesUsed'[x] = tablesUsed[x] /\ rowsUsed'[x] = rowsUsed[x]
      BY <1>7, <2>3 DEF TypeOK, LedgerOK
    <3>2. StoredRows(x)' = StoredRows(x) /\ StoredTables(x)' = StoredTables(x)
      BY <1>1, SameStore
    <3>3. OwnRows(c, x)' = OwnRows(c, x) /\ OwnTables(c, x)' = OwnTables(c, x)
      BY <1>5 DEF OwnRows, OwnTables, Holds, HoldsTable
    <3>4. x \notin unremoved => Exact(x)'
      BY <1>1, <1>6, <2>1, <3>1, <3>2, <3>3, Balance DEF SessionInv
    <3> QED
      BY <1>1, <1>3, <2>1, <2>3, <3>4 DEF SessionInv
  <2> QED
    BY <2>2, <2>3
<1> QED
  BY <1>1, <1>3, <1>9, <1>10 DEF StoreInv

(* A file is removed, or stays, while nobody else is there to use it.        *)
LEMMA CleanupPathKeeps ==
  ASSUME LedgerInstance, TypeOK, TypeOK', StoreInv, NEW c \in Clients, CleanupPath(c)
  PROVE  /\ StoreInv' /\ UNCHANGED <<live, limits>>
         /\ \A s \in live : disk'[s] = disk[s] /\ (s \in unremoved' <=> s \in unremoved)
<1> DEFINE Removed(s) ==
             /\ disk' = [disk EXCEPT ![s] = EmptyDb]
             /\ unremoved' = unremoved \ {s}
             /\ conn' = [d \in Clients |-> IF conn[d].kind = "linked" /\ req[d].session = s
                                           THEN [kind |-> "orphan", db |-> disk[s]] ELSE conn[d]]
           Stays(s) == unremoved' = unremoved \cup {s} /\ UNCHANGED <<disk, conn>>
<1>1. PICK s \in removals[c] :
        /\ removals' = [removals EXCEPT ![c] = @ \ {s}]
        /\ Removed(s) \/ Stays(s)
        /\ UNCHANGED <<ledger, limits, pc, req>>
  BY DEF CleanupPath
<1>2. ClientInv(c)
  BY DEF StoreInv
<1>3. /\ s \in Sessions /\ s \notin live /\ "close" \in Ops /\ pc[c] = "idle"
      /\ conn[c].kind # "linked"
  BY <1>1, <1>2 DEF ClientInv, FilesInv, TypeOK, RemovalsOK
<1>4. \A d \in Clients : d = c
  BY <1>3 DEF LedgerInstance, Alone
<1>5. conn' = conn /\ live' = live /\ tablesUsed' = tablesUsed /\ rowsUsed' = rowsUsed /\ age' = age
  <2>1. CASE Stays(s)
    BY <1>1, <2>1 DEF ledger
  <2>2. CASE Removed(s)
    <3>1. conn' = [d \in Clients |-> conn[d]]
      BY <1>3, <1>4, <2>2
    <3>2. conn = [d \in Clients |-> conn[d]]
      BY DEF TypeOK, ConnOK
    <3> QED
      BY <1>1, <3>1, <3>2 DEF ledger
  <2> QED
    BY <1>1, <2>1, <2>2
<1>6. removals'[c] = removals[c] \ {s}
  BY <1>1 DEF TypeOK, RemovalsOK
<1>7. /\ disk'[s] \in {disk[s], EmptyDb}
      /\ s \notin unremoved' => disk'[s] = EmptyDb
      /\ \A x \in Sessions \ {s} : disk'[x] = disk[x] /\ (x \in unremoved' <=> x \in unremoved)
  BY <1>1, <1>3 DEF TypeOK, DiskOK
<1> HIDE DEF Removed, Stays
<1>8. ClientInv(c)'
  BY <1>1, <1>2, <1>3, <1>5, <1>6 DEF ClientInv, RequestInv, FilesInv, RoomInv, limits
<1>9. Frame(c) /\ IsFiniteSet(Clients)
  BY <1>4 DEF Frame, LedgerInstance, Undisturbed
<1>10. ASSUME NEW x \in Sessions
       PROVE  SessionInv(x)'
  <2>1. SessionInv(x) /\ age'[x] = 0
    BY <1>5 DEF StoreInv, SessionInv
  <2>2. CASE x # s
    <3>1. Pending(x)' <=> Pending(x)
      BY <1>4, <1>6, <2>2 DEF Pending
    <3>2. /\ StoredRows(x)' = StoredRows(x) /\ StoredTables(x)' = StoredTables(x)
          /\ OwnRows(c, x)' = OwnRows(c, x) /\ OwnTables(c, x)' = OwnTables(c, x)
          /\ rowsUsed'[x] = rowsUsed[x] /\ tablesUsed'[x] = tablesUsed[x]
          /\ disk'[x] = disk[x]
      BY <1>1, <1>5, <1>7, <2>2, SameStore DEF OwnRows, OwnTables, Holds, HoldsTable
    <3>3. Exact(x) => Exact(x)'
      BY <1>9, <2>1, <3>2, Balance DEF SessionInv
    <3> QED
      BY <1>5, <1>7, <2>1, <2>2, <3>1, <3>2, <3>3 DEF SessionInv
  <2>3. CASE x = s /\ s \in unremoved'
    <3>1. IsFiniteSet(DOMAIN disk'[s])
      BY <1>7, <2>1, <2>3, EmptySum DEF SessionInv
    <3> QED
      BY <2>1, <2>3, <3>1 DEF SessionInv
  <2>4. CASE x = s /\ s \notin unremoved'
    <3>1. /\ rowsUsed'[s] = 0 /\ tablesUsed'[s] = 0
      BY <1>3, <1>5 DEF TypeOK, LedgerOK
    <3>2. StoredRows(s)' = 0 /\ StoredTables(s)' = 0 /\ IsFiniteSet(DOMAIN disk'[s])
      BY <1>7, <2>4, EmptySum DEF StoredRows, StoredTables
    <3>3. OwnRows(c, s)' = 0 /\ OwnTables(c, s)' = 0
      BY <1>1, <1>3 DEF OwnRows, OwnTables, Holds, HoldsTable
    <3>4. OtherRows(c, s) = 0 /\ OtherTables(c, s) = 0
      <4>1. Holders(s) \ {c} = {} /\ TableHolders(s) \ {c} = {}
        BY <1>4 DEF Holders, TableHolders
      <4> QED
        BY <4>1, SumEmpty, FS_EmptySet DEF OtherRows, OtherTables
    <3>5. OtherRows(c, s)' = 0 /\ OtherTables(c, s)' = 0
      BY <1>9, <3>4, OthersHold
    <3>6. Split(c, s)'
      BY <1>3, <1>9, NextCounts DEF SplitCounts
    <3>7. Exact(s)'
      BY <3>1, <3>2, <3>3, <3>5, <3>6 DEF Exact, Split, StoredTables
    <3> QED
      BY <1>7, <2>1, <2>4, <3>2, <3>7 DEF SessionInv
  <2> QED
    BY <2>2, <2>3, <2>4
<1>11. StoreInv'
  BY <1>4, <1>8, <1>10 DEF StoreInv
<1>12. \A x \in live : x \in Sessions /\ x # s
  BY <1>3 DEF TypeOK, LedgerOK
<1> QED
  BY <1>1, <1>5, <1>7, <1>11, <1>12

-------------------------------------------------------------------------------
(* All steps.                                                                *)

LEMMA InitStore ==
  ASSUME LedgerInstance, Init
  PROVE  StoreInv
<1>1. TypeOK
  BY InitType
<1>2. \A c \in Clients : req[c] = NoRequest /\ pc[c] = "idle" /\ conn[c] = NoConnection /\ removals[c] = {}
  BY DEF Init
<1>3. \A c \in Clients : ClientInv(c)
  BY <1>2 DEF ClientInv, RequestInv, FilesInv, RoomInv, NoRequest, NoConnection
<1>4. ASSUME NEW s \in Sessions
      PROVE  SessionInv(s)
  <2>1. disk[s] = EmptyDb /\ rowsUsed[s] = 0 /\ tablesUsed[s] = 0 /\ age[s] = 0
    BY DEF Init
  <2>2. Holders(s) = {} /\ TableHolders(s) = {}
    BY <1>2 DEF Holders, TableHolders, Holds, HoldsTable
  <2>3. RowsInFlight(s) = 0 /\ TablesInFlight(s) = 0
    BY <2>2, InFlight, SumEmpty, FS_EmptySet
  <2>4. Exact(s)
    BY <2>1, <2>3, EmptySum DEF Exact, StoredRows
  <2> QED
    BY <2>1, <2>4, EmptySum DEF SessionInv
<1> QED
  BY <1>3, <1>4 DEF StoreInv

(* What a step does to the sessions and their databases.                     *)
Closes(s) == live' = live \ {s} /\ UNCHANGED <<disk, unremoved, limits>>
Cleans ==
  /\ UNCHANGED <<live, limits>>
  /\ \A s \in live : disk'[s] = disk[s] /\ (s \in unremoved' <=> s \in unremoved)

StoreStep(c) ==
  \/ LedgerStands /\ removals[c] = {}
  \/ Cleans
  \/ Commits(c) /\ pc[c] = "write" /\ removals[c] = {}
  \/ Drops(c)
  \/ \E s \in Sessions : Closes(s)

LEMMA CallKeeps ==
  ASSUME LedgerInstance, TypeOK, TypeOK', StoreInv, NEW c \in Clients, Call(c)
  PROVE  StoreInv' /\ StoreStep(c)
<1>1. ASSUME StoreInv', Steady(c), At(c, "idle")
      PROVE  StoreInv' /\ StoreStep(c)
  BY <1>1 DEF Steady, StoreStep, At
<1>2. CASE ListSessions(c) \/ CleanupExpired(c)
  BY <1>1, <1>2, PruneKeeps DEF ListSessions, CleanupExpired, Calls
<1>3. CASE CountForSample(c)
  BY <1>1, <1>3, SampleKeeps DEF CountForSample, Calls
<1>4. CASE \E m \in LimitValues : SetMaxSessionsLimit(c, m) \/ SetMaxTablesLimit(c, m)
  BY <1>1, <1>4, SetLimitsKeeps DEF SetMaxSessionsLimit, SetMaxTablesLimit, Calls
<1>5. ASSUME NEW s \in Sessions, NEW op \in {"open", "query"}, EnsureSession(c, op, s)
      PROVE  StoreInv' /\ StoreStep(c)
  BY <1>1, <1>5, EnsureSessionKeeps DEF EnsureSession, Calls
<1>6. ASSUME NEW s \in Sessions, ReleaseSession(c, s)
      PROVE  StoreInv' /\ StoreStep(c)
  BY <1>6, ReleaseSessionKeeps DEF StoreStep, Closes
<1>7. ASSUME NEW s \in Sessions, ListTables(c, s)
      PROVE  StoreInv' /\ StoreStep(c)
  <2>1. Asks("list", s).op = "list" /\ ExistingSession(c, Asks("list", s))
    BY <1>7 DEF ListTables, Asks, NoRequest
  <2>2. StoreInv' /\ Steady(c)
    BY <2>1, ExistingSessionKeeps
  <2> QED
    BY <1>1, <2>1, <2>2 DEF ExistingSession, Calls
<1>8. ASSUME NEW s \in Sessions, NEW t \in Tables, NEW b \in BOOLEAN, DropTable(c, s, t, b)
      PROVE  StoreInv' /\ StoreStep(c)
  <2> DEFINE r == [AsksTable("drop", s, t) EXCEPT !.if_exists = b]
  <2>1. r.op = "drop" /\ ExistingSession(c, r)
    BY <1>8 DEF DropTable, AsksTable, Asks, NoRequest
  <2> HIDE DEF r
  <2>2. StoreInv' /\ Steady(c)
    BY <2>1, ExistingSessionKeeps
  <2> QED
    BY <1>1, <2>1, <2>2 DEF ExistingSession, Calls
<1>9. ASSUME NEW s \in Sessions,
             NoteTableCreated(c, s) \/ \E n \in BatchSizes : NoteRowsIngested(c, s, n)
      PROVE  FALSE
  BY <1>9 DEF NoteTableCreated, NoteRowsIngested, Calls, LedgerInstance, Undisturbed
<1>10. ASSUME NEW s \in Sessions, NEW t \in Tables, NEW op \in {"create", "append"},
              NEW n \in BatchSizes, ReserveIngestCapacity(c, op, s, t, n)
       PROVE  StoreInv' /\ StoreStep(c)
  <2>1. At(c, "idle")
    BY <1>10 DEF ReserveIngestCapacity, Calls
  <2>2. StoreInv' /\ (Steady(c) \/ UNCHANGED <<live, disk, unremoved, limits, removals>>)
    BY <1>10, ReserveKeeps
  <2> QED
    BY <1>1, <2>1, <2>2 DEF StoreStep, Cleans
<1> QED
  BY <1>2, <1>3, <1>4, <1>5, <1>6, <1>7, <1>8, <1>9, <1>10 DEF Call

LEMMA ProceedKeeps ==
  ASSUME LedgerInstance, TypeOK, TypeOK', StoreInv, NEW c \in Clients, Proceed(c)
  PROVE  StoreInv' /\ StoreStep(c)
<1>1. ASSUME StoreInv', Steady(c), removals[c] = {}
      PROVE  StoreInv' /\ StoreStep(c)
  BY <1>1 DEF Steady, StoreStep
<1>2. CASE CleanupPath(c)
  BY <1>2, CleanupPathKeeps DEF StoreStep, Cleans
<1>3. CASE OpenConnection(c)
  BY <1>1, <1>3, OpenConnectionKeeps DEF OpenConnection, At
<1>4. CASE ReadDatabase(c)
  BY <1>1, <1>4, ReadDatabaseKeeps DEF ReadDatabase, At
<1>5. CASE SessionInfo(c) \/ SessionSnapshot(c) \/ CountAfterSet(c)
  BY <1>1, <1>5, LastRegionKeeps DEF SessionInfo, SessionSnapshot, CountAfterSet, At
<1>6. CASE PersistIngestTable(c)
  <2>1. removals[c] = {}
    BY <1>6 DEF PersistIngestTable, PersistIngestFailingTo, At
  <2> QED
    BY <1>1, <1>6, <2>1, PersistKeeps DEF StoreStep
<1>7. CASE RollbackIngestCapacity(c)
  BY <1>7, RollbackKeeps DEF StoreStep, Cleans
<1>8. CASE InspectTable(c)
  BY <1>1, <1>8, InspectTableKeeps DEF InspectTable, At
<1>9. CASE ExecuteDrop(c)
  <2>1. removals[c] = {}
    BY <1>9 DEF ExecuteDrop, At
  <2> QED
    BY <1>1, <1>9, <2>1, ExecuteDropKeeps DEF StoreStep
<1>10. CASE NoteTableDropped(c)
  BY <1>10, NoteTableDroppedKeeps DEF StoreStep, Cleans
<1>11. CASE SetMaxTablesToo(c)
  BY <1>1, <1>11, SetLimitsKeeps DEF SetMaxTablesToo, At
<1>12. CASE SampleSessions(c)
  BY <1>1, <1>12, SampleKeeps DEF SampleSessions, At
<1>13. CASE ProbeSession(c)
  BY <1>1, <1>13, ProbeSessionKeeps DEF ProbeSession, Probe, At
<1> QED
  BY <1>2, <1>3, <1>4, <1>5, <1>6, <1>7, <1>8, <1>9, <1>10, <1>11, <1>12, <1>13 DEF Proceed

LEMMA NextStore ==
  ASSUME LedgerInstance, TypeOK, TypeOK', StoreInv, Next
  PROVE  StoreInv' /\ \E c \in Clients : StoreStep(c)
<1>1. ~Tick /\ ~Restart
  BY DEF Tick, Restart, LedgerInstance, Undisturbed
<1> QED
  BY <1>1, CallKeeps, ProceedKeeps DEF Next

LEMMA StutterStore ==
  ASSUME StoreInv, UNCHANGED vars
  PROVE  StoreInv'
<1>1. /\ live' = live /\ tablesUsed' = tablesUsed /\ rowsUsed' = rowsUsed /\ age' = age
      /\ maxTables' = maxTables /\ disk' = disk /\ unremoved' = unremoved /\ pc' = pc /\ req' = req /\ conn' = conn
      /\ removals' = removals
  BY DEF vars, ledger, limits, thread
<1>2. ASSUME NEW c \in Clients
      PROVE  ClientInv(c)'
  BY <1>1 DEF StoreInv, ClientInv, RequestInv, FilesInv, RoomInv
<1>3. ASSUME NEW s \in Sessions
      PROVE  SessionInv(s)'
  BY <1>1 DEF StoreInv, SessionInv, Pending, Exact, StoredRows, RowsInFlight, TablesInFlight,
              Ingesting, Reclaiming
<1> QED
  BY <1>2, <1>3 DEF StoreInv

LEMMA StoreInvariant ==
  ASSUME LedgerInstance
  PROVE  Spec => [](TypeOK /\ StoreInv)
<1>1. Init => TypeOK /\ StoreInv
  BY InitType, InitStore
<1>2. TypeOK /\ StoreInv /\ [Next]_vars => TypeOK' /\ StoreInv'
  BY NextType, NextStore, StutterStore
<1> QED
  BY <1>1, <1>2, PTL DEF Spec

(* The ledger counts what is stored and what is on its way, at every moment  *)
(* of every request: for any number of sessions and tables, any limits and   *)
(* batches, with any statement failing, whether one client calls every tool  *)
(* or many clients ingest at once.  A session opened again on a file whose   *)
(* removal had failed is excepted until a later removal succeeds.            *)
THEOREM LedgerCounts ==
  ASSUME LedgerInstance
  PROVE  Spec => []LedgerExact
<1>1. ASSUME TypeOK, StoreInv, NEW s \in live \ unremoved
      PROVE  Exact(s)
  <2>1. s \in Sessions /\ ~Pending(s)
    BY <1>1 DEF TypeOK, LedgerOK, StoreInv, ClientInv, FilesInv, Pending
  <2> QED
    BY <1>1, <2>1 DEF StoreInv, SessionInv
<1>2. TypeOK /\ StoreInv => LedgerExact
  BY <1>1 DEF LedgerExact, Exact
<1> QED
  BY <1>2, StoreInvariant, PTL

(* There the database of no live session outgrows the row quota, but of one  *)
(* that was opened on a file whose removal had failed: otherwise it takes a  *)
(* drop or a close that interleaves with another request to store more than  *)
(* is booked.                                                                *)
THEOREM StoredRowsBounded ==
  ASSUME LedgerInstance
  PROVE  Spec => []StoredWithinLimit
<1>1. ASSUME TypeOK, StoreInv, RowsWithinLimit, NEW s \in live \ unremoved
      PROVE  StoredRows(s) <= MaxRows
  <2>1. s \in Sessions /\ ~Pending(s) /\ IsFiniteSet(DOMAIN disk[s]) /\ IsFiniteSet(Clients)
    BY <1>1 DEF TypeOK, LedgerOK, StoreInv, SessionInv, ClientInv, FilesInv, Pending, LedgerInstance,
                Undisturbed
  <2>2. rowsUsed[s] = StoredRows(s) + RowsInFlight(s)
    BY <1>1, <2>1 DEF StoreInv, SessionInv, Exact
  <2>3. RowsInFlight(s) \in Nat
    <3>1. IsFiniteSet(Holders(s)) /\ \A c \in Holders(s) : RequestRows[c] \in Nat
      BY <1>1, <2>1, FS_Subset DEF Holders, RequestRows, TypeOK, ThreadOK, Request
    <3> QED
      BY <3>1, InFlight, SumType
  <2>4. StoredRows(s) \in Nat /\ rowsUsed[s] <= MaxRows /\ MaxRows \in Nat
    BY <1>1, <2>1, StoredType, ConfigAssumption
    DEF StoredCounts, RowsWithinLimit, ConfigAssumption
  <2> QED
    BY <2>2, <2>3, <2>4
<1>2. TypeOK /\ StoreInv /\ RowsWithinLimit => StoredWithinLimit
  BY <1>1 DEF StoredWithinLimit
<1> QED
  BY <1>2, StoreInvariant, RowLedgerBounded, PTL

-------------------------------------------------------------------------------
(* The refinement.                                                           *)

(* Where nothing expires, what a user sees of a session is its entry and,    *)
(* under it, the file that began with it.                                    *)
Seen == live \ unremoved
View == [s \in Sessions |-> IF s \in Seen THEN disk[s] ELSE EmptyDb]
Mapped == OpenSessions = Seen /\ OpenDatabases = View

LEMMA Mapping == TypeOK /\ StoreInv => Mapped
<1> SUFFICES ASSUME TypeOK, StoreInv
             PROVE  Mapped
  OBVIOUS
<1>1. OpenSessions = Seen
  BY NothingExpired DEF OpenSessions, Seen
<1>2. \A s \in Seen : \A c \in Clients : s \notin removals[c]
  BY DEF StoreInv, ClientInv, FilesInv, Seen
<1>3. OpenDatabases = View
  BY <1>1, <1>2 DEF OpenDatabases, View
<1> QED
  BY <1>1, <1>3 DEF Mapped

LEMMA NextMapping == TypeOK' /\ StoreInv' => Mapped'
BY Mapping, PTL

LEMMA BothMapped ==
  ASSUME TypeOK, TypeOK', StoreInv, StoreInv'
  PROVE  /\ OpenSessions = Seen /\ OpenDatabases = View
         /\ OpenSessions' = Seen' /\ OpenDatabases' = View'
BY Mapping, NextMapping DEF Mapped

(* The sum of the abstract store is the sum of the community module.         *)
LEMMA SameSum == \A f : Store!SumFunction(f) = SumFunction(f)
BY Zenon DEF SumFunction, SumFunctionOnSet, FoldFunctionOnSet, MapThenFoldSet,
             Store!SumFunction, Store!SumFunctionOnSet, Store!FoldFunctionOnSet, Store!MapThenFoldSet

LEMMA SameCardinality == \A S : Store!Cardinality(S) = Cardinality(S)
BY Zenon DEF Cardinality, Store!Cardinality

(* A step that leaves what is seen, and the limits, is a stutter.            *)
LEMMA UnseenImplements ==
  ASSUME TypeOK, TypeOK', StoreInv, StoreInv', UNCHANGED limits,
         Seen' = Seen, \A s \in Seen : disk'[s] = disk[s]
  PROVE  UNCHANGED Store!vars
<1>1. View' = View
  BY DEF View
<1> QED
  BY <1>1, BothMapped DEF Store!vars, limits

LEMMA StandsImplements ==
  ASSUME StoreInstance, TypeOK, TypeOK', StoreInv, StoreInv', NEW c \in Clients,
         LedgerStands, removals[c] = {}
  PROVE  Store!Next \/ UNCHANGED Store!vars
<1>1. OpenSessions = Seen /\ OpenDatabases = View /\ OpenSessions' = Seen' /\ OpenDatabases' = View'
  BY BothMapped
<1>2. disk' = disk /\ unremoved' = unremoved
  BY DEF LedgerStands
<1>3. CASE live' = live /\ UNCHANGED limits
  BY <1>2, <1>3, UnseenImplements DEF Seen
<1>4. ASSUME NEW s \in Sessions \ live, live' = live \cup {s}, Cardinality(live) < maxSessions,
             UNCHANGED limits
      PROVE  Store!Next \/ UNCHANGED Store!vars
  <2>1. CASE s \in unremoved
    BY <1>2, <1>4, <2>1, UnseenImplements DEF Seen
  <2>2. CASE s \notin unremoved
    <3>1. disk[s] = EmptyDb
      BY <2>2, NothingPending DEF StoreInstance
    <3>2. View' = View /\ Seen' = Seen \cup {s} /\ s \notin Seen
      BY <1>2, <1>4, <2>2, <3>1 DEF View, Seen
    <3>3. Cardinality(Seen) < maxSessions
      <4>1. IsFiniteSet(live)
        BY ConfigAssumption, FS_Subset DEF TypeOK, LedgerOK, ConfigAssumption
      <4>2. Seen \subseteq live
        BY DEF Seen
      <4>3. /\ Cardinality(Seen) <= Cardinality(live)
            /\ Cardinality(Seen) \in Nat /\ Cardinality(live) \in Nat
        BY <4>1, <4>2, FS_Subset, FS_CardinalityType
      <4> QED
        BY <1>4, <4>3 DEF TypeOK, LimitsOK
    <3>4. Store!Enter(s)
      BY <1>1, <1>4, <3>2, <3>3, SameCardinality DEF Store!Enter, limits
    <3> QED
      BY <3>4 DEF Store!Next
  <2> QED
    BY <2>1, <2>2
<1>5. CASE StoresLimits
  <2>1. View' = View /\ Seen' = Seen
    BY <1>2, <1>5 DEF View, Seen, StoresLimits
  <2>2. Store!SetLimits
    BY <1>1, <1>5, <2>1 DEF Store!SetLimits, StoresLimits
  <2> QED
    BY <2>2 DEF Store!Next
<1> QED
  BY <1>3, <1>4, <1>5 DEF LedgerStands, Enters

LEMMA CommitImplements ==
  ASSUME StoreInstance, TypeOK, TypeOK', StoreInv, StoreInv', RowsWithinLimit, NEW c \in Clients,
         Commits(c), pc[c] = "write", removals[c] = {}, req[c].session \notin unremoved
  PROVE  Store!Next
<1> DEFINE r == req[c]
           s == r.session
           t == r.table
           n == r.rows
<1>1. OpenSessions = Seen /\ OpenDatabases = View /\ OpenSessions' = Seen' /\ OpenDatabases' = View'
  BY BothMapped
<1>2. /\ s \in Seen /\ s \in Sessions \ unremoved /\ t \in Tables /\ n \in BatchSizes /\ n \in Nat
      /\ Accepts(disk[s], r) /\ r.op \in {"create", "append"}
      /\ disk' = [disk EXCEPT ![s] = Ingested(@, r)]
      /\ Seen' = Seen /\ UNCHANGED limits
  BY ConfigAssumption DEF Commits, Seen, TypeOK, LedgerOK, ConfigAssumption
<1>3. disk[s] \in Databases /\ disk \in [Sessions -> Databases]
  BY <1>2 DEF TypeOK, DiskOK
<1>4. View[s] = disk[s] /\ View = [x \in Sessions |-> View[x]]
  BY <1>2 DEF View
<1>5. OwnRows(c, s) = n /\ (r.op = "create" => OwnTables(c, s) = 1)
  BY <1>2 DEF OwnRows, OwnTables, Holds, HoldsTable
<1>6. Store!TotalRows(s) + n <= MaxRows
  <2>1. /\ StoredRows(s) + OwnRows(c, s) <= rowsUsed[s]
        /\ StoredRows(s) \in Nat /\ rowsUsed[s] \in Nat
    BY <1>2, Covered DEF StoreInstance
  <2>2. rowsUsed[s] <= MaxRows /\ MaxRows \in Nat
    BY <1>2, ConfigAssumption DEF RowsWithinLimit, ConfigAssumption
  <2>3. Store!TotalRows(s) = StoredRows(s)
    BY <1>1, <1>4, SameSum DEF Store!TotalRows, StoredRows
  <2> QED
    BY <1>2, <1>5, <2>1, <2>2, <2>3
<1> DEFINE new == [x \in DOMAIN disk[s] \cup {t} |->
                     (IF x \in DOMAIN disk[s] THEN disk[s][x] ELSE 0) + (IF x = t THEN n ELSE 0)]
<1>7. Ingested(disk[s], r) = new
  <2>1. \A x \in DOMAIN disk[s] : disk[s][x] \in Nat
    BY <1>3, DatabaseShape
  <2> QED
    BY <1>2, <2>1 DEF Ingested, WithTable
<1>8. View' = [View EXCEPT ![s] = new]
  BY <1>2, <1>3, <1>7 DEF View
<1>9. Store!Store(s, t, n)
  <2>1. View' = [View EXCEPT ![s] = [x \in DOMAIN View[s] \cup {t} |->
                   (IF x \in DOMAIN View[s] THEN View[s][x] ELSE 0) + (IF x = t THEN n ELSE 0)]]
    BY <1>4, <1>8
  <2> QED
    BY <1>1, <1>2, <1>6, <2>1 DEF Store!Store, limits
<1>10. CASE r.op = "create"
  <2>1. t \notin DOMAIN View[s]
    BY <1>2, <1>4, <1>10 DEF Accepts
  <2>2. tablesUsed[s] <= maxTables
    BY <1>10 DEF StoreInv, ClientInv, RoomInv, StoreInstance
  <2>3. /\ StoredTables(s) + OwnTables(c, s) <= tablesUsed[s]
        /\ StoredTables(s) \in Nat /\ tablesUsed[s] \in Nat
    BY <1>2, Covered DEF StoreInstance
  <2>4. StoredTables(s) < maxTables
    BY <1>5, <1>10, <2>2, <2>3 DEF TypeOK, LimitsOK
  <2>5. Store!Create(s, t, n)
    BY <1>1, <1>4, <1>9, <2>1, <2>4, SameCardinality DEF Store!Create, StoredTables
  <2> QED
    BY <1>2, <2>5 DEF Store!Next
<1>11. CASE r.op = "append"
  <2>1. t \in DOMAIN View[s]
    BY <1>2, <1>4, <1>11 DEF Accepts
  <2>2. Store!Append(s, t, n)
    BY <1>1, <1>9, <2>1 DEF Store!Append
  <2> QED
    BY <1>2, <2>2 DEF Store!Next
<1> QED
  BY <1>2, <1>10, <1>11

LEMMA DropImplements ==
  ASSUME TypeOK, TypeOK', StoreInv, StoreInv', NEW c \in Clients, Drops(c),
         req[c].session \notin unremoved
  PROVE  Store!Next
<1> DEFINE s == req[c].session
           t == req[c].table
<1>1. OpenSessions = Seen /\ OpenDatabases = View /\ OpenSessions' = Seen' /\ OpenDatabases' = View'
  BY BothMapped
<1>2. /\ s \in Seen /\ s \in Sessions /\ t \in DOMAIN disk[s]
      /\ disk' = [disk EXCEPT ![s] = WithoutTable(@, t)]
      /\ Seen' = Seen /\ UNCHANGED limits
  BY DEF Drops, Seen, TypeOK, LedgerOK
<1>3. disk \in [Sessions -> Databases] /\ t \in Tables
  BY <1>2, DatabaseShape DEF TypeOK, DiskOK
<1>4. View[s] = disk[s] /\ View' = [View EXCEPT ![s] = WithoutTable(disk[s], t)]
  BY <1>2, <1>3 DEF View
<1>5. Store!Drop(s, t)
  BY <1>1, <1>2, <1>4 DEF Store!Drop, Store!Restrict, WithoutTable, Restrict, limits
<1> QED
  BY <1>2, <1>3, <1>5 DEF Store!Next

(* What is written or dropped in a file that could not be removed is not     *)
(* seen.                                                                     *)
LEMMA LeftOverImplements ==
  ASSUME TypeOK, TypeOK', StoreInv, StoreInv', NEW c \in Clients,
         Commits(c) \/ Drops(c), req[c].session \in unremoved
  PROVE  UNCHANGED Store!vars
<1>1. \A s \in Sessions \ unremoved : disk'[s] = disk[s]
  BY DEF Commits, Drops, TypeOK, DiskOK
<1>2. Seen' = Seen /\ Seen \subseteq Sessions \ unremoved /\ UNCHANGED limits
  BY DEF Commits, Drops, Seen, TypeOK, LedgerOK
<1> QED
  BY <1>1, <1>2, UnseenImplements

LEMMA CloseImplements ==
  ASSUME TypeOK, TypeOK', StoreInv, StoreInv', NEW s \in Sessions, Closes(s)
  PROVE  Store!Next
<1>1. OpenSessions = Seen /\ OpenDatabases = View /\ OpenSessions' = Seen' /\ OpenDatabases' = View'
  BY BothMapped
<1> DEFINE gone == Seen \cap {s}
<1>2. Seen' = Seen \ gone /\ gone \in SUBSET Seen
  BY DEF Closes, Seen
<1>3. View' = [x \in Sessions |-> IF x \in gone THEN EmptyDb ELSE View[x]]
  BY DEF View, Seen, Closes
<1>4. EmptyDb = Store!Empty
  BY DEF EmptyDb, Store!Empty
<1>5. Store!Leave(gone)
  BY <1>1, <1>2, <1>3, <1>4 DEF Store!Leave, Closes, limits
<1> QED
  BY <1>1, <1>2, <1>5 DEF Store!Next

LEMMA StepImplements ==
  ASSUME StoreInstance, TypeOK, TypeOK', StoreInv, StoreInv', RowsWithinLimit, [Next]_vars
  PROVE  Store!Next \/ UNCHANGED Store!vars
<1>1. ASSUME Cleans  PROVE UNCHANGED Store!vars
  BY <1>1, UnseenImplements DEF Cleans, Seen
<1>2. CASE UNCHANGED vars
  BY <1>1, <1>2 DEF vars, ledger, Cleans
<1>3. CASE Next
  <2>1. PICK c \in Clients : StoreStep(c)
    BY <1>3, NextStore DEF StoreInstance
  <2> QED
    BY <1>1, <2>1, StandsImplements, CommitImplements, DropImplements, LeftOverImplements,
       CloseImplements
    DEF StoreStep
<1> QED
  BY <1>2, <1>3

LEMMA InitImplements ==
  ASSUME StoreInstance, Init
  PROVE  Store!Init
<1>1. Mapped
  BY InitType, InitStore, Mapping DEF StoreInstance
<1>2. Seen = {} /\ maxSessions = InitSessions /\ maxTables = InitTables
  BY DEF Init, Seen
<1>3. View = [s \in Sessions |-> Store!Empty]
  BY <1>2 DEF View, EmptyDb, Store!Empty
<1> QED
  BY <1>1, <1>2, <1>3, ConfigAssumption DEF Mapped, Store!Init, ConfigAssumption

(* The sessions a user sees are atomic stores: the mutex, the ledger, the    *)
(* three regions of an ingest with their refunds, the removal of files after *)
(* the lock and the engine's failures together do nothing that one atomic    *)
(* enter, leave, create, append, drop or change of limits does not, and      *)
(* every quota holds of what the databases contain.  A session over a file   *)
(* whose removal failed is not among them until a later removal succeeds.    *)
THEOREM ScratchpadImplementsStore ==
  ASSUME StoreInstance
  PROVE  Spec => StoreSpec
<1>1. Init => Store!Init
  BY InitImplements
<1>2. TypeOK /\ StoreInv /\ RowsWithinLimit /\ TypeOK' /\ StoreInv' /\ [Next]_vars
        => [Store!Next]_(Store!vars)
  BY StepImplements
<1>3. Spec => [](TypeOK /\ StoreInv)
  BY StoreInvariant DEF StoreInstance
<1> QED
  BY <1>1, <1>2, <1>3, RowLedgerBounded, PTL DEF Spec, StoreSpec, Store!Spec
===============================================================================
