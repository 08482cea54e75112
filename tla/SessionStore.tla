------------------------------ MODULE SessionStore ------------------------------
(***************************************************************************)
(* What the scratchpad promises its users, with none of its mechanism: a   *)
(* set of open sessions, each with a database of its own that begins empty *)
(* and ends with the session, every operation atomic, every quota measured *)
(* on what the databases really hold.  There is no ledger, no file, no     *)
(* lock and no cleanup here; ScratchpadSessions has them and implements    *)
(* this under the mapping given there.                                     *)
(***************************************************************************)
EXTENDS Integers, FiniteSets, Functions

CONSTANTS Sessions, Tables, BatchSizes, LimitValues, MaxRows

VARIABLES
  open,         \* the sessions a user may work in
  db,           \* their databases; empty where the session is not open
  maxSessions,  \* runtime limits
  maxTables

vars == <<open, db, maxSessions, maxTables>>

Empty == [t \in {} |-> 0]
TotalRows(s) == SumFunction(db[s])

Init ==
  /\ open = {}
  /\ db = [s \in Sessions |-> Empty]
  /\ maxSessions \in Nat \ {0} /\ maxTables \in Nat \ {0}

Enter(s) ==
  /\ s \notin open /\ Cardinality(open) < maxSessions
  /\ open' = open \cup {s}
  /\ UNCHANGED <<db, maxSessions, maxTables>>

(* Sessions are closed or expire, and take their data with them.             *)
Leave(gone) ==
  /\ open' = open \ gone
  /\ db' = [s \in Sessions |-> IF s \in gone THEN Empty ELSE db[s]]
  /\ UNCHANGED <<maxSessions, maxTables>>

Store(s, t, n) ==
  /\ s \in open
  /\ TotalRows(s) + n <= MaxRows
  /\ db' = [db EXCEPT ![s] = [x \in DOMAIN @ \cup {t} |->
              (IF x \in DOMAIN @ THEN @[x] ELSE 0) + (IF x = t THEN n ELSE 0)]]
  /\ UNCHANGED <<open, maxSessions, maxTables>>

Create(s, t, n) ==
  /\ t \notin DOMAIN db[s] /\ Cardinality(DOMAIN db[s]) < maxTables
  /\ Store(s, t, n)

Append(s, t, n) == t \in DOMAIN db[s] /\ Store(s, t, n)

Drop(s, t) ==
  /\ s \in open /\ t \in DOMAIN db[s]
  /\ db' = [db EXCEPT ![s] = Restrict(@, DOMAIN @ \ {t})]
  /\ UNCHANGED <<open, maxSessions, maxTables>>

SetLimits ==
  /\ maxSessions' \in (LimitValues \ {0}) \cup {maxSessions}
  /\ maxTables' \in (LimitValues \ {0}) \cup {maxTables}
  /\ UNCHANGED <<open, db>>

Next ==
  \/ \E gone \in SUBSET open : Leave(gone)
  \/ SetLimits
  \/ \E s \in Sessions :
       \/ Enter(s)
       \/ \E t \in Tables : Drop(s, t) \/ \E n \in BatchSizes : Create(s, t, n) \/ Append(s, t, n)

Spec == Init /\ [][Next]_vars
=============================================================================
