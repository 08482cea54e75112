--------------------------- MODULE GuardedQuery_proofs ---------------------------
(***************************************************************************)
(* Proofs of the safety properties of GuardedQuery, for every set of       *)
(* timeouts, any number of statements and any clock horizon above the      *)
(* timeouts.                                                               *)
(***************************************************************************)
EXTENDS GuardedQuery, TLAPS

(* The watcher's clock starts after the call's and never runs ahead of it;   *)
(* the watcher interrupts for one reason, which still holds when its thread  *)
(* is joined.                                                                *)
Watching ==
  /\ watched <= spent
  /\ due = "timeout" => hooks.timeout > 0 /\ watched >= hooks.timeout
  /\ due = "cancelled" => cancelled
  /\ watcher = "interrupt" => due # "none"
  /\ reason # "none" => reason = due

(* An interrupted statement has a watcher that sent the interrupt, and a     *)
(* value has every statement behind it.                                      *)
Executed ==
  /\ flagged => reason # "none"
  /\ result = "interrupted" => reason # "none"
  /\ result = "ok" => left = 0

GuardInv == TypeOK /\ Watching /\ Executed /\ OutcomeJustified /\ InterruptNamed

-----------------------------------------------------------------------------

LEMMA InitGuard == Init => GuardInv
<1>1. SUFFICES ASSUME Init PROVE GuardInv
  OBVIOUS
<1>2. Shapes
  <2>1. left \in Nat
    BY <1>1, ClockAssumption DEF Init
  <2>2. QED
    BY <1>1, <2>1 DEF Init, Shapes, Preparing, Executing, Polling, Results, Reasons
<1>3. ThreadsAgree
  BY <1>1 DEF Init, ThreadsAgree, Preparing, WatcherGone
<1>4. Watching /\ Executed
  BY <1>1 DEF Init, Watching, Executed
<1>5. OutcomeJustified /\ InterruptNamed
  BY <1>1 DEF Init, OutcomeJustified, InterruptNamed
<1>6. QED
  BY <1>2, <1>3, <1>4, <1>5 DEF GuardInv, TypeOK

(* A verdict is a reason, a timeout, or what execute returned.               *)
LEMMA VerdictType ==
  ASSUME Shapes, result # "none"
  PROVE  Verdict \in Results \cup Reasons
BY DEF Shapes, Verdict, Results, Reasons

LEMMA CallShapes ==
  ASSUME TypeOK, CallStep \/ FinishStatement \/ StatementFails
  PROVE  Shapes'
<1>0. CASE FinishStatement
  <2>1. left' \in Nat
    BY <1>0 DEF FinishStatement, TypeOK, Shapes, ThreadsAgree, StatementsRemain
  <2>2. /\ pc' = "between" /\ flagged' = FALSE
        /\ UNCHANGED <<hooks, cancelled, result, stop, spent, outcome, watch>>
    BY <1>0 DEF FinishStatement
  <2>3. QED
    BY <2>1, <2>2 DEF TypeOK, Shapes, Executing, watch
<1> USE DEF TypeOK, Shapes, Preparing, Executing, Polling, Results, Reasons, call, watch, Unwatched
<1>1. CASE Validate
  BY <1>1 DEF Validate
<1>2. CASE CheckCancelledBefore
  BY <1>2 DEF CheckCancelledBefore
<1>3. CASE RefuseConnection
  BY <1>3 DEF RefuseConnection
<1>4. CASE OpenAndSpawn
  BY <1>4 DEF OpenAndSpawn
<1>5. CASE StartStatement
  BY <1>5 DEF StartStatement
<1>6. CASE EndExecute
  BY <1>6 DEF EndExecute
<1>7. CASE StopWatcher
  BY <1>7 DEF StopWatcher
<1>8. CASE Return
  <2>1. outcome' \in Results \cup Reasons
    BY <1>8, VerdictType DEF Return, ThreadsAgree
  <2>2. QED
    BY <1>8, <2>1 DEF Return
<1>9. CASE StatementFails
  BY <1>9 DEF StatementFails
<1>10. QED
  BY <1>1, <1>2, <1>3, <1>4, <1>5, <1>6, <1>7, <1>8, <1>9, <1>0 DEF CallStep

LEMMA CallAgrees ==
  ASSUME TypeOK, CallStep \/ FinishStatement \/ StatementFails
  PROVE  ThreadsAgree'
<1> USE DEF TypeOK, ThreadsAgree, StatementsRemain, WatcherGone, Preparing, Executing, Results, Reasons, call, watch, Unwatched
<1>1. CASE Validate
  BY <1>1 DEF Validate
<1>2. CASE CheckCancelledBefore
  BY <1>2 DEF CheckCancelledBefore
<1>3. CASE RefuseConnection
  BY <1>3 DEF RefuseConnection
<1>4. CASE OpenAndSpawn
  BY <1>4 DEF OpenAndSpawn
<1>5. CASE StartStatement
  BY <1>5 DEF StartStatement
<1>6. CASE EndExecute
  BY <1>6 DEF EndExecute
<1>7. CASE StopWatcher
  BY <1>7 DEF StopWatcher
<1>8. CASE Return
  BY <1>8, VerdictType DEF Return
<1>9. CASE FinishStatement
  BY <1>9 DEF FinishStatement
<1>10. CASE StatementFails
  BY <1>10 DEF StatementFails
<1>11. QED
  BY <1>1, <1>2, <1>3, <1>4, <1>5, <1>6, <1>7, <1>8, <1>9, <1>10 DEF CallStep

-----------------------------------------------------------------------------
(* The watcher, the token and the clock.                                     *)

LEMMA WatcherTypes ==
  ASSUME TypeOK, WatcherStep, Watching, Executed
  PROVE  TypeOK'
<1> USE DEF TypeOK, Shapes, ThreadsAgree, StatementsRemain, WatcherGone, Preparing, Executing,
            Polling, Reasons, call, Watches
<1>1. CASE StartWatching
  BY <1>1 DEF StartWatching
<1>2. CASE CheckStop
  BY <1>2 DEF CheckStop
<1>3. CASE CheckCancelled
  BY <1>3 DEF CheckCancelled
<1>4. CASE CheckTimeout
  BY <1>4 DEF CheckTimeout
<1>5. CASE WakeUp
  BY <1>5 DEF WakeUp
<1>6. CASE Interrupt
  BY <1>6 DEF Interrupt
<1>7. QED
  BY <1>1, <1>2, <1>3, <1>4, <1>5, <1>6 DEF WatcherStep

LEMMA OtherTypes ==
  ASSUME TypeOK, Cancel \/ Tick
  PROVE  TypeOK'
<1> USE DEF TypeOK, Shapes, ThreadsAgree, StatementsRemain, WatcherGone
<1>1. CASE Cancel
  BY <1>1 DEF Cancel, call, watch
<1>2. CASE Tick
  <2>1. spent' \in Nat /\ watched' \in Nat
    BY <1>2, ClockAssumption DEF Tick, After
  <2>2. UNCHANGED <<hooks, cancelled, pc, left, result, stop, outcome, watcher, due, reason, flagged>>
    BY <1>2 DEF Tick
  <2>3. QED
    BY <2>1, <2>2
<1>3. QED
  BY <1>1, <1>2

-----------------------------------------------------------------------------
(* The watcher's bookkeeping.                                                *)

LEMMA CallKeepsWatching ==
  ASSUME GuardInv, CallStep \/ FinishStatement \/ StatementFails
  PROVE  Watching'
<1>1. UNCHANGED <<hooks, cancelled, spent, due, reason, watched>>
  BY DEF CallStep, Validate, CheckCancelledBefore, RefuseConnection, OpenAndSpawn,
         StartStatement, EndExecute, StopWatcher, Return, FinishStatement, StatementFails,
         Unwatched, watch
<1>2. watcher' = "interrupt" => watcher = "interrupt"
  BY DEF CallStep, Validate, CheckCancelledBefore, RefuseConnection, OpenAndSpawn,
         StartStatement, EndExecute, StopWatcher, Return, FinishStatement, StatementFails,
         Unwatched, watch
<1>3. QED
  BY <1>1, <1>2 DEF GuardInv, Watching

LEMMA WatcherKeepsWatching ==
  ASSUME GuardInv, WatcherStep
  PROVE  Watching'
<1>0. watcher # "exited" => reason = "none"
  BY DEF GuardInv, TypeOK, ThreadsAgree
<1> USE DEF GuardInv, Watching, Watches, call
<1>1. CASE StartWatching
  BY <1>1 DEF StartWatching
<1>2. CASE CheckStop
  BY <1>2 DEF CheckStop
<1>3. CASE CheckCancelled
  BY <1>3, <1>0 DEF CheckCancelled
<1>4. CASE CheckTimeout
  BY <1>4, <1>0 DEF CheckTimeout, TimedOut
<1>5. CASE WakeUp
  BY <1>5 DEF WakeUp
<1>6. CASE Interrupt
  BY <1>6 DEF Interrupt
<1>7. QED
  BY <1>1, <1>2, <1>3, <1>4, <1>5, <1>6 DEF WatcherStep

(* Whenever the watcher's clock runs, the call's does.                       *)
LEMMA OthersKeepWatching ==
  ASSUME GuardInv, Cancel \/ Tick
  PROVE  Watching'
<1> USE DEF GuardInv, Watching
<1>1. CASE Cancel
  BY <1>1 DEF Cancel, call, watch
<1>2. CASE Tick
  <2>1. watched \in Nat /\ spent \in Nat /\ hooks.timeout \in Nat /\ hooks.timeout < Horizon
    BY ClockAssumption DEF TypeOK, Shapes
  <2>2. watcher \in Polling => pc \in Executing \cup {"executed", "join"}
    BY DEF TypeOK, Shapes, ThreadsAgree, Polling, Preparing, Executing, WatcherGone
  <2>3. watched' <= spent'
    <3>1. CASE watcher \in Polling
      <4>1. watched' = After(watched) /\ spent' = After(spent)
        BY <1>2, <2>2, <3>1 DEF Tick
      <4>2. QED
        BY <2>1, <4>1, ClockAssumption DEF After
    <3>2. CASE watcher \notin Polling
      <4>1. watched' = watched /\ (spent' = spent \/ spent' = After(spent))
        BY <1>2, <3>2 DEF Tick
      <4>2. QED
        BY <2>1, <4>1, ClockAssumption DEF After
    <3>3. QED
      BY <3>1, <3>2
  <2>4. watched >= hooks.timeout => watched' >= hooks.timeout
    BY <1>2, <2>1, ClockAssumption DEF Tick, After
  <2>5. UNCHANGED <<hooks, cancelled, watcher, due, reason>>
    BY <1>2 DEF Tick
  <2>6. QED
    BY <2>3, <2>4, <2>5
<1>3. QED
  BY <1>1, <1>2

LEMMA StepKeepsExecuted ==
  ASSUME GuardInv, [Next]_vars
  PROVE  Executed'
<1> USE DEF GuardInv, Executed
<1>1. ASSUME UNCHANGED <<result, left, reason, flagged>> PROVE Executed'
  BY <1>1
<1>2. CASE CallStep
  <2>1. CASE EndExecute
    BY <2>1 DEF EndExecute, StatementsRemain, Unwatched, watch, TypeOK, Shapes
  <2>2. CASE ~EndExecute
    BY <1>1, <1>2, <2>2 DEF CallStep, Validate, CheckCancelledBefore, RefuseConnection,
       OpenAndSpawn, StartStatement, StopWatcher, Return, Unwatched, watch
  <2>3. QED
    BY <2>1, <2>2
<1>3. CASE FinishStatement
  BY <1>3 DEF FinishStatement, watch, TypeOK, ThreadsAgree, Executing
<1>4. CASE StatementFails
  BY <1>4 DEF StatementFails, Unwatched, watch
<1>5. CASE WatcherStep
  <2>1. CASE Interrupt
    BY <2>1 DEF Interrupt, Watches, Watching, call
  <2>2. CASE ~Interrupt
    BY <1>1, <1>5, <2>2 DEF WatcherStep, StartWatching, CheckStop, CheckCancelled, CheckTimeout,
       WakeUp, Watches, call
  <2>3. QED
    BY <2>1, <2>2
<1>6. CASE Cancel \/ Tick \/ UNCHANGED vars
  BY <1>1, <1>6 DEF Cancel, Tick, vars, call, watch
<1>7. QED
  BY <1>2, <1>3, <1>4, <1>5, <1>6 DEF Next

-----------------------------------------------------------------------------
(* Outcomes.                                                                 *)

(* Nothing happens to a call that has returned, except that its token may    *)
(* still be cancelled: its watcher is gone.                                  *)
LEMMA ReturnedStays ==
  ASSUME TypeOK, [Next]_vars, pc = "returned"
  PROVE  /\ UNCHANGED <<hooks, left, reason, spent, outcome>>
         /\ cancelled => cancelled'
<1>1. watcher \in {"none", "exited"}
  BY DEF TypeOK, ThreadsAgree, WatcherGone
<1>2. ~CallStep /\ ~FinishStatement /\ ~StatementFails
  BY DEF CallStep, Validate, CheckCancelledBefore, RefuseConnection, OpenAndSpawn,
         StartStatement, EndExecute, StopWatcher, Return, FinishStatement, StatementFails
<1>3. ~WatcherStep
  BY <1>1 DEF WatcherStep, StartWatching, CheckStop, CheckCancelled, CheckTimeout, WakeUp,
              Interrupt, Watches
<1>4. CASE Cancel
  BY <1>4 DEF Cancel, call, watch
<1>5. CASE Tick
  BY <1>5 DEF Tick, Executing
<1>6. CASE UNCHANGED vars
  BY <1>6 DEF vars, call, watch
<1>7. QED
  BY <1>2, <1>3, <1>4, <1>5, <1>6 DEF Next

(* How a call comes by its outcome.                                          *)
LEMMA Returning ==
  ASSUME TypeOK, [Next]_vars, pc # "returned"
  PROVE  \/ outcome' \in {"none", "error"}
         \/ outcome' = "cancelled" /\ cancelled'
         \/ Return
<1>1. outcome = "none"
  BY DEF TypeOK, ThreadsAgree
<1>2. CASE CallStep
  BY <1>1, <1>2 DEF CallStep, Validate, CheckCancelledBefore, RefuseConnection, OpenAndSpawn,
         StartStatement, EndExecute, StopWatcher, Unwatched
<1>3. CASE ~CallStep
  <2>1. outcome' = outcome
    BY <1>3 DEF Next, FinishStatement, StatementFails, WatcherStep, StartWatching, CheckStop,
         CheckCancelled, CheckTimeout, WakeUp, Interrupt, Watches, Cancel, Tick, vars, call
  <2>2. QED
    BY <1>1, <2>1
<1>4. QED
  BY <1>2, <1>3

LEMMA StepKeepsOutcomes ==
  ASSUME GuardInv, [Next]_vars
  PROVE  OutcomeJustified' /\ InterruptNamed'
<1>1. CASE pc = "returned"
  BY <1>1, ReturnedStays DEF GuardInv, OutcomeJustified, InterruptNamed, Overdue
<1>2. CASE pc # "returned" /\ ~Return
  BY <1>2, Returning DEF GuardInv, OutcomeJustified, InterruptNamed
<1>3. CASE Return
  <2>1. outcome' = Verdict /\ UNCHANGED <<hooks, cancelled, left, spent, reason>>
    BY <1>3 DEF Return, Unwatched, watch
  <2>2. hooks.timeout \in Nat /\ spent \in Nat /\ watched \in Nat
    BY ClockAssumption DEF GuardInv, TypeOK, Shapes
  <2>3. CASE reason # "none"
    BY <2>1, <2>2, <2>3 DEF Verdict, GuardInv, TypeOK, Shapes, Reasons, Watching,
       OutcomeJustified, InterruptNamed
  <2>4. CASE reason = "none" /\ Overdue
    BY <2>1, <2>2, <2>4 DEF Verdict, Overdue, OutcomeJustified, InterruptNamed
  <2>5. CASE reason = "none" /\ ~Overdue
    BY <2>1, <2>5 DEF Verdict, Overdue, GuardInv, TypeOK, Shapes, Results, Executed,
       OutcomeJustified, InterruptNamed
  <2>6. QED
    BY <2>3, <2>4, <2>5
<1>4. QED
  BY <1>1, <1>2, <1>3

-----------------------------------------------------------------------------

LEMMA StepKeepsGuard ==
  ASSUME GuardInv, [Next]_vars
  PROVE  GuardInv'
<1>1. TypeOK'
  <2>1. CASE CallStep \/ FinishStatement \/ StatementFails
    BY <2>1, CallShapes, CallAgrees DEF GuardInv, TypeOK
  <2>2. CASE WatcherStep
    BY <2>2, WatcherTypes DEF GuardInv
  <2>3. CASE Cancel \/ Tick
    BY <2>3, OtherTypes DEF GuardInv
  <2>4. CASE UNCHANGED vars
    BY <2>4 DEF GuardInv, TypeOK, Shapes, ThreadsAgree, StatementsRemain, WatcherGone, vars, call,
                watch
  <2>5. QED
    BY <2>1, <2>2, <2>3, <2>4 DEF Next
<1>2. Watching'
  <2>1. CASE UNCHANGED vars
    BY <2>1 DEF GuardInv, Watching, vars, call, watch
  <2>2. QED
    BY <2>1, CallKeepsWatching, WatcherKeepsWatching, OthersKeepWatching DEF Next
<1>3. QED
  BY <1>1, <1>2, StepKeepsExecuted, StepKeepsOutcomes DEF GuardInv

THEOREM AlwaysGuarded == Spec => []GuardInv
BY InitGuard, StepKeepsGuard, PTL DEF Spec

(* The two threads always agree on who is there.                             *)
THEOREM TypeCorrect == Spec => []TypeOK
<1>1. GuardInv => TypeOK
  BY DEF GuardInv
<1>2. QED
  BY AlwaysGuarded, <1>1, PTL

(* What run_guarded returns is what happened, by the call's own clock.       *)
THEOREM OutcomesJustified == Spec => []OutcomeJustified
<1>1. GuardInv => OutcomeJustified
  BY DEF GuardInv
<1>2. QED
  BY AlwaysGuarded, <1>1, PTL

(* An interrupted statement is reported by the watcher's reason.             *)
THEOREM InterruptsNamed == Spec => []InterruptNamed
<1>1. GuardInv => InterruptNamed
  BY DEF GuardInv
<1>2. QED
  BY AlwaysGuarded, <1>1, PTL

(* No interrupt outlives its call.                                           *)
THEOREM InterruptsStayInCall == Spec => InterruptsOwnCall
<1>1. ASSUME GuardInv, [Next]_vars
      PROVE  [reason' # reason => pc \in Executing \cup {"executed", "join"}]_vars
  <2>1. SUFFICES ASSUME reason' # reason
                 PROVE  pc \in Executing \cup {"executed", "join"}
    OBVIOUS
  <2>2. Interrupt
    BY <1>1, <2>1 DEF Next, CallStep, Validate, CheckCancelledBefore, RefuseConnection,
       OpenAndSpawn, StartStatement, EndExecute, StopWatcher, Return, FinishStatement,
       StatementFails, WatcherStep, StartWatching, CheckStop, CheckCancelled, CheckTimeout,
       WakeUp, Cancel, Tick, Unwatched, vars, watch
  <2>3. watcher = "interrupt"
    BY <2>2 DEF Interrupt, Watches
  <2>4. QED
    BY <1>1, <2>3 DEF GuardInv, TypeOK, Shapes, ThreadsAgree, WatcherGone, Preparing, Executing
<1>2. QED
  BY AlwaysGuarded, <1>1, PTL DEF Spec, InterruptsOwnCall
=============================================================================
