------------------------------ MODULE GuardedQuery ------------------------------
(***************************************************************************)
(* One call of ScratchpadSessionManager::run_guarded (src/scratchpad.rs):  *)
(* the calling thread that validates, opens the database and executes the  *)
(* statements of a tool, and the watcher thread that interrupts them on    *)
(* timeout or cancellation.  They share the stop flag, the cancel token    *)
(* and the engine's interrupt handle; each reads a clock of its own.       *)
(*                                                                         *)
(* The tools' closure (execute_scratchpad_projection) runs two statements  *)
(* for SELECT and WITH, the row count and then the page, and one for       *)
(* DESCRIBE and SUMMARIZE.  A statement may run forever: that is what the  *)
(* watcher is for.  Connections are never shared, so calls do not meet     *)
(* here; what they do to the sessions is ScratchpadSessions.               *)
(***************************************************************************)
EXTENDS Integers

CONSTANTS
  Timeouts,       \* values of hooks.timeout, in ticks; 0 is "no timeout"
  MaxStatements,  \* statements a closure executes, at most
  Horizon         \* bound: clocks stop counting there

ASSUME ClockAssumption ==
  /\ Timeouts \subseteq Nat
  /\ MaxStatements \in Nat
  /\ Horizon \in Nat
  /\ \A t \in Timeouts : t < Horizon

VARIABLES
  hooks,      \* ScratchpadExecutionHooks, and how many statements there are
  cancelled,  \* the cancel token
  pc,         \* where the call stands
  left,       \* statements not finished yet
  result,     \* what execute returned
  stop,       \* stop_flag
  spent,      \* started.elapsed() of the call
  outcome,    \* what run_guarded returned
  watcher,    \* where the watcher stands
  due,        \* the reason it is about to interrupt for
  reason,     \* what its thread returned
  watched,    \* started.elapsed() of the watcher
  flagged     \* the engine holds an interrupt against this connection

call == <<pc, left, result, spent, outcome>>
watch == <<watcher, due, reason, watched>>
vars == <<hooks, cancelled, call, stop, watch, flagged>>

Reasons == {"timeout", "cancelled"}
Results == {"ok", "error", "interrupted"}
Preparing == {"validate", "check", "open"}
Executing == {"between", "statement"}
Polling == {"check_stop", "check_cancel", "check_timeout", "asleep", "interrupt"}

Init ==
  /\ hooks \in [timeout : Timeouts, token : BOOLEAN]
  /\ cancelled = FALSE
  /\ pc = "validate"
  /\ left \in 0..MaxStatements
  /\ result = "none"
  /\ stop = FALSE
  /\ spent = 0
  /\ outcome = "none"
  /\ watcher = "none"
  /\ due = "none"
  /\ reason = "none"
  /\ watched = 0
  /\ flagged = FALSE

-----------------------------------------------------------------------------
(* The calling thread.                                                       *)

Unwatched == UNCHANGED <<hooks, cancelled, stop, watch, flagged>>

(* validate_query_sql: the statement policy, not modelled here.              *)
Validate ==
  /\ pc = "validate"
  /\ \/ pc' = "returned" /\ outcome' = "error"
     \/ pc' = "check" /\ UNCHANGED outcome
  /\ UNCHANGED <<left, result, spent>> /\ Unwatched

CheckCancelledBefore ==
  /\ pc = "check"
  /\ \/ cancelled /\ pc' = "returned" /\ outcome' = "cancelled"
     \/ ~cancelled /\ pc' = "open" /\ UNCHANGED outcome
  /\ UNCHANGED <<left, result, spent>> /\ Unwatched

RefuseConnection ==
  /\ pc = "open"
  /\ pc' = "returned" /\ outcome' = "error"
  /\ UNCHANGED <<left, result, spent>> /\ Unwatched

(* The connection is open, the call's clock starts, and the watcher is       *)
(* spawned if there is anything to watch for.                                *)
OpenAndSpawn ==
  /\ pc = "open"
  /\ pc' = "between"
  /\ watcher' = IF hooks.timeout > 0 \/ hooks.token THEN "spawned" ELSE "none"
  /\ UNCHANGED <<hooks, cancelled, left, result, stop, spent, outcome, due, reason, watched,
                 flagged>>

(* Bug: one statement too many.                                              *)
StatementsRemainOffByOne == left >= 0
StatementsRemain == left > 0

(* "between" is the closure's own time: preparing a statement, decoding.     *)
StartStatement ==
  /\ pc = "between" /\ StatementsRemain
  /\ pc' = "statement"
  /\ UNCHANGED <<left, result, spent, outcome>> /\ Unwatched

(* It may still end by itself when an interrupt is on its way.               *)
FinishStatement ==
  /\ pc = "statement"
  /\ pc' = "between" /\ left' = left - 1
  /\ flagged' = FALSE
  /\ UNCHANGED <<hooks, cancelled, result, stop, spent, outcome, watch>>

(* The closure leaves with the error of the first statement that has one.    *)
StatementFails ==
  /\ pc = "statement"
  /\ pc' = "executed"
  /\ result' \in {"error"} \cup IF flagged THEN {"interrupted"} ELSE {}
  /\ UNCHANGED <<left, spent, outcome>> /\ Unwatched

EndExecute ==
  /\ pc = "between" /\ ~StatementsRemain
  /\ pc' = "executed" /\ result' = "ok"
  /\ UNCHANGED <<left, spent, outcome>> /\ Unwatched

StopWatcher ==
  /\ pc = "executed"
  /\ pc' = "join" /\ stop' = TRUE
  /\ UNCHANGED <<hooks, cancelled, left, result, spent, outcome, watch, flagged>>

(* Bug: telling the watcher to stop is taken for its having stopped.         *)
WatcherToldToStop == stop
WatcherGone == watcher \in {"none", "exited"}

Overdue == hooks.timeout > 0 /\ spent > hooks.timeout

(* Bug: the error of the statement is returned before the watcher is asked.  *)
VerdictOfStatement ==
  IF result # "ok" THEN result
  ELSE IF reason # "none" THEN reason ELSE IF Overdue THEN "timeout" ELSE result
Verdict == IF reason # "none" THEN reason ELSE IF Overdue THEN "timeout" ELSE result

Return ==
  /\ pc = "join" /\ WatcherGone
  /\ pc' = "returned" /\ outcome' = Verdict
  /\ UNCHANGED <<left, result, spent>> /\ Unwatched

-----------------------------------------------------------------------------
(* The watcher thread: spawn_interrupt_watcher.                              *)

Watches(from, to) ==
  /\ watcher = from /\ watcher' = to
  /\ UNCHANGED <<hooks, cancelled, call, stop>>

StartWatching ==
  /\ Watches("spawned", "check_stop")
  /\ UNCHANGED <<due, reason, watched, flagged>>

(* Bug: the flag is not looked at.                                           *)
CheckStopNever ==
  /\ Watches("check_stop", "check_cancel")
  /\ UNCHANGED <<due, reason, watched, flagged>>
CheckStop ==
  /\ \/ stop /\ Watches("check_stop", "exited")
     \/ ~stop /\ Watches("check_stop", "check_cancel")
  /\ UNCHANGED <<due, reason, watched, flagged>>

CheckCancelled ==
  /\ \/ cancelled /\ Watches("check_cancel", "interrupt") /\ due' = "cancelled"
     \/ ~cancelled /\ Watches("check_cancel", "check_timeout") /\ UNCHANGED due
  /\ UNCHANGED <<reason, watched, flagged>>

(* Bug: the last tick is rounded away.                                       *)
TimedOutEarly == hooks.timeout > 0 /\ watched + 1 >= hooks.timeout
TimedOut == hooks.timeout > 0 /\ watched >= hooks.timeout

CheckTimeout ==
  /\ \/ TimedOut /\ Watches("check_timeout", "interrupt") /\ due' = "timeout"
     \/ ~TimedOut /\ Watches("check_timeout", "asleep") /\ UNCHANGED due
  /\ UNCHANGED <<reason, watched, flagged>>

WakeUp ==
  /\ Watches("asleep", "check_stop")
  /\ UNCHANGED <<due, reason, watched, flagged>>

(* Bug: the reason is reported and the engine is not told.                   *)
InterruptUnsent ==
  /\ Watches("interrupt", "exited")
  /\ reason' = due
  /\ UNCHANGED <<due, watched, flagged>>

(* The watcher interrupts once and is gone.  A statement that runs will see  *)
(* it; the engine may forget an interrupt that meets none, because each      *)
(* statement begins by clearing the flag.                                    *)
Interrupt ==
  /\ Watches("interrupt", "exited")
  /\ reason' = due
  /\ flagged' \in IF pc = "statement" THEN {TRUE} ELSE BOOLEAN
  /\ UNCHANGED <<due, watched>>

-----------------------------------------------------------------------------
(* Their surroundings.                                                       *)

Cancel ==
  /\ hooks.token /\ ~cancelled
  /\ cancelled' = TRUE
  /\ UNCHANGED <<hooks, call, stop, watch, flagged>>

After(clock) == IF clock < Horizon THEN clock + 1 ELSE clock

Tick ==
  /\ spent' = IF pc \in Executing \cup {"executed", "join"} THEN After(spent) ELSE spent
  /\ watched' = IF watcher \in Polling THEN After(watched) ELSE watched
  /\ UNCHANGED <<hooks, cancelled, pc, left, result, stop, outcome, watcher, due, reason,
                 flagged>>

CallStep ==
  \/ Validate \/ CheckCancelledBefore \/ RefuseConnection \/ OpenAndSpawn
  \/ StartStatement \/ EndExecute \/ StopWatcher \/ Return
WatcherStep ==
  \/ StartWatching \/ CheckStop \/ CheckCancelled \/ CheckTimeout \/ WakeUp \/ Interrupt

Next == CallStep \/ FinishStatement \/ StatementFails \/ WatcherStep \/ Cancel \/ Tick

Spec == Init /\ [][Next]_vars

(* Both threads are scheduled, time passes, and a statement that sees an     *)
(* interrupt ends.  Nothing says that a statement ends by itself.            *)
FairSpec ==
  /\ Spec
  /\ WF_vars(CallStep) /\ WF_vars(WatcherStep) /\ WF_vars(Tick)
  /\ WF_vars(flagged /\ StatementFails)
-----------------------------------------------------------------------------
(* Properties.                                                               *)

Shapes ==
  /\ hooks \in [timeout : Timeouts, token : BOOLEAN]
  /\ cancelled \in BOOLEAN /\ stop \in BOOLEAN /\ flagged \in BOOLEAN
  /\ pc \in Preparing \cup Executing \cup {"executed", "join", "returned"}
  /\ left \in Nat /\ spent \in Nat /\ watched \in Nat
  /\ result \in Results \cup {"none"}
  /\ outcome \in Results \cup Reasons \cup {"none"}
  /\ watcher \in Polling \cup {"none", "spawned", "exited"}
  /\ due \in Reasons \cup {"none"}
  /\ reason \in Reasons \cup {"none"}

ThreadsAgree ==
  /\ pc \in Preparing => watcher = "none"
  /\ pc \in Preparing \cup Executing => result = "none"
  /\ reason # "none" => watcher = "exited"
  /\ pc = "statement" => StatementsRemain
  /\ pc \in {"executed", "join"} => result # "none"
  /\ pc = "returned" => WatcherGone
  /\ outcome = "none" <=> pc # "returned"

(* Every variable keeps to its values, and the two threads agree on who is   *)
(* there: no watcher before the connection is open, none alive once the call *)
(* has returned, one outcome for a call that returned and none for one that  *)
(* has not (run_guarded, spawn_interrupt_watcher).                           *)
TypeOK == Shapes /\ ThreadsAgree

(* What the caller is told is what happened, whichever clock noticed first:  *)
(* "timeout" only if the call's own clock shows the timeout gone by,         *)
(* "cancelled" only if the token was cancelled, and a value only if every    *)
(* statement finished, in time, with no interrupt sent.                      *)
OutcomeJustified ==
  /\ outcome = "timeout" => hooks.timeout > 0 /\ spent >= hooks.timeout
  /\ outcome = "cancelled" => cancelled
  /\ outcome = "ok" => left = 0 /\ reason = "none" /\ ~Overdue

(* The engine's own "interrupted" error never reaches the caller: run_guarded *)
(* names the reason of its watcher instead, even when the error arrives       *)
(* before the watcher thread is done.                                         *)
InterruptNamed == outcome # "interrupted"

(* The interrupt handle is used only while its call is in progress, so never *)
(* on a connection run_guarded has closed on its way out.                    *)
InterruptsOwnCall == [][reason' # reason => pc \in Executing \cup {"executed", "join"}]_vars

(* With a timeout, a statement that begins before the watcher has sent its   *)
(* interrupt ends, even one that would run forever.                          *)
WatchedStatementsEnd ==
  \A k \in 1..MaxStatements :
    (pc = "statement" /\ left = k /\ reason = "none" /\ hooks.timeout > 0)
      ~> ~(pc = "statement" /\ left = k)

(* If no statement runs forever the call returns, timeout or not: the two    *)
(* threads never wait for each other for good.                               *)
CallReturns == []<>(pc # "statement") => <>(pc = "returned")

(* docs/scratchpad-operator-guide.md:323 says timeout limits are enforced    *)
(* fail-closed: with a timeout set, whatever a query does, the call returns. *)
(* The code breaks this when the one interrupt lands between two statements. *)
TimeoutEnforced ==
  (pc = "statement" /\ hooks.timeout > 0 /\ reason = "none") ~> pc = "returned"
=============================================================================
