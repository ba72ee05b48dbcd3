----------------------------- MODULE ProcessState -----------------------------
(***************************************************************************)
(* What a process waits for and whether it may run: the members of         *)
(* sc_process_b and what waits, triggers and disconnections do to them, as *)
(* values.  Methods and threads have two copies of this code.              *)
(*                                                                         *)
(*   state   m_state, the set of its bits that are set                     *)
(*   kind    m_trigger_type; X_TIMEOUT is kind X with "timed" set          *)
(*   timed   the wait has a timeout, on m_timeout_event_p                  *)
(*   on      m_event_p or the members of m_event_list_p                    *)
(*   count   m_event_count, what an AND list still waits for; 0 when the   *)
(*           process waits for something else: it is not read then         *)
(*   cycles  m_wait_cycle_n                                                *)
(*   lists   the events whose dynamic list holds the process; its timeout  *)
(*           event has the name of the process                             *)
(*   throw   m_throw_status, while the exception is to be thrown           *)
(*   stack   m_has_stack                                                   *)
(*   areset, reset   m_active_areset_n and m_active_reset_n                *)
(*   sticky  m_sticky_reset                                                *)
(***************************************************************************)
EXTENDS Integers, FiniteSets

NewProcess ==
  [state |-> {}, kind |-> "STATIC", timed |-> FALSE, on |-> {}, count |-> 0,
   cycles |-> 0, lists |-> {}, throw |-> "NONE", stack |-> FALSE,
   areset |-> 0, reset |-> 0, sticky |-> FALSE]

Has(r, bit)   == bit \in r.state
Set(r, bit)   == [r EXCEPT !.state = @ \cup {bit}]
Clear(r, bit) == [r EXCEPT !.state = @ \ {bit}]

(* wait(...) and next_trigger(...) of process p, for the events E.         *)
WaitOn(r, p, kind, E, timed) ==
  [r EXCEPT !.kind  = kind,
            !.timed = timed,
            !.on    = E,
            !.lists = @ \cup E \cup (IF timed THEN {p} ELSE {}),
            !.count = IF kind = "AND" THEN Cardinality(E) ELSE 0]

(* The trigger of event e completes what the process waits for.  Of an AND *)
(* list the last event does, or the timeout.                               *)
Satisfies(r, p, e) ==
  /\ r.kind # "STATIC"
  /\ r.kind = "AND" /\ e # p => r.count = 1

\* Variant: the process stays in the lists of the other events.
CompletedKeepsOr(r, p, e) ==
  [r EXCEPT !.kind = "STATIC", !.timed = FALSE, !.on = {}, !.count = 0,
            !.lists = @ \ ({e} \cup (IF r.timed THEN {p} ELSE {})),
            !.state = IF Has(r, "suspended") THEN @ \cup {"ready"} ELSE @]

\* Variant: a suspended process is not owed a run.
CompletedForgets(r, p, e) ==
  [r EXCEPT !.kind = "STATIC", !.timed = FALSE, !.on = {}, !.count = 0,
            !.lists = @ \ ({e} \cup (IF r.timed THEN {p} ELSE {})
                               \cup (IF r.kind = "OR" \/ e = p THEN r.on ELSE {}))]

(* A completed wait: the process leaves the lists of the other events of   *)
(* an OR list, of all events if this is the timeout, and the list of its   *)
(* timeout event if this is not the timeout.  If the process is suspended  *)
(* it will be made runnable by resume().                                   *)
Completed(r, p, e) ==
  [r EXCEPT !.kind  = "STATIC",
            !.timed = FALSE,
            !.on    = {},
            !.count = 0,
            !.lists = @ \ ({e} \cup (IF r.timed THEN {p} ELSE {})
                               \cup (IF r.kind = "OR" \/ e = p THEN r.on ELSE {})),
            !.state = IF Has(r, "suspended") THEN @ \cup {"ready"} ELSE @]

(* One more event of an AND list.                                          *)
Counted(r, e) == [r EXCEPT !.count = @ - 1, !.lists = @ \ {e}]

(* remove_dynamic_events and clear_trigger: whoever calls them cancels the *)
(* timeout too, unless it is the timeout that fires.                       *)
RemoveDynamicEvents(r, p) ==
  [r EXCEPT !.kind  = "STATIC",
            !.timed = FALSE,
            !.on    = {},
            !.count = 0,
            !.lists = @ \ ({p} \cup r.on)]

(* disconnect_process: a zombie is on no list and its state has no other   *)
(* bit.                                                                    *)
Disconnected(r, p) ==
  IF Has(r, "zombie") THEN r
  ELSE [RemoveDynamicEvents(r, p) EXCEPT !.state = {"zombie"}]

-------------------------------------------------------------------------------
(* Resets.                                                                 *)

(* What a thread is in as long as a reset of it is active: semantics() and *)
(* the catch of a user exception put it back into m_throw_status.          *)
Standing(r) ==
  IF r.areset # 0 THEN "ASYNC" ELSE IF r.reset # 0 THEN "SYNC" ELSE "NONE"

\* Variant: the thread is in reset once only.
ResumedOnce(r) ==
  IF r.throw = "KILL" THEN r
  ELSE IF r.throw = "NONE" /\ r.stack THEN r
  ELSE [r EXCEPT !.stack = TRUE, !.throw = "NONE"]

(* A thread is dispatched: it begins, goes on after its wait, or takes the *)
(* exception that was thrown at it.  A reset unwinds the stack and begins  *)
(* again; the kill is left to the thread, which unwinds and ends.          *)
Resumed(r) ==
  IF r.throw = "KILL" THEN r
  ELSE IF r.throw = "NONE" /\ r.stack THEN r
  ELSE [r EXCEPT !.stack = TRUE, !.throw = Standing(r)]

(* sc_thread_process::throw_reset(), except for the dispatch that follows  *)
(* if it is asynchronous.                                                  *)
Reset(r, p, async) ==
  IF async THEN [RemoveDynamicEvents(Clear(r, "ready"), p) EXCEPT !.throw = "ASYNC", !.cycles = 0]
           ELSE [r EXCEPT !.throw = "SYNC", !.cycles = 0]

\* Variant: the end of the last reset leaves the exception to be thrown.
ResetChangedKeeps(r, p, async, asserted, running) ==
  LET n       == IF asserted THEN 1 ELSE -1
      counted == IF async THEN [r EXCEPT !.areset = @ + n] ELSE [r EXCEPT !.reset = @ + n]
  IN  IF Has(r, "zombie") THEN r
      ELSE IF asserted /\ running THEN Reset(counted, p, async)
      ELSE counted

(* reset_changed(): a reset of process p is asserted or deasserted.        *)
ResetChanged(r, p, async, asserted, running) ==
  LET n       == IF asserted THEN 1 ELSE -1
      counted == IF async THEN [r EXCEPT !.areset = @ + n] ELSE [r EXCEPT !.reset = @ + n]
      thrown  == IF asserted /\ running THEN Reset(counted, p, async) ELSE counted
  IN  IF Has(r, "zombie") THEN r
      ELSE IF thrown.throw \in {"SYNC", "ASYNC"} /\ Standing(thrown) = "NONE" /\ ~r.sticky
      THEN [thrown EXCEPT !.throw = "NONE"]
      ELSE thrown
===============================================================================
