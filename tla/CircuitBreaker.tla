--------------------------- MODULE CircuitBreaker ---------------------------
(***************************************************************************)
(* CircuitBreaker, whose state is four Redis keys shared by every process: *)
(* each command is a step, and calls interleave between the commands.  A   *)
(* process may die between any two of them.  (Tests use the class; no      *)
(* adapter of the platform is wrapped in it.)                              *)
(*                                                                         *)
(* reset, which is for tests, is left out.  The clock is an integer; a     *)
(* time is taken and stored in one step.                                   *)
(***************************************************************************)
EXTENDS Naturals

CONSTANTS
    Callers,           \* concurrent calls
    FailureThreshold,  \* failure_threshold
    SuccessThreshold,  \* success_threshold
    RecoveryTimeout,   \* recovery_timeout
    MaxNow             \* model bound: the end of time

BreakerAssumption ==
    /\ FailureThreshold \in Nat \ {0} /\ SuccessThreshold \in Nat \ {0}
    /\ RecoveryTimeout \in Nat /\ MaxNow \in Nat

VARIABLES
    now,      \* time.time(), from 1: 0 is a key that does not exist
    circuit,  \* the four keys
    caller    \* what each call is doing, and when it began

breakerVars == <<now, circuit, caller>>

\* when: get_state is asked for before the coroutine runs, and after it.
NoCall == [pc |-> "idle", when |-> "before", began |-> 0]

Init ==
    /\ now = 1
    /\ circuit = [state |-> "CLOSED", failures |-> 0, lastFailure |-> 0, successes |-> 0]
    /\ caller = [c \in Callers |-> NoCall]

Goto(c, pc) == caller' = [caller EXCEPT ![c].pc = pc] /\ UNCHANGED now

\* What a call does with the answer of get_state.
Onward(c, state) ==
    IF caller[c].when = "before"
    THEN IF state = "OPEN" THEN "rejected" ELSE "run"
    ELSE CASE state = "HALF_OPEN" -> "succeed"
           [] state = "CLOSED" -> "forgive"
           [] OTHER -> "idle"

Call(c) ==
    /\ caller[c].pc \in {"idle", "rejected"}
    /\ caller' = [caller EXCEPT ![c] = [NoCall EXCEPT !.pc = "state", !.began = now]]
    /\ UNCHANGED <<now, circuit>>

\* get_state: an OPEN circuit is looked at more closely.
GetState(c) ==
    /\ caller[c].pc = "state"
    /\ Goto(c, IF circuit.state = "OPEN" THEN "elapsed" ELSE Onward(c, circuit.state))
    /\ UNCHANGED circuit

\* A circuit without a last failure stays OPEN.
GetLastFailure(c) ==
    /\ caller[c].pc = "elapsed"
    /\ Goto(c, IF circuit.lastFailure # 0 /\ now - circuit.lastFailure > RecoveryTimeout
               THEN "half-open" ELSE Onward(c, "OPEN"))
    /\ UNCHANGED circuit

SetHalfOpen(c) ==
    /\ caller[c].pc = "half-open"
    /\ circuit' = [circuit EXCEPT !.state = "HALF_OPEN"]
    /\ Goto(c, Onward(c, "HALF_OPEN"))

\* The coroutine returns, or raises.
Run(c) ==
    /\ caller[c].pc = "run"
    /\ \/ caller' = [caller EXCEPT ![c].pc = "state", ![c].when = "after"]
       \/ caller' = [caller EXCEPT ![c].pc = "fail"]
    /\ UNCHANGED <<now, circuit>>

\* Mutation check only: the circuit opens before the failure is timed.
OpenAtOnce(c) ==
    /\ caller[c].pc = "fail"
    /\ circuit' = [circuit EXCEPT !.failures = @ + 1,
                                  !.state = IF circuit.failures + 1 >= FailureThreshold
                                            THEN "OPEN" ELSE @]
    /\ Goto(c, "stamp")

\* _on_failure: INCR, then SET last_failure, then - the count of the INCR having
\* reached the threshold - SET state.  Counts beyond the threshold are alike.
CountFailure(c) ==
    /\ caller[c].pc = "fail"
    /\ LET count == circuit.failures + 1
           opens == count >= FailureThreshold
       IN  /\ circuit' = [circuit EXCEPT !.failures = IF opens THEN FailureThreshold ELSE count]
           /\ Goto(c, IF opens THEN "stamp and open" ELSE "stamp")

StampFailure(c) ==
    /\ caller[c].pc \in {"stamp", "stamp and open"}
    /\ circuit' = [circuit EXCEPT !.lastFailure = now]
    /\ Goto(c, IF caller[c].pc = "stamp" THEN "idle" ELSE "open")

SetOpen(c) ==
    /\ caller[c].pc = "open"
    /\ circuit' = [circuit EXCEPT !.state = "OPEN"]
    /\ Goto(c, "idle")

\* _on_success: in a HALF_OPEN circuit INCR and, at the threshold, DEL both
\* counters and SET state; in a CLOSED one DEL failures.
CountSuccess(c) ==
    /\ caller[c].pc = "succeed"
    /\ LET count == circuit.successes + 1
           closes == count >= SuccessThreshold
       IN  /\ circuit' = [circuit EXCEPT !.successes =
                             IF closes THEN SuccessThreshold ELSE count]
           /\ Goto(c, IF closes THEN "clear" ELSE "idle")

ClearCounters(c) ==
    /\ caller[c].pc = "clear"
    /\ circuit' = [circuit EXCEPT !.failures = 0, !.successes = 0]
    /\ Goto(c, "close")

SetClosed(c) ==
    /\ caller[c].pc = "close"
    /\ circuit' = [circuit EXCEPT !.state = "CLOSED"]
    /\ Goto(c, "idle")

ForgiveFailures(c) ==
    /\ caller[c].pc = "forgive"
    /\ circuit' = [circuit EXCEPT !.failures = 0]
    /\ Goto(c, "idle")

Die(c) ==
    /\ caller[c].pc # "idle"
    /\ caller' = [caller EXCEPT ![c] = NoCall]
    /\ UNCHANGED <<now, circuit>>

Tick == now < MaxNow /\ now' = now + 1 /\ UNCHANGED <<circuit, caller>>

Next ==
    \/ Tick
    \/ \E c \in Callers :
          \/ Call(c) \/ GetState(c) \/ GetLastFailure(c) \/ SetHalfOpen(c) \/ Run(c)
          \/ CountFailure(c) \/ StampFailure(c) \/ SetOpen(c)
          \/ CountSuccess(c) \/ ClearCounters(c) \/ SetClosed(c) \/ ForgiveFailures(c)
          \/ Die(c)

Spec == Init /\ [][Next]_breakerVars

----------------------------------------------------------------------------
(* Properties. *)

\* An outage is over for the callers RecoveryTimeout after its last failure,
\* whichever commands of other calls came between and whichever were never made
\* because a process died: a call is rejected only if a call had failed less
\* than that before it began, or since.
OutagesEnd ==
    \A c \in Callers :
        caller[c].pc = "rejected" =>
            /\ circuit.lastFailure # 0
            /\ caller[c].began <= circuit.lastFailure + RecoveryTimeout
=============================================================================
