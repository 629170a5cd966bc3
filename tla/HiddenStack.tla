---------------------------- MODULE HiddenStack ----------------------------
(***************************************************************************)
(* What the accelerator promises its caller, without buffers, bindings or  *)
(* migrations: a call names an input tensor and a list of sublayers; they  *)
(* are applied to it in that order, each exactly once; the caller gets the *)
(* tensor all of them produced, or nothing.                                *)
(***************************************************************************)
EXTENDS Naturals, Sequences

CONSTANTS
    Asks,       \* the calls: [src, ops, materialize, checkpoint]
    Nothing     \* no output

VARIABLES
    phase,      \* "idle", "busy" or "failed"
    ask,        \* the last accepted call
    done,       \* how many of its sublayers have been applied
    output      \* what the last call returned

vars == <<phase, ask, done, output>>

Applied(a, n) == [src |-> a.src, ops |-> SubSeq(a.ops, 1, n)]

Init ==
    /\ phase = "idle"
    /\ ask = Nothing
    /\ done = 0
    /\ output = Nothing

Begin(a) ==
    /\ phase = "idle"
    /\ phase' = "busy"
    /\ ask' = a
    /\ done' = 0
    /\ output' = Nothing

Advance ==
    /\ phase = "busy"
    /\ done < Len(ask.ops)
    /\ done' = done + 1
    /\ UNCHANGED <<phase, ask, output>>

Return ==
    /\ phase = "busy"
    /\ done = Len(ask.ops)
    /\ phase' = "idle"
    /\ output' = IF ask.materialize THEN Applied(ask, done) ELSE Nothing
    /\ UNCHANGED <<ask, done>>

(* A checkpoint callback may stop the call after any sublayer. *)
StopEarly ==
    /\ phase = "busy"
    /\ ask.checkpoint /\ done > 0
    /\ phase' = "idle"
    /\ UNCHANGED <<ask, done, output>>

(* A call may be rejected, and an accepted one may fail: the process ends. *)
Fail ==
    /\ phase # "failed"
    /\ phase' = "failed"
    /\ UNCHANGED <<ask, done, output>>

Next ==
    \/ \E a \in Asks : Begin(a)
    \/ Advance
    \/ Return
    \/ StopEarly
    \/ Fail

Spec == Init /\ [][Next]_vars
=============================================================================
