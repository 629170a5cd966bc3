------------------------- MODULE CoarseTaskRuntime -------------------------
(***************************************************************************)
(* The host side of the accelerator (accelerator_t): the two hidden-state  *)
(* buffer pairs of the device and their host copies, the binding of the    *)
(* controller's data ports to them, the persistent norm and RoPE tables,   *)
(* and the calls that use them: a coarse task program over a stack of      *)
(* layers, one diagnostic task, one resident layer, one plain operator.    *)
(* A tensor is [src, ops]: the input it comes from and the operations the  *)
(* device has applied to it, in order.  A failed call ends the process     *)
(* (main catches, reports and returns 1).                                  *)
(***************************************************************************)
EXTENDS Naturals, Sequences

CONSTANTS
    Calls,          \* the calls a caller may make, see CallRecords
    Inputs,         \* input tensors
    NumLayers,      \* model_shape_t::num_layers
    MaxSeq,         \* model_shape_t::max_seq_len
    MaxQuery,       \* kMaxTokensPerLaunch
    Nothing         \* an empty tensor_t

ASSUME ShapeAssumption ==
    NumLayers \in Nat \ {0} /\ MaxSeq \in Nat \ {0} /\ MaxQuery \in Nat \ {0}

TaskOps == {"ATTENTION", "FFN", "FINAL_NORM"}
LaunchOps == {"FEATURE", "LAYER"}
Kinds == {"stack", "task", "launch"}

(***************************************************************************)
(* kind "stack" uses begin, count, norm, materialize and checkpoint;       *)
(* "task" and "launch" use op, and begin as their layer.                   *)
(***************************************************************************)
CallRecords ==
    [kind : Kinds, op : TaskOps \cup LaunchOps, src : Inputs, begin : Nat,
     count : Nat, position : Nat, rows : Nat, norm : BOOLEAN,
     materialize : BOOLEAN, checkpoint : BOOLEAN]

ASSUME CallAssumption ==
    \A c \in Calls :
        /\ c \in CallRecords
        /\ c.kind = "task" => c.op \in TaskOps
        /\ c.kind = "launch" => c.op \in LaunchOps
        /\ c.kind # "stack" => c.materialize /\ ~c.checkpoint

ASSUME NothingAssumption == Nothing \notin CallRecords

VARIABLES
    pc,         \* "idle", "ready", "checkpoint", "stopped" or "failed"
    call,       \* the last accepted call
    next,       \* index of the next task of its program
    ports,      \* controller data ports: the pair read, the pair written
    dev,        \* the two device pairs: data_buffers_[0..1], [2..3]
    host,       \* their host copies: data_words_[0..1], [2..3]
    aux,        \* data ports 4 and 5: host copy, device copy, valid flag
    seen,       \* the tensor the last checkpoint callback was given
    output      \* the tensor the last call returned

vars == <<pc, call, next, ports, dev, host, aux, seen, output>>

Pairs == 0..1
DataPortNumbers == [input |-> 2, output |-> 0]                    \* fault
DefaultPorts == [input |-> 1, output |-> 0]
Blank == [src |-> Nothing, ops |-> << >>]
Packed(c) == [src |-> c.src, ops |-> << >>]
Tables == [host |-> "tables", dev |-> "tables", valid |-> TRUE]

-----------------------------------------------------------------------------
(***************************************************************************)
(* build_coarse_decoder_program: per layer an attention task from pair 1   *)
(* to pair 0 and an FFN task back; the final norm, when asked for, goes    *)
(* from pair 1 to pair 0.                                                  *)
(***************************************************************************)
Descriptor(op, layer, c, input, output_) ==
    [op |-> op, layer |-> layer, position |-> c.position, rows |-> c.rows,
     input |-> input, output |-> output_]

TaskCount(c) ==
    IF c.kind = "stack" THEN 2 * c.count + (IF c.norm THEN 1 ELSE 0) ELSE 1

LayerAdvancesEarly(c, i) ==                                       \* fault
    LET layer == c.begin + i \div 2
    IN  IF i = 2 * c.count + 1
        THEN Descriptor("FINAL_NORM", 0, c, 1, 0)
        ELSE IF i % 2 = 1 THEN Descriptor("ATTENTION", layer, c, 1, 0)
        ELSE Descriptor("FFN", layer, c, 0, 1)

StackTask(c, i) ==
    LET layer == c.begin + (i - 1) \div 2
    IN  IF i = 2 * c.count + 1
        THEN Descriptor("FINAL_NORM", 0, c, 1, 0)
        ELSE IF i % 2 = 1 THEN Descriptor("ATTENTION", layer, c, 1, 0)
        ELSE Descriptor("FFN", layer, c, 0, 1)

TaskAt(c, i) ==
    IF c.kind = "stack" THEN StackTask(c, i)
    ELSE Descriptor(c.op, c.begin, c, 1, 0)

FinalPair(c) == IF c.kind = "stack" /\ ~c.norm THEN 1 ELSE 0

(***************************************************************************)
(* The argument checks of run_composed_decoder_stack and its builder, of   *)
(* run_composed_task_diagnostic, run_decoder_layer and run_feature.        *)
(***************************************************************************)
InModel(c) ==
    /\ c.begin < NumLayers
    /\ c.position < MaxSeq
    /\ c.position + c.rows <= MaxSeq

Accepted(c) ==
    /\ c.rows \in 1..MaxQuery
    /\ c.op # "FEATURE" \/ c.kind # "launch" => InModel(c)
    /\ c.kind = "stack" => c.count # 0 /\ c.begin + c.count <= NumLayers

(***************************************************************************)
(* The checks run_coarse_task_program makes on a program before it touches *)
(* any buffer: ports, ranges, and one task reading what the last wrote.    *)
(***************************************************************************)
Runnable(c) ==
    /\ TaskAt(c, 1).input = 1
    /\ TaskAt(c, TaskCount(c)).output = FinalPair(c)
    /\ \A i \in 1..TaskCount(c) :
         /\ TaskAt(c, i).op \in TaskOps
         /\ TaskAt(c, i).layer < NumLayers
         /\ TaskAt(c, i).input \in Pairs /\ TaskAt(c, i).output \in Pairs
         /\ i > 1 => TaskAt(c, i - 1).output = TaskAt(c, i).input

-----------------------------------------------------------------------------
(***************************************************************************)
(* The controller reads the pair bound to its input ports and writes the   *)
(* pair bound to its output ports.  Every operation that reads the tables  *)
(* needs them on the device.                                               *)
(***************************************************************************)
Operation(t) ==
    [op |-> t.op, layer |-> t.layer, position |-> t.position, rows |-> t.rows]

Apply(t, tensor) == [tensor EXCEPT !.ops = Append(@, Operation(t))]

Execute(t, p) ==
    dev' = [dev EXCEPT ![p.output] =
              IF t.op = "FEATURE" \/ aux.dev = "tables"
              THEN Apply(t, dev[p.input]) ELSE Blank]

Init ==
    /\ pc = "idle"
    /\ call = Nothing
    /\ next = 1
    /\ ports = DefaultPorts
    /\ dev = [p \in Pairs |-> Blank]
    /\ host = [p \in Pairs |-> Blank]
    /\ aux = Tables
    /\ seen = Nothing
    /\ output = Nothing

(***************************************************************************)
(* ensure_persistent_auxiliary_state, clear_feature_data, pack_feature and *)
(* the migration of the packed pair.                                       *)
(***************************************************************************)
EnsureAux == aux' = IF aux.valid THEN aux ELSE Tables

Enter(c) ==
    /\ pc = "idle"
    /\ Accepted(c)
    /\ pc' = "ready"
    /\ call' = c
    /\ next' = 1
    /\ host' = [p \in Pairs |-> IF p = 1 THEN Packed(c) ELSE Blank]
    /\ seen' = Nothing
    /\ output' = Nothing
    /\ UNCHANGED ports

StartProgram(c) ==
    /\ c.kind # "launch"
    /\ Runnable(c)
    /\ Enter(c)
    /\ EnsureAux
    /\ dev' = [dev EXCEPT ![1] = Packed(c)]

(***************************************************************************)
(* launch: every host copy migrates to the device, the tables with them,   *)
(* and the valid flag drops.  A plain operator has cleared the tables'     *)
(* host copy and packed its second operand there (clear_data).             *)
(***************************************************************************)
FlagSurvivesLaunch(c) ==                                          \* fault
    /\ c.kind = "launch"
    /\ Enter(c)
    /\ aux' = IF c.op = "LAYER" THEN Tables
              ELSE [host |-> "other", dev |-> "other", valid |-> TRUE]
    /\ dev' = host'

StartLaunch(c) ==
    /\ c.kind = "launch"
    /\ Enter(c)
    /\ aux' = IF c.op = "LAYER"
              THEN LET held == IF aux.valid THEN aux.host ELSE "tables"
                   IN  [host |-> held, dev |-> held, valid |-> FALSE]
              ELSE [host |-> "other", dev |-> "other", valid |-> FALSE]
    /\ dev' = host'

Reject(c) ==
    /\ pc = "idle"
    /\ ~Accepted(c) \/ (c.kind # "launch" /\ ~Runnable(c))
    /\ pc' = "failed"
    /\ UNCHANGED <<call, next, ports, dev, host, aux, seen, output>>

(***************************************************************************)
(* bind_controller_data_ports, execute_bound_resident_task, check_status.  *)
(***************************************************************************)
RunTask ==
    /\ pc = "ready" /\ call.kind # "launch"
    /\ next <= TaskCount(call)
    /\ LET t == TaskAt(call, next)
       IN  /\ ports' = [input |-> t.input, output |-> t.output]
           /\ Execute(t, ports')
    /\ next' = next + 1
    /\ pc' = IF call.checkpoint THEN "checkpoint" ELSE "ready"
    /\ UNCHANGED <<call, host, aux, seen, output>>

(* A launch uses the ports as they are. *)
RunLaunch ==
    /\ pc = "ready" /\ call.kind = "launch"
    /\ next <= TaskCount(call)
    /\ Execute(TaskAt(call, next), ports)
    /\ next' = next + 1
    /\ UNCHANGED <<pc, call, ports, host, aux, seen, output>>

(***************************************************************************)
(* The checkpoint: the pair the task wrote is copied to the host and given *)
(* to the callback, which says whether to go on.                           *)
(***************************************************************************)
CheckpointOfFinalPair == FinalPair(call)                          \* fault
CheckpointPair == TaskAt(call, next - 1).output

Checkpoint ==
    /\ pc = "checkpoint"
    /\ host' = [host EXCEPT ![CheckpointPair] = dev[CheckpointPair]]
    /\ seen' = host'[CheckpointPair]
    /\ pc' \in {"ready", "stopped"}
    /\ UNCHANGED <<call, next, ports, dev, aux, output>>

(***************************************************************************)
(* After the last task or an early stop: materialize the final pair when   *)
(* asked to and not stopped, restore the ports, unpack.                    *)
(***************************************************************************)
PortsLeftBound == ports' = ports                                  \* fault
RestorePorts ==
    ports' = IF call.kind = "launch" THEN ports ELSE DefaultPorts

Finish ==
    /\ pc = "ready" /\ next > TaskCount(call)
    /\ pc' = "idle"
    /\ host' = IF call.materialize
               THEN [host EXCEPT ![FinalPair(call)] = dev[FinalPair(call)]]
               ELSE host
    /\ output' = IF call.materialize THEN host'[FinalPair(call)] ELSE Nothing
    /\ RestorePorts
    /\ UNCHANGED <<call, next, dev, aux, seen>>

FinishStopped ==
    /\ pc = "stopped"
    /\ pc' = "idle"
    /\ RestorePorts
    /\ UNCHANGED <<call, next, dev, host, aux, seen, output>>

(***************************************************************************)
(* An OpenCL error, or a status that check_status refuses: the handler     *)
(* restores the ports and rethrows.                                        *)
(***************************************************************************)
RethrowAsIs ==                                                    \* fault
    /\ pc \notin {"idle", "failed"}
    /\ pc' = "failed"
    /\ UNCHANGED <<call, next, ports, dev, host, aux, seen, output>>

Fail ==
    /\ pc \notin {"idle", "failed"}
    /\ pc' = "failed"
    /\ RestorePorts
    /\ UNCHANGED <<call, next, dev, host, aux, seen, output>>

(* main has returned 1. *)
Exited == pc = "failed" /\ UNCHANGED vars

Next ==
    \/ \E c \in Calls : StartProgram(c) \/ StartLaunch(c) \/ Reject(c)
    \/ RunTask
    \/ RunLaunch
    \/ Checkpoint
    \/ Finish
    \/ FinishStopped
    \/ Fail
    \/ Exited

Spec == Init /\ [][Next]_vars

-----------------------------------------------------------------------------
(* The operations a call asks for, in order, whatever the buffers. *)
Sublayer(c, i) ==
    LET op(name, layer) == [op |-> name, layer |-> layer,
                            position |-> c.position, rows |-> c.rows]
    IN  IF c.kind # "stack" THEN op(c.op, c.begin)
        ELSE IF i > 2 * c.count THEN op("FINAL_NORM", 0)
        ELSE op(IF i % 2 = 1 THEN "ATTENTION" ELSE "FFN",
                c.begin + (i - 1) \div 2)

Sublayers(c) == [i \in 1..TaskCount(c) |-> Sublayer(c, i)]

After(c, n) == [src |-> c.src, ops |-> SubSeq(Sublayers(c), 1, n)]

Ask(c) == [src |-> c.src, ops |-> Sublayers(c),
           materialize |-> c.materialize, checkpoint |-> c.checkpoint]

(***************************************************************************)
(* The pair that holds the tensor after the first next - 1 tasks.          *)
(***************************************************************************)
CurrentPair == IF next = 1 THEN 1 ELSE TaskAt(call, next - 1).output

Running == pc \in {"ready", "checkpoint", "stopped"}

(* Types; while a call is at work it is one of Calls and next indexes one   *)
(* of its tasks or points past the last (run_coarse_task_program's loop).   *)
TypeOK ==
    /\ pc \in {"idle", "ready", "checkpoint", "stopped", "failed"}
    /\ call \in Calls \cup {Nothing}
    /\ Running => call \in Calls /\ next \in 1..(TaskCount(call) + 1)
    /\ ports \in [input : Pairs, output : Pairs]
    /\ aux \in [host : {"tables", "other"}, dev : {"tables", "other"},
                valid : BOOLEAN]
    /\ DOMAIN dev = Pairs /\ DOMAIN host = Pairs

(***************************************************************************)
(* Between two calls, and after a failure, the controller reads pair 1 and *)
(* writes pair 0: what every launch that does not bind its ports takes for *)
(* granted (bind_controller_data_ports(0, 1, 2, 3) on every way out).      *)
(***************************************************************************)
PortsAtRest ==
    pc \in {"idle", "failed"} \/ (Running /\ call.kind = "launch")
        => ports = DefaultPorts

(***************************************************************************)
(* While a task program runs, the norm and RoPE tables are on the device,  *)
(* whatever plain operators overwrote them before.                         *)
(***************************************************************************)
TablesOnDevice ==
    /\ aux.valid => aux.host = "tables" /\ aux.dev = "tables"
    /\ Running /\ ~(call.kind = "launch" /\ call.op = "FEATURE")
         => aux.dev = "tables"

(***************************************************************************)
(* The ping-pong chain: the pair the last task wrote holds the input with  *)
(* exactly the operations run so far, each applied once and in order, and  *)
(* the next task reads that pair.                                          *)
(***************************************************************************)
Chain ==
    Running =>
        /\ dev[CurrentPair] = After(call, next - 1)
        /\ next <= TaskCount(call) => TaskAt(call, next).input = CurrentPair

(***************************************************************************)
(* A checkpoint callback sees the tensor after the tasks run so far.       *)
(***************************************************************************)
CheckpointsFollowStack ==
    Running /\ pc # "checkpoint" /\ next > 1 /\ call.checkpoint
        => seen = After(call, next - 1)

Abstract ==
    INSTANCE HiddenStack WITH
        Asks <- {Ask(c) : c \in Calls},
        phase <- IF pc \in {"idle", "failed"} THEN pc ELSE "busy",
        ask <- IF call = Nothing THEN Nothing ELSE Ask(call),
        done <- next - 1

(***************************************************************************)
(* The runtime implements HiddenStack: a caller gets all the sublayers it  *)
(* asked for, once, in order, on its input, or nothing.                    *)
(***************************************************************************)
ImplementsHiddenStack == Abstract!Spec
=============================================================================
