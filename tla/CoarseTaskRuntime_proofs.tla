---------------------- MODULE CoarseTaskRuntime_proofs ----------------------
(***************************************************************************)
(* Proofs about CoarseTaskRuntime, for every model shape and every set of  *)
(* calls.                                                                  *)
(***************************************************************************)
EXTENDS CoarseTaskRuntime, SequenceTheorems, TLAPS

OpRecords ==
    [op : TaskOps \cup LaunchOps, layer : Nat, position : Nat, rows : Nat]

-----------------------------------------------------------------------------
(* Lemmas about the programs build_coarse_decoder_program builds. *)

LEMMA TaskCountType ==
    ASSUME NEW c \in Calls
    PROVE  /\ c \in CallRecords
           /\ TaskCount(c) \in Nat
           /\ Accepted(c) => TaskCount(c) >= 1
BY CallAssumption DEF TaskCount, Accepted, CallRecords, Kinds

(* The i-th task is the i-th sublayer the call asks for. *)
LEMMA TaskIsSublayer ==
    ASSUME NEW c \in Calls, NEW i \in 1..TaskCount(c)
    PROVE  /\ Sublayers(c)[i] = Operation(TaskAt(c, i))
           /\ Operation(TaskAt(c, i)) \in OpRecords
           /\ TaskAt(c, i).input \in Pairs /\ TaskAt(c, i).output \in Pairs
<1>1. CASE c.kind # "stack"
  BY <1>1, CallAssumption, TaskCountType
  DEF Sublayers, Sublayer, TaskAt, Operation, Descriptor, OpRecords, CallRecords, Pairs, Kinds
<1>2. CASE c.kind = "stack"
  <2>1. /\ c.count \in Nat /\ c.begin \in Nat /\ c.norm \in BOOLEAN
        /\ c.position \in Nat /\ c.rows \in Nat
    BY TaskCountType DEF CallRecords
  <2>2. i > 2 * c.count <=> i = 2 * c.count + 1
    BY <1>2, <2>1 DEF TaskCount
  <2>3. (i - 1) \div 2 \in Nat
    OBVIOUS
  <2>4. TaskAt(c, i) = StackTask(c, i) /\ Sublayers(c)[i] = Sublayer(c, i)
    BY <1>2 DEF TaskAt, Sublayers
  <2>5. CASE i = 2 * c.count + 1
    BY <1>2, <2>1, <2>2, <2>4, <2>5
    DEF Sublayer, StackTask, Operation, Descriptor, OpRecords, TaskOps, LaunchOps, Pairs
  <2>6. CASE i # 2 * c.count + 1 /\ i % 2 = 1
    BY <1>2, <2>1, <2>2, <2>3, <2>4, <2>6
    DEF Sublayer, StackTask, Operation, Descriptor, OpRecords, TaskOps, LaunchOps, Pairs
  <2>7. CASE i # 2 * c.count + 1 /\ i % 2 # 1
    BY <1>2, <2>1, <2>2, <2>3, <2>4, <2>7
    DEF Sublayer, StackTask, Operation, Descriptor, OpRecords, TaskOps, LaunchOps, Pairs
  <2>8. QED BY <2>5, <2>6, <2>7
<1>3. QED BY <1>1, <1>2

(* The pairs alternate: every task reads what the one before it wrote, the  *)
(* first reads pair 1, and the last writes the pair the caller is given.    *)
LEMMA PairsAlternate ==
    ASSUME NEW c \in Calls, TaskCount(c) >= 1
    PROVE  /\ TaskAt(c, 1).input = 1
           /\ TaskAt(c, TaskCount(c)).output = FinalPair(c)
           /\ \A i \in 1..TaskCount(c) :
                i > 1 => TaskAt(c, i - 1).output = TaskAt(c, i).input
<1>1. CASE c.kind # "stack"
  BY <1>1 DEF TaskAt, Descriptor, FinalPair, TaskCount
<1>2. CASE c.kind = "stack"
  <2>1. c.count \in Nat /\ c.norm \in BOOLEAN
    BY TaskCountType DEF CallRecords
  <2>2. ASSUME NEW i \in Nat, i >= 1
        PROVE  /\ TaskAt(c, i).input = (IF i % 2 = 1 THEN 1 ELSE 0)
               /\ TaskAt(c, i).output = (IF i % 2 = 1 THEN 0 ELSE 1)
    <3>1. (2 * c.count + 1) % 2 = 1
      BY <2>1
    <3>2. QED BY <1>2, <2>2, <3>1 DEF TaskAt, StackTask, Descriptor
  <2>3. \A i \in Nat : i > 1 => ((i - 1) % 2 = 1 <=> i % 2 # 1)
    OBVIOUS
  <2>4. TaskCount(c) % 2 = (IF c.norm THEN 1 ELSE 0)
    BY <1>2, <2>1 DEF TaskCount
  <2>5. TaskCount(c) \in Nat
    BY TaskCountType
  <2>6. TaskAt(c, 1).input = 1
    BY <2>2
  <2>7. TaskAt(c, TaskCount(c)).output = FinalPair(c)
    BY <1>2, <2>1, <2>2, <2>4, <2>5 DEF FinalPair
  <2>8. ASSUME NEW i \in 1..TaskCount(c), i > 1
        PROVE  TaskAt(c, i - 1).output = TaskAt(c, i).input
    BY <2>2, <2>3, <2>5, <2>8
  <2>9. QED BY <2>6, <2>7, <2>8
<1>3. QED BY <1>1, <1>2

(* Applying the next task extends the prefix of sublayers by one. *)
LEMMA ApplyAppends ==
    ASSUME NEW t, NEW x, NEW q
    PROVE  Apply(t, [src |-> x, ops |-> q])
             = [src |-> x, ops |-> Append(q, Operation(t))]
<1> DEFINE r == [src |-> x, ops |-> q]
<1>1. r.ops = q /\ r = [f \in {"src", "ops"} |-> IF f = "src" THEN x ELSE q]
  OBVIOUS
<1> HIDE DEF r
<1>2. [r EXCEPT !.ops = Append(r.ops, Operation(t))]
        = [src |-> x, ops |-> Append(q, Operation(t))]
  BY <1>1
<1>3. QED BY <1>2 DEF Apply, r

LEMMA ApplyNext ==
    ASSUME NEW c \in Calls, NEW n \in 1..TaskCount(c)
    PROVE  Apply(TaskAt(c, n), After(c, n - 1)) = After(c, n)
<1> DEFINE s == Sublayers(c)
<1>1. s \in Seq(OpRecords) /\ Len(s) = TaskCount(c)
  <2>1. TaskCount(c) \in Nat
    BY TaskCountType
  <2>2. \A i \in 1..TaskCount(c) : s[i] \in OpRecords
    BY TaskIsSublayer
  <2>3. s = [i \in 1..TaskCount(c) |-> s[i]]
    BY DEF Sublayers
  <2> HIDE DEF s
  <2>4. QED BY <2>1, <2>2, <2>3, IsASeq, LenProperties
<1>2. s[n] = Operation(TaskAt(c, n))
  BY TaskIsSublayer
<1> HIDE DEF s
<1>3. SubSeq(s, 1, n) = SubSeq(s, 1, n - 1) \o <<s[n]>>
  BY <1>1, SubSeqRecursiveSecond
<1>4. SubSeq(s, 1, n - 1) \in Seq(OpRecords) /\ s[n] \in OpRecords
  BY <1>1, SubSeqProperties, ElementOfSeq
<1>5. Append(SubSeq(s, 1, n - 1), s[n]) = SubSeq(s, 1, n)
  BY <1>3, <1>4, AppendIsConcat
<1>6. Append(SubSeq(Sublayers(c), 1, n - 1), Operation(TaskAt(c, n)))
        = SubSeq(Sublayers(c), 1, n)
  BY <1>2, <1>5 DEF s
<1>7. Apply(TaskAt(c, n), After(c, n - 1))
        = [src |-> c.src, ops |-> Append(SubSeq(Sublayers(c), 1, n - 1),
                                         Operation(TaskAt(c, n)))]
  BY ApplyAppends DEF After
<1>8. QED BY <1>6, <1>7, Zenon DEF After

LEMMA AfterNone ==
    ASSUME NEW c \in Calls
    PROVE  After(c, 0) = Packed(c)
BY SubSeqEmpty DEF After, Packed
-----------------------------------------------------------------------------
(***************************************************************************)
(* The inductive invariant: the run's invariants, that a running call was  *)
(* accepted, and that only a checkpointed program that has run a task      *)
(* stands at a checkpoint or has been stopped.                             *)
(***************************************************************************)
Progress ==
    /\ Running => Accepted(call)
    /\ pc \in {"checkpoint", "stopped"} => next > 1 /\ call.checkpoint

IInv ==
    /\ TypeOK
    /\ PortsAtRest
    /\ TablesOnDevice
    /\ Progress
    /\ Chain
    /\ CheckpointsFollowStack

LEMMA InitIInv == Init => IInv
BY DEF Init, IInv, TypeOK, PortsAtRest, TablesOnDevice, Progress, Chain,
       CheckpointsFollowStack, Running, Tables, DefaultPorts, Pairs

(* What a call that enters leaves behind, whatever its kind. *)
LEMMA EnterKeeps ==
    ASSUME NEW c \in Calls, IInv, Enter(c), DOMAIN dev' = Pairs,
           dev'[1] = Packed(c)
    PROVE  Progress' /\ Chain' /\ CheckpointsFollowStack'
<1>1. TaskCount(c) >= 1 /\ TaskCount(c) \in Nat
  BY TaskCountType DEF Enter
<1>2. pc' = "ready" /\ call' = c /\ next' = 1 /\ Accepted(c)
  BY DEF Enter
<1>3. Progress'
  BY <1>2 DEF Progress, Accepted, InModel
<1>4. CurrentPair' = 1
  BY <1>2 DEF CurrentPair
<1>5. Chain'
  BY <1>1, <1>2, <1>4, AfterNone, PairsAlternate DEF Chain
<1>6. CheckpointsFollowStack'
  BY <1>2 DEF CheckpointsFollowStack
<1>7. QED BY <1>3, <1>5, <1>6

LEMMA StartProgramIInv ==
    ASSUME NEW c \in Calls, IInv, StartProgram(c)
    PROVE  IInv'
<1>1. Enter(c) /\ EnsureAux /\ c.kind # "launch"
  BY DEF StartProgram
<1>2. DOMAIN dev' = Pairs /\ dev'[1] = Packed(c)
  BY DEF StartProgram, IInv, TypeOK, Pairs
<1>3. Progress' /\ Chain' /\ CheckpointsFollowStack'
  BY <1>1, <1>2, EnterKeeps
<1>4. pc = "idle" /\ pc' = "ready" /\ call' = c /\ ports' = ports
  BY <1>1 DEF Enter
<1>5. TablesOnDevice' /\ aux' \in [host : {"tables", "other"},
                            dev : {"tables", "other"}, valid : BOOLEAN]
  BY <1>1, <1>4 DEF EnsureAux, IInv, TypeOK, TablesOnDevice, Tables, Running
<1>6. TypeOK'
  BY <1>1, <1>2, <1>5, TaskCountType DEF Enter, IInv, TypeOK, Running, Pairs
<1>7. PortsAtRest'
  BY <1>1, <1>4 DEF IInv, PortsAtRest, Running
<1>8. QED BY <1>3, <1>5, <1>6, <1>7 DEF IInv

LEMMA StartLaunchIInv ==
    ASSUME NEW c \in Calls, IInv, StartLaunch(c)
    PROVE  IInv'
<1>1. Enter(c) /\ c.kind = "launch" /\ dev' = host'
  BY DEF StartLaunch
<1>2. DOMAIN host' = Pairs /\ DOMAIN dev' = Pairs /\ dev'[1] = Packed(c)
  BY <1>1 DEF Enter, Pairs
<1>3. Progress' /\ Chain' /\ CheckpointsFollowStack'
  BY <1>1, <1>2, EnterKeeps
<1>4. pc = "idle" /\ pc' = "ready" /\ call' = c /\ ports' = ports
  BY <1>1 DEF Enter
<1>5. c.op \in {"LAYER", "FEATURE"}
  BY <1>1, CallAssumption DEF LaunchOps
<1>6. TablesOnDevice' /\ aux' \in [host : {"tables", "other"},
                            dev : {"tables", "other"}, valid : BOOLEAN]
  BY <1>4, <1>5 DEF StartLaunch, IInv, TypeOK, TablesOnDevice, Running
<1>7. TypeOK'
  BY <1>1, <1>2, <1>6, TaskCountType DEF Enter, IInv, TypeOK, Running
<1>8. PortsAtRest'
  BY <1>4 DEF IInv, PortsAtRest
<1>9. QED BY <1>3, <1>6, <1>7, <1>8 DEF IInv

LEMMA RunTaskIInv ==
    ASSUME IInv, RunTask
    PROVE  IInv'
<1> DEFINE t == TaskAt(call, next)
<1>1. /\ pc = "ready" /\ call \in Calls /\ call.kind # "launch" /\ Running
      /\ next \in 1..TaskCount(call) /\ TaskCount(call) \in Nat
  BY TaskCountType DEF RunTask, IInv, TypeOK, Running
<1>2. /\ t.input \in Pairs /\ t.output \in Pairs
      /\ t.input = CurrentPair
  BY <1>1, TaskIsSublayer DEF IInv, Chain
<1>3. /\ pc' \in {"ready", "checkpoint"} /\ call' = call /\ next' = next + 1
      /\ pc' = "checkpoint" <=> call.checkpoint
      /\ ports' = [input |-> t.input, output |-> t.output]
      /\ UNCHANGED <<host, aux, seen, output>>
  BY DEF RunTask
<1>4. aux.dev = "tables"
  BY <1>1 DEF IInv, TablesOnDevice
<1>5. dev' = [dev EXCEPT ![t.output] = Apply(t, dev[t.input])]
  <2>1. Execute(t, ports')
    BY DEF RunTask
  <2> HIDE DEF t
  <2>2. QED BY <2>1, <1>3, <1>4 DEF Execute
<1>6. DOMAIN dev' = Pairs /\ dev'[t.output] = Apply(t, dev[t.input])
  <2> HIDE DEF t
  <2>1. QED BY <1>2, <1>5 DEF IInv, TypeOK
<1>7. dev'[t.output] = After(call, next)
  BY <1>1, <1>2, <1>6, ApplyNext DEF IInv, Chain
<1>8. CurrentPair' = t.output
  BY <1>1, <1>3 DEF CurrentPair
<1>9. TypeOK'
  BY <1>1, <1>2, <1>3, <1>6 DEF IInv, TypeOK, Running
<1>10. PortsAtRest' /\ TablesOnDevice'
  BY <1>1, <1>3 DEF IInv, PortsAtRest, TablesOnDevice, Running
<1>11. Progress'
  BY <1>1, <1>3 DEF IInv, Progress, Running, Accepted, InModel
<1>12. Chain'
  <2>1. next + 1 <= TaskCount(call) => TaskAt(call, next + 1).input = t.output
    BY <1>1, PairsAlternate
  <2>2. next' - 1 = next /\ call' = call
    BY <1>1, <1>3
  <2> HIDE DEF t
  <2>3. dev'[CurrentPair'] = After(call', next' - 1)
    BY <1>7, <1>8, <2>2
  <2>4. QED BY <1>3, <1>8, <2>1, <2>3 DEF Chain
<1>13. CheckpointsFollowStack'
  BY <1>3 DEF CheckpointsFollowStack
<1>14. QED BY <1>9, <1>10, <1>11, <1>12, <1>13 DEF IInv

LEMMA RunLaunchIInv ==
    ASSUME IInv, RunLaunch
    PROVE  IInv'
<1> DEFINE t == TaskAt(call, 1)
<1>1. /\ pc = "ready" /\ call \in Calls /\ call.kind = "launch" /\ Running
      /\ next \in 1..TaskCount(call) /\ TaskCount(call) \in Nat
  BY TaskCountType DEF RunLaunch, IInv, TypeOK, Running
<1>2. TaskCount(call) = 1 /\ next = 1
  BY <1>1 DEF TaskCount
<1>3. t.input = 1 /\ t.output = 0 /\ t.op = call.op
  BY <1>1 DEF TaskAt, Descriptor
<1>4. ports = DefaultPorts /\ CurrentPair = 1
  BY <1>1, <1>2 DEF IInv, PortsAtRest, CurrentPair
<1>5. call.op = "FEATURE" \/ aux.dev = "tables"
  BY <1>1 DEF IInv, TablesOnDevice
<1>6. dev' = [dev EXCEPT ![0] = Apply(t, dev[1])]
  <2>1. Execute(t, ports)
    BY <1>2 DEF RunLaunch
  <2> HIDE DEF t
  <2>2. QED BY <2>1, <1>3, <1>4, <1>5 DEF Execute, DefaultPorts
<1>7. DOMAIN dev' = Pairs /\ dev'[0] = Apply(t, dev[1])
  <2> HIDE DEF t
  <2>1. QED BY <1>6 DEF IInv, TypeOK, Pairs
<1>8. dev'[0] = After(call, 1)
  <2>1. dev[1] = After(call, 0)
    BY <1>1, <1>2, <1>4 DEF IInv, Chain
  <2>2. 1 \in 1..TaskCount(call)
    BY <1>2
  <2>3. Apply(t, After(call, 1 - 1)) = After(call, 1)
    BY <1>1, <2>2, ApplyNext
  <2>4. QED BY <1>7, <2>1, <2>3
<1>9. pc' = pc /\ next' = 2 /\ UNCHANGED <<call, ports, host, aux, seen>>
  BY <1>2 DEF RunLaunch
<1>10. ~call.checkpoint
  BY <1>1, CallAssumption
<1>11. CurrentPair' = 0
  BY <1>3, <1>9 DEF CurrentPair
<1>12. TypeOK'
  BY <1>1, <1>2, <1>7, <1>9 DEF IInv, TypeOK, Running
<1>13. PortsAtRest' /\ TablesOnDevice'
  BY <1>9 DEF IInv, PortsAtRest, TablesOnDevice, Running
<1>14. Progress'
  BY <1>1, <1>9 DEF IInv, Progress, Running, Accepted, InModel
<1>15. Chain'
  BY <1>2, <1>8, <1>9, <1>11 DEF Chain
<1>16. CheckpointsFollowStack'
  BY <1>9, <1>10 DEF CheckpointsFollowStack
<1>17. QED BY <1>12, <1>13, <1>14, <1>15, <1>16 DEF IInv
LEMMA CheckpointIInv ==
    ASSUME IInv, Checkpoint
    PROVE  IInv'
<1>1. /\ pc = "checkpoint" /\ call \in Calls /\ Running
      /\ next \in 1..(TaskCount(call) + 1) /\ TaskCount(call) \in Nat
      /\ next > 1 /\ call.checkpoint
  BY TaskCountType DEF Checkpoint, IInv, TypeOK, Progress, Running
<1>2. CheckpointPair = CurrentPair
  BY <1>1 DEF CheckpointPair, CurrentPair
<1>3. CurrentPair \in Pairs
  BY <1>1, <1>2, TaskIsSublayer DEF CheckpointPair
<1>4. /\ pc' \in {"ready", "stopped"} /\ seen' = host'[CurrentPair]
      /\ host' = [host EXCEPT ![CurrentPair] = dev[CurrentPair]]
      /\ UNCHANGED <<call, next, ports, dev, aux, output>>
  BY <1>2 DEF Checkpoint
<1>5. CurrentPair' = CurrentPair
  BY <1>4 DEF CurrentPair
<1>6. DOMAIN host' = Pairs /\ host'[CurrentPair] = dev[CurrentPair]
  BY <1>3, <1>4 DEF IInv, TypeOK
<1>7. TypeOK'
  BY <1>1, <1>4, <1>6 DEF IInv, TypeOK, Running
<1>8. PortsAtRest'
  <2>1. call.kind # "launch"
    BY <1>1, CallAssumption
  <2>2. QED BY <1>4, <2>1 DEF PortsAtRest
<1>9. TablesOnDevice'
  BY <1>1, <1>4 DEF IInv, TablesOnDevice, Running
<1>10. Progress'
  BY <1>1, <1>4 DEF IInv, Progress, Running, Accepted, InModel
<1>11. Chain'
  BY <1>1, <1>4, <1>5 DEF IInv, Chain, Running
<1>12. CheckpointsFollowStack'
  BY <1>1, <1>4, <1>6 DEF IInv, Chain, CheckpointsFollowStack
<1>13. QED BY <1>7, <1>8, <1>9, <1>10, <1>11, <1>12 DEF IInv

(* A step that ends the call or the process, with the ports restored. *)
LEMMA EndsIInv ==
    ASSUME IInv, pc' \in {"idle", "failed"}, UNCHANGED <<call, next, dev, aux>>,
           DOMAIN host' = Pairs, ports' = DefaultPorts
    PROVE  IInv'
BY DEF IInv, TypeOK, PortsAtRest, TablesOnDevice, Progress, Chain,
       CheckpointsFollowStack, Running, DefaultPorts, Pairs

LEMMA PortsRestored ==
    ASSUME IInv, Running, RestorePorts
    PROVE  ports' = DefaultPorts
BY DEF IInv, PortsAtRest, RestorePorts

LEMMA NextIInv ==
    ASSUME IInv, [Next]_vars
    PROVE  IInv'
<1>1. ASSUME NEW c \in Calls, StartProgram(c) PROVE IInv'
  BY <1>1, StartProgramIInv
<1>2. ASSUME NEW c \in Calls, StartLaunch(c) PROVE IInv'
  BY <1>2, StartLaunchIInv
<1>3. ASSUME NEW c \in Calls, Reject(c) PROVE IInv'
  <2>1. ports = DefaultPorts
    BY <1>3 DEF Reject, IInv, PortsAtRest
  <2>2. QED BY <1>3, <2>1, EndsIInv DEF Reject, IInv, TypeOK
<1>4. CASE RunTask
  BY <1>4, RunTaskIInv
<1>5. CASE RunLaunch
  BY <1>5, RunLaunchIInv
<1>6. CASE Checkpoint
  BY <1>6, CheckpointIInv
<1>7. CASE Finish
  <2>1. Running
    BY <1>7 DEF Finish, Running
  <2>2. ports' = DefaultPorts
    BY <1>7, <2>1, PortsRestored DEF Finish
  <2>3. DOMAIN host' = Pairs
    BY <1>7 DEF Finish, IInv, TypeOK
  <2>4. QED BY <1>7, <2>2, <2>3, EndsIInv DEF Finish
<1>8. CASE FinishStopped
  <2>1. ports' = DefaultPorts
    BY <1>8, PortsRestored DEF FinishStopped, Running
  <2>2. QED BY <1>8, <2>1, EndsIInv DEF FinishStopped, IInv, TypeOK
<1>9. CASE Fail
  <2>1. Running
    BY <1>9 DEF Fail, IInv, TypeOK, Running
  <2>2. ports' = DefaultPorts
    BY <1>9, <2>1, PortsRestored DEF Fail
  <2>3. QED BY <1>9, <2>2, EndsIInv DEF Fail, IInv, TypeOK
<1>10. CASE UNCHANGED vars
  BY <1>10 DEF vars, IInv, TypeOK, PortsAtRest, TablesOnDevice, Progress, Chain,
       CheckpointsFollowStack, Running, CurrentPair, Accepted, InModel
<1>11. QED
  BY <1>1, <1>2, <1>3, <1>4, <1>5, <1>6, <1>7, <1>8, <1>9, <1>10
  DEF Next, Exited

(* The invariant holds in every state of every behaviour. *)
LEMMA Inductive == Spec => []IInv
BY InitIInv, NextIInv, PTL DEF Spec

(***************************************************************************)
(* Types, for every model shape and every sequence of calls: while a call  *)
(* is at work, next names one of its tasks or the place past the last, the *)
(* loop of run_coarse_task_program.                                        *)
(***************************************************************************)
THEOREM WellTyped == Spec => []TypeOK
<1>1. IInv => TypeOK
  BY DEF IInv
<1>2. QED BY <1>1, Inductive, PTL

(***************************************************************************)
(* Every way out of a task program, also the one of an exception, binds    *)
(* the controller's ports back: whenever no call is at work or a plain     *)
(* launch is, it reads pair 1 and writes pair 0.                           *)
(***************************************************************************)
THEOREM PortsAreRestored == Spec => []PortsAtRest
<1>1. IInv => PortsAtRest
  BY DEF IInv
<1>2. QED BY <1>1, Inductive, PTL

(***************************************************************************)
(* Whatever plain operators overwrote the auxiliary buffer, a task program *)
(* runs with the norm and RoPE tables in it.                               *)
(***************************************************************************)
THEOREM TablesAreLoaded == Spec => []TablesOnDevice
<1>1. IInv => TablesOnDevice
  BY DEF IInv
<1>2. QED BY <1>1, Inductive, PTL

(***************************************************************************)
(* The buffer pair the last task wrote holds the input with the operations *)
(* so far applied, each once and in order, and the next task reads it: for *)
(* every stack of layers and every length of program.                      *)
(***************************************************************************)
THEOREM PingPong == Spec => []Chain
<1>1. IInv => Chain
  BY DEF IInv
<1>2. QED BY <1>1, Inductive, PTL

(***************************************************************************)
(* After a task of a call with checkpoints, what the callback was given is *)
(* the tensor after exactly the tasks run so far.                          *)
(***************************************************************************)
THEOREM CheckpointsSeeStack == Spec => []CheckpointsFollowStack
<1>1. IInv => CheckpointsFollowStack
  BY DEF IInv
<1>2. QED BY <1>1, Inductive, PTL

-----------------------------------------------------------------------------
(***************************************************************************)
(* Every program the builder makes passes the checks of                    *)
(* run_coarse_task_program: an accepted call is never refused halfway      *)
(* between the two.                                                        *)
(***************************************************************************)
THEOREM BuiltProgramsRun ==
    ASSUME NEW c \in Calls, Accepted(c), c.kind # "launch"
    PROVE  Runnable(c)
<1>1. TaskCount(c) >= 1 /\ TaskCount(c) \in Nat /\ c \in CallRecords
  BY TaskCountType
<1>2. ASSUME NEW i \in 1..TaskCount(c)
      PROVE  TaskAt(c, i).op \in TaskOps /\ TaskAt(c, i).layer < NumLayers
  <2>1. CASE c.kind = "task"
    BY <2>1, CallAssumption DEF TaskAt, Descriptor, Accepted, InModel
  <2>2. CASE c.kind = "stack"
    <3>1. /\ c.begin \in Nat /\ c.count \in Nat /\ NumLayers \in Nat /\ NumLayers > 0
          /\ c.begin + c.count <= NumLayers /\ i \in Nat /\ i >= 1
          /\ i <= 2 * c.count + 1
      BY <1>1, <2>2, ShapeAssumption DEF CallRecords, Accepted, TaskCount
    <3>2. i # 2 * c.count + 1 => c.begin + (i - 1) \div 2 < NumLayers
      BY <3>1
    <3>3. QED BY <2>2, <3>1, <3>2 DEF TaskAt, StackTask, Descriptor, TaskOps
  <2>3. QED BY <1>1, <2>1, <2>2 DEF CallRecords, Kinds
<1>3. \A i \in 1..TaskCount(c) :
        TaskAt(c, i).input \in Pairs /\ TaskAt(c, i).output \in Pairs
  BY TaskIsSublayer
<1>4. QED BY <1>1, <1>2, <1>3, PairsAlternate DEF Runnable

-----------------------------------------------------------------------------
(* The runtime implements HiddenStack, step by step. *)

LEMMA SublayersLen ==
    ASSUME NEW c \in Calls
    PROVE  Len(Ask(c).ops) = TaskCount(c) /\ Ask(c).ops = Sublayers(c)
<1>1. TaskCount(c) \in Nat
  BY TaskCountType
<1>2. Sublayers(c) \in Seq(OpRecords)
  BY <1>1, TaskIsSublayer, IsASeq DEF Sublayers
<1>3. QED BY <1>1, <1>2, LenProperties DEF Ask, Sublayers
LEMMA NotNothing ==
    ASSUME NEW c \in Calls
    PROVE  c # Nothing
BY TaskCountType, NothingAssumption

LEMMA EnterBegins ==
    ASSUME NEW c \in Calls, Enter(c)
    PROVE  Abstract!Begin(Ask(c))
BY NotNothing DEF Enter, Abstract!Begin

LEMMA RunAdvances ==
    ASSUME IInv, pc = "ready", next <= TaskCount(call), next' = next + 1,
           pc' \in {"ready", "checkpoint"}, UNCHANGED <<call, output>>
    PROVE  Abstract!Advance
<1>1. call \in Calls /\ next \in Nat /\ call # Nothing /\ TaskCount(call) \in Nat
  BY NotNothing, TaskCountType DEF IInv, TypeOK, Running
<1>2. Len(Ask(call).ops) = TaskCount(call)
  BY <1>1, SublayersLen
<1>3. QED BY <1>1, <1>2 DEF Abstract!Advance

LEMMA FinishReturns ==
    ASSUME IInv, Finish
    PROVE  Abstract!Return
<1>1. /\ call \in Calls /\ call # Nothing /\ Running /\ pc = "ready"
      /\ TaskCount(call) \in Nat /\ TaskCount(call) >= 1
      /\ next = TaskCount(call) + 1
  BY NotNothing, TaskCountType DEF Finish, IInv, TypeOK, Progress, Running
<1>2. CurrentPair = FinalPair(call)
  BY <1>1, PairsAlternate DEF CurrentPair
<1>3. dev[FinalPair(call)] = After(call, next - 1)
  BY <1>1, <1>2 DEF IInv, Chain
<1>4. After(call, next - 1) = Abstract!Applied(Ask(call), next - 1)
  BY <1>1, SublayersLen DEF After, Abstract!Applied, Ask
<1>5. output' = IF Ask(call).materialize
                THEN Abstract!Applied(Ask(call), next - 1) ELSE Nothing
  <2>1. FinalPair(call) \in DOMAIN host
    BY DEF IInv, TypeOK, FinalPair, Pairs
  <2>2. call.materialize => output' = dev[FinalPair(call)]
    BY <2>1 DEF Finish
  <2>3. Ask(call).materialize = call.materialize
    BY DEF Ask
  <2>4. QED BY <1>3, <1>4, <2>2, <2>3 DEF Finish
<1>6. Len(Ask(call).ops) = TaskCount(call)
  BY <1>1, SublayersLen
<1>7. QED BY <1>1, <1>5, <1>6 DEF Finish, Abstract!Return

LEMMA StepImplements ==
    ASSUME IInv, [Next]_vars
    PROVE  [Abstract!Next]_(Abstract!vars)
<1>1. ASSUME NEW c \in Calls, StartProgram(c) \/ StartLaunch(c)
      PROVE  Abstract!Next
  BY <1>1, EnterBegins DEF StartProgram, StartLaunch, Abstract!Next
<1>2. ASSUME NEW c \in Calls, Reject(c)
      PROVE  Abstract!Next
  BY <1>2 DEF Reject, Abstract!Next, Abstract!Fail
<1>3. CASE RunTask
  <2>1. Abstract!Advance
    BY <1>3, RunAdvances DEF RunTask
  <2>2. QED BY <2>1 DEF Abstract!Next
<1>4. CASE RunLaunch
  <2>1. Abstract!Advance
    BY <1>4, RunAdvances DEF RunLaunch
  <2>2. QED BY <2>1 DEF Abstract!Next
<1>5. CASE Checkpoint
  BY <1>5 DEF Checkpoint, Abstract!vars
<1>6. CASE Finish
  BY <1>6, FinishReturns DEF Abstract!Next
<1>7. CASE FinishStopped
  <2>1. /\ call \in Calls /\ call # Nothing /\ next \in Nat /\ next > 1
        /\ Ask(call).checkpoint
    BY <1>7, NotNothing, TaskCountType
    DEF FinishStopped, IInv, TypeOK, Progress, Running, Ask
  <2>2. (IF call = Nothing THEN Nothing ELSE Ask(call)).checkpoint /\ next - 1 > 0
    BY <2>1
  <2>3. /\ pc = "stopped" /\ pc' = "idle"
        /\ UNCHANGED <<call, next, output>>
    BY <1>7 DEF FinishStopped
  <2>4. Abstract!StopEarly
    BY <2>2, <2>3 DEF Abstract!StopEarly
  <2>5. QED BY <2>4 DEF Abstract!Next
<1>8. CASE Fail
  BY <1>8 DEF Fail, Abstract!Next, Abstract!Fail
<1>9. CASE UNCHANGED vars
  BY <1>9 DEF vars, Abstract!vars
<1>10. QED
  BY <1>1, <1>2, <1>3, <1>4, <1>5, <1>6, <1>7, <1>8, <1>9 DEF Next, Exited

(***************************************************************************)
(* A caller gets the tensor that all the sublayers it asked for produce,   *)
(* each applied once and in order to its own input, or no tensor at all:   *)
(* buffer pairs, bindings, migrations and earlier calls never show.        *)
(***************************************************************************)
THEOREM Implementation == Spec => ImplementsHiddenStack
<1>1. Init => Abstract!Init
  BY DEF Init, Abstract!Init
<1>2. QED
  BY <1>1, Inductive, StepImplements, PTL
  DEF Spec, ImplementsHiddenStack, Abstract!Spec
=============================================================================
