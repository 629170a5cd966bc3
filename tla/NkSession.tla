----------------------------- MODULE NkSession -----------------------------
(***************************************************************************)
(* The free-running kernels of one resident design during compute          *)
(* sessions: the dual-core controller, the packers and unpackers of the    *)
(* typed streams and AXIS links, the two compute cores, and the host that  *)
(* launches them and then the status sink.  Every process blocks on finite *)
(* FIFOs.                                                                  *)
(*                                                                         *)
(*   controller --task,mm,v0,v1--> in 1 --> .. --> in Hops --> core        *)
(*   controller <-----out--------- out 1 <- .. <-- out Hops <-- core       *)
(*                                                                         *)
(* in h hands each task to out h over rtask.  The source has Hops = 2:     *)
(* hop 1 in control_cache_8x64_nk.cpp, hop 2 in compute_core_8x64_nk.cpp.  *)
(***************************************************************************)
EXTENDS NkController

CONSTANTS
    Hops,           \* forwarding processes in series on each link
    TaskDepth,      \* depth of the task FIFOs
    DataDepth,      \* depth of every operand and result FIFO
    StatusDepth,    \* depth of the status FIFO
    Requests        \* the launches the host may make

ASSUME HopsAssumption == Hops \in Nat \ {0}
ASSUME DepthAssumption ==
    /\ TaskDepth \in Nat \ {0, 1}
    /\ DataDepth \in Nat \ {0, 1}
    /\ StatusDepth \in Nat \ {0, 1}

(***************************************************************************)
(* The host's arguments are unsigned and the core mask has a bit per core. *)
(* A projection has at most CC8_MAX_OUTPUT_WAVES (86) active waves, and a  *)
(* task loop at least 256 tasks.                                           *)
(***************************************************************************)
ASSUME RequestAssumption ==
    \A r \in Requests :
        /\ r.op \in STRING /\ r.layerOk \in BOOLEAN
        /\ r.tokens \in Nat /\ r.position \in Nat
        /\ r.waves \in 0..MaxTasks /\ r.mask \subseteq Cores

VARIABLES
    phase,      \* what the host waits for: "idle", "kernels" or "sink"
    req,        \* the arguments of the current launch
    ctl,        \* the controller: block number and what is left of its sides
    proc,       \* the forwarders and cores
    chan,       \* the FIFOs
    status,     \* the status FIFO
    work        \* what the cores and the collector really did this launch

vars == <<phase, req, ctl, proc, chan, status, work>>

InProcs == {"in"} \X Cores \X (1..Hops)
OutProcs == {"out"} \X Cores \X (1..Hops)
CoreProcs == {"cu"} \X Cores \X {Hops}
Procs == InProcs \cup OutProcs \cup CoreProcs

Channels == ({"task", "mm", "v0", "v1", "out"} \X Cores \X (0..Hops))
              \cup ({"rtask"} \X Cores \X (1..Hops))

DepthOf(ch) == IF ch[1] \in {"task", "rtask"} THEN TaskDepth ELSE DataDepth

(***************************************************************************)
(* Where a process finds its tasks, and where a micro-operation of it      *)
(* takes from and puts to.                                                 *)
(***************************************************************************)
TaskSource(p) ==
    IF p[1] = "out" THEN <<"rtask", p[2], p[3]>>
    ELSE <<"task", p[2], IF p[1] = "in" THEN p[3] - 1 ELSE p[3]>>

Source(p, op) == <<op.kind, p[2], IF p[1] = "in" THEN p[3] - 1 ELSE p[3]>>
Target(p, op) == <<op.kind, p[2], IF p[1] = "out" THEN p[3] - 1 ELSE p[3]>>

Program(p, t) ==
    CASE p[1] = "in" -> <<Put("task", t), Put("rtask", t)>> \o InputPlan(t)
      [] p[1] = "out" -> ResultPlan(t)
      [] p[1] = "cu" -> ComputePlan(t)

Takes(op) == op.do \in {"take", "move"}
Puts(op) == op.do \in {"put", "move"}

CanTake(ch) == chan[ch] # << >>
CanPut(ch) == Len(chan[ch]) < DepthOf(ch)

-----------------------------------------------------------------------------
Stopped == [todo |-> << >>, on |-> FALSE, fetched |-> 0]
Started == [todo |-> << >>, on |-> TRUE, fetched |-> 0]
Finished(p) == ~proc[p].on /\ proc[p].todo = << >>

NoWork == [mm |-> 0, vec |-> 0, packets |-> 0]
IdleController == [next |-> 0, emit |-> << >>, collect |-> << >>]

ScriptOf == [r \in Requests |-> Script(r)]

Init ==
    /\ phase = "idle"
    /\ req \in Requests
    /\ ctl = IdleController
    /\ proc = [p \in Procs |-> Stopped]
    /\ chan = [ch \in Channels |-> << >>]
    /\ status = << >>
    /\ work = NoWork

(***************************************************************************)
(* execute_bound_resident_task: set the arguments and start the controller *)
(* and both compute kernels.                                               *)
(***************************************************************************)
Launch(r) ==
    /\ phase = "idle"
    /\ phase' = "kernels"
    /\ req' = r
    /\ ctl' = [IdleController EXCEPT !.next = 1]
    /\ proc' = [p \in Procs |-> Started]
    /\ work' = NoWork
    /\ UNCHANGED <<chan, status>>

(***************************************************************************)
(* The controller: enter the next block when both sides of the last one    *)
(* have finished; send or receive one word; at the end, send the status.   *)
(***************************************************************************)
BlockDone == ctl.emit = << >> /\ ctl.collect = << >>
ControllerRunning == ctl.next # 0

EnterBlock ==
    /\ ControllerRunning /\ BlockDone
    /\ ctl.next <= Len(ScriptOf[req])
    /\ LET b == ScriptOf[req][ctl.next]
       IN  ctl' = [next |-> ctl.next + 1, emit |-> b.emit, collect |-> b.collect]
    /\ UNCHANGED <<phase, req, proc, chan, status, work>>

Emit ==
    /\ ctl.emit # << >>
    /\ LET op == Head(ctl.emit)
           ch == <<op.kind, op.core, 0>>
       IN  /\ CanPut(ch)
           /\ chan' = [chan EXCEPT ![ch] = Append(@, op.word)]
    /\ ctl' = [ctl EXCEPT !.emit = Tail(@)]
    /\ UNCHANGED <<phase, req, proc, status, work>>

Collect ==
    /\ ctl.collect # << >>
    /\ LET op == Head(ctl.collect)
           ch == <<op.kind, op.core, 0>>
       IN  /\ CanTake(ch)
           /\ chan' = [chan EXCEPT ![ch] = Tail(@)]
    /\ ctl' = [ctl EXCEPT !.collect = Tail(@)]
    /\ work' = [work EXCEPT !.packets = @ + 1]
    /\ UNCHANGED <<phase, req, proc, status>>

StatusPacket(r) == [op |-> r.op, code |-> StatusCode(r), count |-> StatusCounters(r)]

SendStatus ==
    /\ ControllerRunning /\ BlockDone
    /\ ctl.next > Len(ScriptOf[req])
    /\ Len(status) < StatusDepth
    /\ status' = Append(status, StatusPacket(req))
    /\ ctl' = IdleController
    /\ UNCHANGED <<phase, req, proc, chan, work>>

(***************************************************************************)
(* A forwarder or core reads its next task; it leaves its loop after a     *)
(* last or STOP task, or after MaxTasks tasks.                             *)
(***************************************************************************)
Fetch(p) ==
    /\ proc[p].on /\ proc[p].todo = << >>
    /\ CanTake(TaskSource(p))
    /\ LET t == Head(chan[TaskSource(p)])
       IN  /\ proc' = [proc EXCEPT ![p] =
                [todo |-> Program(p, t),
                 on |-> ~EndsSession(t) /\ proc[p].fetched + 1 < MaxTasks,
                 fetched |-> proc[p].fetched + 1]]
           /\ work' = IF p \notin CoreProcs \/ t.mode = "STOP" THEN work
                      ELSE IF UsesMm(t)
                      THEN [work EXCEPT !.mm = @ + Repeats(t)]
                      ELSE [work EXCEPT !.vec = @ + 1]
    /\ chan' = [chan EXCEPT ![TaskSource(p)] = Tail(@)]
    /\ UNCHANGED <<phase, req, ctl, status>>

Step(p) ==
    /\ proc[p].todo # << >>
    /\ LET op == Head(proc[p].todo)
           src == Source(p, op)
           dst == Target(p, op)
       IN  /\ Takes(op) => CanTake(src)
           /\ Puts(op) => CanPut(dst)
           /\ chan' = CASE op.do = "take" -> [chan EXCEPT ![src] = Tail(@)]
                        [] op.do = "put" ->
                             [chan EXCEPT ![dst] = Append(@, op.word)]
                        [] op.do = "move" ->
                             [chan EXCEPT ![src] = Tail(@),
                                          ![dst] = Append(@, Head(chan[src]))]
    /\ proc' = [proc EXCEPT ![p].todo = Tail(@)]
    /\ UNCHANGED <<phase, req, ctl, status, work>>

(***************************************************************************)
(* The host waits for the controller and for both compute kernels, and     *)
(* only then enqueues the status sink, which reads one packet.             *)
(***************************************************************************)
StartSink ==
    /\ phase = "kernels"
    /\ ~ControllerRunning
    /\ \A p \in Procs : Finished(p)
    /\ phase' = "sink"
    /\ UNCHANGED <<req, ctl, proc, chan, status, work>>

ReadStatus ==
    /\ phase = "sink"
    /\ status # << >>
    /\ status' = Tail(status)
    /\ phase' = "idle"
    /\ UNCHANGED <<req, ctl, proc, chan, work>>

Next ==
    \/ \E r \in Requests : Launch(r)
    \/ EnterBlock
    \/ Emit
    \/ Collect
    \/ SendStatus
    \/ \E p \in Procs : Fetch(p)
    \/ \E p \in Procs : Step(p)
    \/ StartSink
    \/ ReadStatus

(***************************************************************************)
(* The clock keeps running: when some process can advance, one does.       *)
(***************************************************************************)
Spec == Init /\ [][Next]_vars /\ WF_vars(Next)

-----------------------------------------------------------------------------
(***************************************************************************)
(* A forwarder or core never takes a word of another task, wave or index   *)
(* than the one its program is at: the emitting loops of the controller,   *)
(* the packers and the cores agree on the order of every operand stream.   *)
(***************************************************************************)
OperandsInOrder ==
    \A p \in Procs :
        LET todo == proc[p].todo
        IN  todo # << >> /\ Takes(Head(todo)) /\ CanTake(Source(p, Head(todo)))
              => Head(chan[Source(p, Head(todo))]) = Head(todo).word

(***************************************************************************)
(* The controller never reads, in one exchange, a result of another: no    *)
(* result is left behind by the exchange that asked for it.                *)
(***************************************************************************)
ResultsToTheirExchange ==
    ctl.collect # << >> =>
        LET op == Head(ctl.collect)
        IN  chan[<<"out", op.core, 0>>] # << >>
              => Head(chan[<<"out", op.core, 0>>]) = op.word

(***************************************************************************)
(* When the kernels of a launch have returned, no FIFO holds a task or a   *)
(* word that the next launch would read, and there is exactly one status.  *)
(***************************************************************************)
DrainedBetweenLaunches ==
    phase # "kernels" =>
        /\ \A ch \in Channels : chan[ch] = << >>
        /\ Len(status) = IF phase = "sink" THEN 1 ELSE 0

(***************************************************************************)
(* The status packet counts what happened: MM waves and vector tasks the   *)
(* two cores ran and packets the controller collected.                     *)
(***************************************************************************)
StatusCountsWork == phase = "sink" => Head(status).count = work

(***************************************************************************)
(* Every launch completes: no set of full and empty FIFOs blocks the       *)
(* network, and every kernel is told to stop.                              *)
(***************************************************************************)
LaunchCompletes == phase = "kernels" ~> phase = "idle"
=============================================================================
