------------------------------- MODULE NkTask -------------------------------
(***************************************************************************)
(* The tasks the controller sends to a compute core, and the micro-program *)
(* each process of the free-running kernels runs for one task: which words *)
(* it takes from which stream, in which order, and which words it puts.    *)
(* A word is <<exchange, wave, index>>, the identity its packet carries    *)
(* (block_id, elem_base, token_lane); the payload is not modelled.  One    *)
(* "mm" word stands for an activation beat and the four weight beats that  *)
(* every process reads and writes together with it.                        *)
(***************************************************************************)
EXTENDS Naturals, Sequences

CONSTANTS
    Blocks,         \* vector packets per token row: ceildiv(elem_count, 16)
    Packets,        \* result packets per MM wave: PACKETS_PER_BLOCK (32)
    PairLatency     \* inputs a binary vector pipeline takes before a result

ASSUME BlocksAssumption == Blocks \in Nat \ {0}
ASSUME PacketsAssumption == Packets \in Nat \ {0}
ASSUME PairLatencyAssumption == PairLatency \in Nat

MmModes == {"MM"}
PairModes == {"SILU_MUL", "RESIDUAL_ADD"}
RowModes == {"RMSNORM", "SOFTMAX"}

(***************************************************************************)
(* Task records.  k, rows and reps are k_count, token_count, repeat_count; *)
(* wave is block_id; exch tells the exchanges of one launch apart.         *)
(***************************************************************************)
MmTask(exch, wave, k, reps, last) ==
    [mode |-> "MM", k |-> k, rows |-> 0, reps |-> reps, last |-> last,
     exch |-> exch, wave |-> wave]

VectorTask(exch, mode, rows, last) ==
    [mode |-> mode, k |-> 0, rows |-> rows, reps |-> 1, last |-> last,
     exch |-> exch, wave |-> 0]

StopTask ==
    [mode |-> "STOP", k |-> 0, rows |-> 0, reps |-> 1, last |-> TRUE,
     exch |-> 0, wave |-> 0]

UsesMm(t) == t.mode \in MmModes
Repeats(t) == IF t.reps = 0 THEN 1 ELSE t.reps
EndsSession(t) == t.last \/ t.mode = "STOP"

Word(t, wave, idx) == <<t.exch, wave, idx>>

(* run_cu8_mm_task: a repeat advances block_id (and elem_base) by its stride. *)
WaveNotAdvanced(t, r) == t.wave                                   \* fault
WaveOf(t, r) == t.wave + r - 1

(***************************************************************************)
(* Micro-operations: take a word from a stream, put one on a stream, or    *)
(* move one (an II=1 loop body that reads and writes).  want is the word   *)
(* the process believes it is taking, put the word it produces.            *)
(***************************************************************************)
Take(kind, word) == [do |-> "take", kind |-> kind, word |-> word]
Put(kind, word) == [do |-> "put", kind |-> kind, word |-> word]
Move(kind, word) == [do |-> "move", kind |-> kind, word |-> word]

(* f[1] .. f[n], and the loop bodies Body(1) .. Body(n), one after the other. *)
Cat(n, f) ==
    LET loop[i \in 0..n] == IF i = 0 THEN << >> ELSE loop[i - 1] \o f[i]
    IN  loop[n]

Times(n, Body(_)) == Cat(n, [i \in 1..n |-> Body(i)])

(***************************************************************************)
(* The stream order of one task, shared by pack_cc8_nk_core_inputs and     *)
(* unpack_cu8_nk_inputs: k beats per repeat; for RMSNORM the shared weight *)
(* row before any activation row; operands in pairs for binary modes.      *)
(***************************************************************************)
InputPlan(t) ==
    LET move(kind, n) == Times(n, LAMBDA i : <<Move(kind, Word(t, 0, i))>>)
    IN  CASE UsesMm(t) -> Times(Repeats(t), LAMBDA r : Times(t.k,
                 LAMBDA i : <<Move("mm", Word(t, WaveOf(t, r), i))>>))
          [] t.mode = "RMSNORM" ->
                 move("v1", Blocks) \o move("v0", t.rows * Blocks)
          [] t.mode \in PairModes -> Times(t.rows * Blocks, LAMBDA i :
                 <<Move("v0", Word(t, 0, i)), Move("v1", Word(t, 0, i))>>)
          [] t.mode = "SOFTMAX" -> move("v0", t.rows * Blocks)
          [] OTHER -> << >>

(***************************************************************************)
(* The results of one task, forwarded by pack_cu8_nk_results and           *)
(* unpack_cc8_nk_core_results: repeats x packet_count packets, none for    *)
(* STOP.                                                                   *)
(***************************************************************************)
ResultsOfOneRepeat(t) ==                                          \* fault
    IF t.mode = "STOP" THEN << >>
    ELSE Times(IF UsesMm(t) THEN Packets ELSE t.rows * Blocks,
               LAMBDA i : <<Move("out", Word(t, t.wave, i))>>)

ResultPlan(t) ==
    IF t.mode = "STOP" THEN << >>
    ELSE Times(Repeats(t), LAMBDA r :
             Times(IF UsesMm(t) THEN Packets ELSE t.rows * Blocks,
                   LAMBDA i : <<Move("out", Word(t, WaveOf(t, r), i))>>))

(***************************************************************************)
(* compute_core_8x64_unified on one task.  An MM wave reads all k beats,   *)
(* then emits its packets; RMSNORM caches the weight row, then reads and   *)
(* writes row by row, as SOFTMAX does; a binary mode is a pipeline whose   *)
(* result i needs the operands up to i + PairLatency (or the last ones).   *)
(***************************************************************************)
ComputePlan(t) ==
    LET takes(kind, lo, n) ==
            Times(n, LAMBDA i : <<Take(kind, Word(t, 0, lo + i))>>)
        puts(lo, n) == Times(n, LAMBDA i : <<Put("out", Word(t, 0, lo + i))>>)
        rows == Times(t.rows, LAMBDA r :
                    takes("v0", (r - 1) * Blocks, Blocks)
                      \o puts((r - 1) * Blocks, Blocks))
        pairs == t.rows * Blocks
    IN  CASE UsesMm(t) -> Times(Repeats(t), LAMBDA r :
                 LET w == WaveOf(t, r)
                 IN  Times(t.k, LAMBDA i : <<Take("mm", Word(t, w, i))>>)
                       \o Times(Packets, LAMBDA i : <<Put("out", Word(t, w, i))>>))
          [] t.mode = "RMSNORM" -> takes("v1", 0, Blocks) \o rows
          [] t.mode = "SOFTMAX" -> rows
          [] t.mode \in PairModes -> Times(pairs + PairLatency, LAMBDA i :
                 (IF i <= pairs
                  THEN takes("v0", i - 1, 1) \o takes("v1", i - 1, 1)
                  ELSE << >>)
                   \o (IF i > PairLatency THEN puts(i - 1 - PairLatency, 1)
                       ELSE << >>))
          [] OTHER -> << >>
=============================================================================
