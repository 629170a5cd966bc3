-------------------------- MODULE MCQuantizedStreams --------------------------
(* Small launches of QuantizedStreams on two units: one-wide hidden rows,  *)
(* FFN rows of three elements in packets of two, so Up has a full and a     *)
(* partial wave and a split row a full and a partial block.                *)
EXTENDS QuantizedStreams

Vector(mode, rows) == [kind |-> "vector", mode |-> mode, rows |-> rows]
Project(n, rows, silu, ahead) ==
    [kind |-> "project", n |-> n, rows |-> rows, silu |-> silu, ahead |-> ahead]
Exchange(wave, pv) ==
    [kind |-> "exchange", decode |-> FALSE, wave |-> wave, pv |-> pv, length |-> 2]
Pipeline(decode, length) ==
    [kind |-> "pipeline", decode |-> decode, length |-> length]

Launch(async, overlap, regions) ==
    [async |-> async, overlap |-> overlap, regions |-> regions]

(* The SiLU rides on Up, then the two FFN results are multiplied; Down runs *)
(* beside the norm of a block of three rows; attention over three heads    *)
(* takes two waves, the second on one unit, in the pipeline and serially.  *)
AllLaunches ==
    { Launch(TRUE, TRUE, << Project(5, 1, TRUE, 0), Vector("MUL", 1) >>),
      Launch(TRUE, FALSE, << Project(6, 2, FALSE, 3), Vector("RESIDUAL_ADD", 3) >>),
      Launch(FALSE, FALSE, << Vector("RMSNORM", 3), Project(6, 2, FALSE, 3),
                              Project(4, 2, FALSE, 0), Vector("SILU_MUL", 1) >>),
      Launch(TRUE, FALSE, << Pipeline(FALSE, 2), Pipeline(TRUE, 1) >>),
      Launch(FALSE, FALSE, << Exchange(0, FALSE), Exchange(0, TRUE),
                              Exchange(1, FALSE), Exchange(1, TRUE) >>) }
=============================================================================
