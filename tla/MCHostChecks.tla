---------------------------- MODULE MCHostChecks ----------------------------
(* Every mode of the host that checks something, on sequences of at most   *)
(* three positions, blocks of two tokens and two layers; arguments just    *)
(* outside their range are among the command lines.                        *)
EXTENDS HostChecks

Plain(modes) == [mode : modes]

MCRuns ==
    Plain({"verify-random", "verify-decode-smoke", "profile-ffn-sublayer", "verify-nop",
           "verify-nop-ctrl-only", "verify-nop-ctrl-enqueue-only"})
    \cup [mode : {"verify-resident-layer", "verify-composed-layer"}, position : 0..1]
    \cup [mode : {"verify-composed-stack"}, position : 0..1, layers : 1..2]
    \cup [mode : {"verify-composed-prefill-attention"}, tokens : 0..3]
    \cup [mode : {"verify-composed-prefill-block"}, tokens : 1..2]
    \cup [mode : {"verify-composed-prefill-stack"}, tokens : 1..2, layers : 1..2]
    \cup [mode : {"verify-composed-prefill-checkpoints"}, tokens : 1..2, layers : 1..2,
          goOn : BOOLEAN]
    \cup [mode : {"verify-composed-prefill-sequence"}, len : 1..3, tokens : 1..2, layers : 1..2]
    \cup [mode : {"profile-attention", "profile-attention-block",
                  "profile-attention-sublayer"}, position : 0..3]
    \cup [mode : {"profile-attention-pd"}, len : 1..3, start : 0..2, prefill : BOOLEAN,
          decode : BOOLEAN]
    \cup [mode : {"profile-prefill-block", "diagnose-prefill-softmax"}, len : 1..3,
          start : 0..2]
    \cup [mode : {"profile-prefill-vector", "diagnose-q214-payload-golden"}, tokens : 1..2]
    \cup [mode : {"profile-mm-wave"}, first : 0..3, count : 0..4, mask : 1..3,
          debug : {"0", "1"}, single : BOOLEAN]
    \cup [mode : {"generate"}, len : 1..2, tokens : 1..2, new : 1..2, layers : {1}]

MCFaults ==
    {"none", "Q", "K", "V", "O", "GATE", "UP", "DOWN", "NORM", "SILU", "ADD", "ROPE",
     "SCORE", "VALUE", "FINAL", "STORE", "WEIGHTS", "COUNTS", "STATUS"}
=============================================================================
