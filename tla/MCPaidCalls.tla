---------------------------- MODULE MCPaidCalls ----------------------------
(* Small instances of PaidCalls: two goroutines, one nonce, two requests.   *)
EXTENDS PaidCalls, TLC

CONSTANTS c1, c2, n1, r1, r2
=============================================================================
