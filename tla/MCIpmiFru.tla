------------------------------ MODULE MCIpmiFru ------------------------------
(* Two FRU devices; areas of 0, 48 and 272 bytes (17 blocks, so the read  *)
(* crosses the carry into idata[2] and survives up to 16 failures); board *)
(* areas starting at byte 8 and at byte 256.                               *)
EXTENDS IpmiFru

MCAreaResponses ==
  { [ls |-> 0, ms |-> 0, access |-> 0],
    [ls |-> 48, ms |-> 0, access |-> 0],
    [ls |-> 16, ms |-> 1, access |-> 0] }

MCBoardStarts == {1, 32}
=============================================================================
