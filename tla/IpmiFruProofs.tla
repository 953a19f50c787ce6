---------------------------- MODULE IpmiFruProofs ----------------------------
(***************************************************************************)
(* Proofs about the FRU read loop of orcm_sensor_get_fru_data (IpmiFru).   *)
(*                                                                         *)
(* ReadAddressing is inductive once the types of the loop variables are   *)
(* known and idata[1] is known to be a multiple of 16: the only step that *)
(* changes the offset, ReadBlock, appends the block at                    *)
(* idata[2] * 256 + idata[1] and moves that offset on by 16 with the      *)
(* carry at 240, which is +16 modulo 65536.                                *)
(***************************************************************************)
EXTENDS IpmiFru, SequenceTheorems, TLAPS

\* The values idata[1] takes: it starts at 0 and moves in steps of 0x10.
LsbValues == {16 * q : q \in 0..15}

AddrInv ==
  /\ i \in Nat
  /\ lsb \in LsbValues
  /\ msb \in 0..255
  /\ rdataOffset \in Int
  /\ blocks \in Seq(Int)
  /\ ReadAddressing

LEMMA InitAddrInv == Init => AddrInv
<1> SUFFICES ASSUME Init PROVE AddrInv
  OBVIOUS
<1>1. lsb = 16 * 0 /\ 0 \in 0..15
  BY SMT DEF Init
<1>2. lsb \in LsbValues
  BY <1>1, Zenon DEF LsbValues
<1>. QED  BY <1>2 DEF Init, AddrInv, ReadAddressing

LEMMA NextAddrInv == AddrInv /\ [FruNext]_fvars => AddrInv'
<1> SUFFICES ASSUME AddrInv, [FruNext]_fvars PROVE AddrInv'
  OBVIOUS
<1>1. CASE ReadBlock
  <2>0. /\ lsb \in LsbValues /\ msb \in 0..255 /\ i \in Nat
        /\ 256 * msb + lsb = (16 * i) % 65536
        /\ blocks \in Seq(Int) /\ Len(blocks) = i
    BY DEF AddrInv, ReadAddressing
  <2>q. PICK q \in 0..15 : lsb = 16 * q
    BY <2>0 DEF LsbValues
  <2>t. /\ lsb \in 0..255 /\ msb \in 0..255 /\ i \in Nat
        /\ 256 * msb + lsb = (16 * i) % 65536
    BY <2>0, <2>q, SMT
  <2>1. /\ NextLsb(lsb) \in LsbValues
        /\ NextMsb(lsb, msb) \in 0..255
        /\ 256 * NextMsb(lsb, msb) + NextLsb(lsb) = (16 * (i + 1)) % 65536
    \* The carry at 240 makes the step +16 modulo 65536.
    <3>1. CASE lsb = 240
      <4>1. 16 * i = 65536 * ((16 * i) \div 65536) + 256 * msb + 240
        BY <2>t, <3>1, SMT
      <4>2. NextLsb(lsb) = 16 * 0 /\ 0 \in 0..15
        BY <3>1, SMT DEF NextLsb
      <4>3. NextLsb(lsb) \in LsbValues
        BY <4>2, Zenon DEF LsbValues
      <4>4. CASE msb < 255
        <5>1. (16 * (i + 1)) % 65536 = 256 * (msb + 1)
          BY <2>t, <4>1, <4>4, SMT
        <5>2. NextMsb(lsb, msb) \in 0..255 /\ 256 * NextMsb(lsb, msb) + NextLsb(lsb) = (16 * (i + 1)) % 65536
          BY <2>t, <3>1, <4>4, <5>1, SMT DEF NextLsb, NextMsb
        <5>. QED  BY <4>3, <5>2
      <4>5. CASE msb = 255
        <5>1. (16 * (i + 1)) % 65536 = 0
          BY <2>t, <4>1, <4>5, SMT
        <5>2. NextMsb(lsb, msb) \in 0..255 /\ 256 * NextMsb(lsb, msb) + NextLsb(lsb) = (16 * (i + 1)) % 65536
          BY <2>t, <3>1, <4>5, <5>1, SMT DEF NextLsb, NextMsb
        <5>. QED  BY <4>3, <5>2
      <4>. QED  BY <2>t, <4>4, <4>5 DEF NextLsb, NextMsb
    <3>2. CASE lsb # 240
      <4>1. q <= 14
        BY <2>q, <3>2, SMT
      <4>2. NextLsb(lsb) = 16 * (q + 1) /\ q + 1 \in 0..15
        BY <2>q, <3>2, <4>1, SMT DEF NextLsb
      <4>3. NextLsb(lsb) \in LsbValues
        BY <4>2, Zenon DEF LsbValues
      <4>4. NextMsb(lsb, msb) \in 0..255 /\ 256 * NextMsb(lsb, msb) + NextLsb(lsb) = (16 * (i + 1)) % 65536
        BY <2>t, <2>q, <3>2, <4>1, SMT DEF NextLsb, NextMsb
      <4>. QED  BY <4>3, <4>4
    <3>. QED  BY <3>1, <3>2 DEF NextLsb, NextMsb
  <2>2. \A k \in 1..i : blocks[k] = (16 * (k - 1)) % 65536
    BY DEF AddrInv, ReadAddressing
  <2>3. /\ Append(blocks, 256 * msb + lsb) \in Seq(Int) /\ Len(Append(blocks, 256 * msb + lsb)) = i + 1
        /\ \A k \in 1..i : Append(blocks, 256 * msb + lsb)[k] = blocks[k]
        /\ Append(blocks, 256 * msb + lsb)[i + 1] = 256 * msb + lsb
    BY <2>0, <2>q, AppendProperties
  <2>4. ASSUME NEW k \in 1..(i + 1)
        PROVE  Append(blocks, 256 * msb + lsb)[k] = (16 * (k - 1)) % 65536
    <3>1. CASE k \in 1..i
      BY <2>2, <2>3, <3>1
    <3>2. CASE k = i + 1
      BY <2>0, <2>3, <3>2
    <3>. QED  BY <2>0, <3>1, <3>2
  <2>5. rdataOffset' = 16 * (i + 1) /\ i' = i + 1
    BY <1>1 DEF ReadBlock, AddrInv, ReadAddressing
  <2>6. blocks' = Append(blocks, 256 * msb + lsb) /\ lsb' = NextLsb(lsb) /\ msb' = NextMsb(lsb, msb)
    BY <1>1 DEF ReadBlock
  <2>7. /\ lsb' \in LsbValues /\ msb' \in 0..255
        /\ 256 * msb' + lsb' = (16 * i') % 65536
    BY <2>1, <2>5, <2>6
  <2>8. /\ blocks' \in Seq(Int) /\ Len(blocks') = i'
        /\ \A k \in 1..i' : blocks'[k] = (16 * (k - 1)) % 65536
    BY <2>3, <2>4, <2>5, <2>6
  <2>9. i' \in Nat /\ rdataOffset' \in Int /\ rdataOffset' = 16 * i'
    BY <2>0, <2>5, SMT
  <2>. QED  BY <2>7, <2>8, <2>9 DEF AddrInv, ReadAddressing
<1>2. CASE FruInventory
  BY <1>2 DEF FruInventory, AddrInv, ReadAddressing
<1>3. CASE ReadFail
  BY <1>3 DEF ReadFail, AddrInv, ReadAddressing
<1>4. CASE ReadDone
  BY <1>4 DEF ReadDone, AddrInv, ReadAddressing
<1>5. CASE ParseBoard
  BY <1>5 DEF ParseBoard, AddrInv, ReadAddressing
<1>6. CASE UNCHANGED fvars
  BY <1>6 DEF fvars, AddrInv, ReadAddressing
<1>. QED  BY <1>1, <1>2, <1>3, <1>4, <1>5, <1>6 DEF FruNext

(* For every FRU size, device count and sequence of failed reads, the      *)
(* k-th block orcm_sensor_get_fru_data copies into rdata was read from    *)
(* device offset 16 * (k - 1), modulo the 16 bits of idata[1] and idata[2]. *)
THEOREM ReadAddressingThm == FruSpec => []ReadAddressing
<1>1. AddrInv => ReadAddressing  BY DEF AddrInv
<1>. QED  BY InitAddrInv, NextAddrInv, <1>1, PTL DEF FruSpec
=============================================================================
