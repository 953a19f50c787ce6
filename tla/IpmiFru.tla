------------------------------- MODULE IpmiFru -------------------------------
(***************************************************************************)
(* Reading the baseboard FRU at init() of the IPMI sensor                  *)
(* (src/orcm/mca/sensor/ipmi/sensor_ipmi.c): orcm_sensor_get_fru_inv asks  *)
(* every FRU device for the size of its inventory area and calls           *)
(* orcm_sensor_get_fru_data on the largest, which reads the area 16 bytes  *)
(* at a time into rdata, retrying failed reads, and then parses the board *)
(* info area whose start the FRU header gives in byte 3, in units of 8.    *)
(*                                                                         *)
(* FRU contents are abstracted to positions: the block read from device    *)
(* offset o holds the FRU bytes o..o+15, so rdata position p holds FRU     *)
(* byte blocks[p \div 16 + 1] + p % 16.  Only the header byte 3 has a      *)
(* value, the board area start fruByte3.                                   *)
(***************************************************************************)
EXTENDS Integers, Sequences

CONSTANTS
  MaxFruDevices,  \* MAX_FRU_DEVICES (its header is not in the tree)
  AreaResponses,  \* GET_FRU_INV_AREA responses: size LS and MS byte, access type byte
  BoardStarts     \* values the FRU header byte 3 (board area offset / 8) may have

\* The constants a proof needs; there is no ASSUME, TLC evaluates nothing.
FruAssumption ==
  /\ MaxFruDevices \in Nat \ {0}
  /\ AreaResponses \subseteq [ls : 0..255, ms : 0..255, access : 0..255]
  /\ [ls |-> 0, ms |-> 0, access |-> 0] \in AreaResponses
  /\ BoardStarts \subseteq 0..255

FruDevices == 0..(MaxFruDevices - 1)

\* The largest number of read failures orcm_sensor_get_fru_data survives.
FruRetries == 15

VARIABLES
  phase,        \* "inv", "read" (the block loop), "parse", "done"
  maxId,        \* max_id: the device read
  area,         \* max_fru_area, the fru_area passed to get_fru_data
  i,            \* the loop index: blocks read so far
  ffail,        \* ffail_count
  lsb, msb,     \* idata[1] and idata[2], the offset of the next read
  rdataOffset,  \* rdata_offset
  blocks,       \* the device offset each block of rdata was read from
  fruByte3,     \* the board area start in the FRU header (device content)
  fruOffset,    \* the unsigned char fru_offset
  result        \* "none" while running, then ORCM_SUCCESS ("ok") or ORCM_ERROR

fvars == <<phase, maxId, area, i, ffail, lsb, msb, rdataOffset, blocks,
           fruByte3, fruOffset, result>>

TypeOK ==
  /\ phase \in {"inv", "read", "parse", "done"}
  /\ maxId \in FruDevices
  /\ area \in Nat
  /\ i \in Nat
  /\ ffail \in 0..(FruRetries + 1)
  /\ lsb \in 0..255 /\ msb \in 0..255
  /\ rdataOffset \in Nat
  /\ blocks \in Seq(Nat)
  /\ fruByte3 \in BoardStarts
  /\ fruOffset \in 0..255
  /\ result \in {"none", "ok", "error"}

Init ==
  /\ phase = "inv"
  /\ maxId = 0
  /\ area = 0
  /\ i = 0
  /\ ffail = 0
  /\ lsb = 0 /\ msb = 0
  /\ rdataOffset = 0
  /\ blocks = <<>>
  /\ fruByte3 \in BoardStarts
  /\ fruOffset = 0
  /\ result = "none"

-----------------------------------------------------------------------------
(* fru_area = rdata[id][0] | rdata[id][1] << 8 | rdata[id][2] << 16 |      *)
(* rdata[id][3] << 24.  The response has three bytes, so byte 3 stays 0   *)
(* from the memset; byte 2 is the access type.  A failed command leaves    *)
(* the zeroed buffer, the response [0, 0, 0].                              *)
FruAreaOf(r) == r.ls + 256 * r.ms + 65536 * r.access

(* The scan of lines 340-352: max_fru_area starts at 0 and max_id at 0,   *)
(* and a device replaces them only with a strictly larger area.           *)
LargestArea(a) ==
  LET scan[k \in Nat] ==
        IF k = 0 THEN [m |-> 0, id |-> 0]
        ELSE IF a[k - 1] > scan[k - 1].m THEN [m |-> a[k - 1], id |-> k - 1]
             ELSE scan[k - 1]
  IN  scan[MaxFruDevices]

(* orcm_sensor_get_fru_inv, then the entry of orcm_sensor_get_fru_data:   *)
(* malloc(fru_area) may fail; otherwise idata is the offset 0 of max_id.  *)
FruInventory ==
  /\ phase = "inv"
  /\ \E resp \in [FruDevices -> AreaResponses], mallocOk \in BOOLEAN :
       LET a == [d \in FruDevices |-> FruAreaOf(resp[d])]
       IN  /\ area' = LargestArea(a).m
           /\ maxId' = LargestArea(a).id
           /\ IF mallocOk
                THEN phase' = "read" /\ UNCHANGED result
                ELSE phase' = "done" /\ result' = "error"
  /\ UNCHANGED <<i, ffail, lsb, msb, rdataOffset, blocks, fruByte3, fruOffset>>

\* The LSByte of the offset after a block: back to 0 once it was 240.
NextLsb(l) == IF l = 240 THEN 0 ELSE l + 16

NextMsb(l, m) == IF l = 240 THEN (m + 1) % 256 ELSE m

(* A READ_FRU_DATA of 16 bytes at offset idata[2] * 256 + idata[1]         *)
(* succeeds: the block goes to rdata at rdata_offset and the offset moves *)
(* on by 16, carrying into the MSByte.                                     *)
ReadBlock ==
  /\ phase = "read"
  /\ i < area \div 16
  /\ blocks' = Append(blocks, 256 * msb + lsb)
  /\ rdataOffset' = rdataOffset + 16
  /\ lsb' = NextLsb(lsb)
  /\ msb' = NextMsb(lsb, msb)
  /\ i' = i + 1
  /\ UNCHANGED <<phase, maxId, area, ffail, fruByte3, fruOffset, result>>

(* The read fails: it is retried (i--; continue) until ffail_count has    *)
(* passed 15, when the function gives up with ORCM_ERROR.                  *)
ReadFail ==
  /\ phase = "read"
  /\ i < area \div 16
  /\ IF ffail > FruRetries
       THEN phase' = "done" /\ result' = "error" /\ UNCHANGED ffail
       ELSE ffail' = ffail + 1 /\ UNCHANGED <<phase, result>>
  /\ UNCHANGED <<maxId, area, i, lsb, msb, rdataOffset, blocks, fruByte3, fruOffset>>

(* The loop ends after fru_area / 16 blocks; a remainder is not read.      *)
ReadDone ==
  /\ phase = "read"
  /\ i >= area \div 16
  /\ phase' = "parse"
  /\ UNCHANGED <<maxId, area, i, ffail, lsb, msb, rdataOffset, blocks, fruByte3,
                 fruOffset, result>>

(* rdata[3] is the FRU header byte 3 when the first block was read.  If   *)
(* none was (fru_area < 16), it is the 0 of memset(rdata, 0, sizeof(rdata)) *)
(* at line 390, which clears the size of a pointer, at least 4 bytes.    *)
RdataByte3 == IF blocks # <<>> THEN fruByte3 ELSE 0

(* The parse: fru_offset = rdata[3] * 8 in an unsigned char, then the     *)
(* board fields are read from rdata at fru_offset on.  localtime and the  *)
(* mallocs of the fields may fail, with ORCM_ERROR.                       *)
ParseBoard ==
  /\ phase = "parse"
  /\ fruOffset' = (RdataByte3 * 8) % 256
  /\ result' \in {"ok", "error"}
  /\ phase' = "done"
  /\ UNCHANGED <<maxId, area, i, ffail, lsb, msb, rdataOffset, blocks, fruByte3>>

FruNext == FruInventory \/ ReadBlock \/ ReadFail \/ ReadDone \/ ParseBoard

FruSpec == Init /\ [][FruNext]_fvars

-----------------------------------------------------------------------------
\* The FRU byte that rdata position p holds, or -1 beyond what was read.
FruPosition(p) ==
  IF p \div 16 < Len(blocks) THEN blocks[(p \div 16) + 1] + (p % 16) ELSE -1

(* The read loop's addressing (lines 388-426): the k-th block of rdata    *)
(* comes from device offset 16 * (k - 1), modulo the 16 bits of idata.   *)
ReadAddressing ==
  /\ rdataOffset = 16 * i
  /\ (256 * msb + lsb) = (16 * i) % 65536
  /\ Len(blocks) = i
  /\ \A k \in 1..i : blocks[k] = (16 * (k - 1)) % 65536

(* The FRU specification and the comment at line 459: the board info area *)
(* starts at byte 8 * header[3].  A parse that succeeded read the board   *)
(* fields from there, within the bytes the loop read.                      *)
ParsedAtBoardArea ==
  (phase = "done" /\ result = "ok") => FruPosition(fruOffset) = 8 * fruByte3
=============================================================================
