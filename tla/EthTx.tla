-------------------------------- MODULE EthTx --------------------------------
(***************************************************************************)
(* rtl/eth_mac_if.v, transmit side: latches one record and paces it into   *)
(* the MAC's byte FIFO at the offset from udp_tx_req that the MAC's        *)
(* checksum engine expects, then waits for the MAC to finish a frame.      *)
(*                                                                         *)
(* The wires are the record "in": start and payload (the arbiter's output, *)
(* tob_top.v), almost_full and mac_send_end (the vendor MAC).              *)
(***************************************************************************)
EXTENDS Integers

CONSTANTS
  PAYLOAD_BYTES,     \* bytes of a record
  TX_HEADER_DELAY,   \* from udp_tx_req to the first byte, in cycles
  Blank              \* payload_buf out of reset

ASSUME TxAssumption ==
  PAYLOAD_BYTES \in Nat \ {0} /\ TX_HEADER_DELAY \in Nat \ {0, 1}

VARIABLES
  tx_state,
  payload_buf,   \* the record being paced out
  wait_cnt,
  push_idx,
  udp_tx_req,    \* one-cycle pulse: a frame is coming
  ram_wr_en,     \* a byte is on the FIFO's write port
  ram_wr_data    \* which byte of payload_buf it is

ethVars == <<tx_state, payload_buf, wait_cnt, push_idx,
             udp_tx_req, ram_wr_en, ram_wr_data>>

TX_IDLE == "idle"
TX_REQ == "req"
TX_WAIT == "wait"
TX_PUSH == "push"
TX_DRAIN == "drain"

tx_busy == tx_state # TX_IDLE

EthReset ==
  /\ tx_state = TX_IDLE
  /\ payload_buf = Blank
  /\ wait_cnt = 0
  /\ push_idx = 0
  /\ udp_tx_req = FALSE
  /\ ram_wr_en = FALSE
  /\ ram_wr_data = 0

-----------------------------------------------------------------------------

Accept(in) == tx_state = TX_IDLE /\ in.start /\ ~in.almost_full

Idle(in) ==
  /\ tx_state = TX_IDLE
  /\ IF Accept(in)
     THEN tx_state' = TX_REQ /\ payload_buf' = in.payload /\ udp_tx_req' = TRUE
     ELSE UNCHANGED <<tx_state, payload_buf>> /\ udp_tx_req' = FALSE
  /\ ram_wr_en' = FALSE
  /\ UNCHANGED <<wait_cnt, push_idx, ram_wr_data>>

(* Mutant: the request cycle is not counted. *)
Req_FromZero ==
  /\ tx_state = TX_REQ
  /\ tx_state' = TX_WAIT
  /\ wait_cnt' = 0
  /\ udp_tx_req' = FALSE /\ ram_wr_en' = FALSE
  /\ UNCHANGED <<payload_buf, push_idx, ram_wr_data>>

Req ==
  /\ tx_state = TX_REQ
  /\ tx_state' = TX_WAIT
  /\ wait_cnt' = 1
  /\ udp_tx_req' = FALSE /\ ram_wr_en' = FALSE
  /\ UNCHANGED <<payload_buf, push_idx, ram_wr_data>>

Wait ==
  /\ tx_state = TX_WAIT
  /\ udp_tx_req' = FALSE
  /\ IF wait_cnt = TX_HEADER_DELAY - 1
     THEN /\ tx_state' = TX_PUSH
          /\ push_idx' = 0 /\ ram_wr_data' = 0 /\ ram_wr_en' = TRUE
          /\ UNCHANGED wait_cnt
     ELSE /\ wait_cnt' = wait_cnt + 1
          /\ ram_wr_en' = FALSE
          /\ UNCHANGED <<tx_state, push_idx, ram_wr_data>>
  /\ UNCHANGED payload_buf

Push ==
  /\ tx_state = TX_PUSH
  /\ udp_tx_req' = FALSE
  /\ IF push_idx = PAYLOAD_BYTES - 1
     THEN /\ tx_state' = TX_DRAIN
          /\ ram_wr_en' = FALSE
          /\ UNCHANGED <<push_idx, ram_wr_data>>
     ELSE /\ push_idx' = push_idx + 1
          /\ ram_wr_data' = push_idx + 1
          /\ ram_wr_en' = TRUE
          /\ UNCHANGED tx_state
  /\ UNCHANGED <<payload_buf, wait_cnt>>

(* Any frame the MAC finishes ends the wait, an ARP or ICMP reply too. *)
Drain(in) ==
  /\ tx_state = TX_DRAIN
  /\ tx_state' = IF in.mac_send_end THEN TX_IDLE ELSE TX_DRAIN
  /\ udp_tx_req' = FALSE /\ ram_wr_en' = FALSE
  /\ UNCHANGED <<payload_buf, wait_cnt, push_idx, ram_wr_data>>

EthStep(in) == Idle(in) \/ Req \/ Wait \/ Push \/ Drain(in)

=============================================================================
