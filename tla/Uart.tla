--------------------------------- MODULE Uart ---------------------------------
(***************************************************************************)
(* core/vsrc/uart.sv: uart_tx_fifo, the transmitter with its FIFO that the *)
(* stores of the CPU fill, and uart_rx, connected as in npc.v, which feeds *)
(* the transmitted line back to the receiver.                              *)
(*                                                                         *)
(* One step is one clock edge with reset off.  A byte is the function from *)
(* its bit positions to {0, 1}; the number of bits, the clocks per bit and *)
(* the depth of the FIFO are parameters (8, 10 and 16 in the code).        *)
(***************************************************************************)
EXTENDS Naturals, Sequences

CONSTANTS
  FIFO_DEPTH,
  BPS_CNT,     \* clocks per bit
  DataBits,    \* data bits of a frame
  Byte,        \* the bytes the CPU writes
  None         \* no write in this cycle; nothing received

(* The 4-bit counters of bits number the stop bit; and the receiver, three *)
(* clocks behind the line, samples half a bit after it sees the bit begin, *)
(* which at fewer than 5 clocks per bit is already the next bit.           *)
ASSUME UartAssumption ==
  /\ FIFO_DEPTH \in Nat \ {0, 1}
  /\ BPS_CNT \in Nat /\ BPS_CNT >= 5
  /\ DataBits \in 1 .. 14
  /\ Byte \subseteq [1 .. DataBits -> {0, 1}]
  /\ None \notin Byte

VARIABLES
  fifo_buffer, fifo_wr_ptr, fifo_rd_ptr, fifo_cnt,
  uart_tx_en, uart_tx_data,         \* a byte on its way to the shifter
  uart_tx_en_d0, uart_tx_en_d1,     \* uart_tx_en one and two cycles ago
  tx_flag, uart_data_reg,           \* a frame is being sent, and its byte
  tx_clk_cnt, tx_cnt,               \* clock within the bit, bit of the frame
  uart_txd,                         \* the line
  tx_done,
  uart_rx_d0, uart_rx_d1,           \* the line one and two cycles ago
  rx_flag, rx_clk_cnt, rx_cnt,
  uart_rx_data_reg, uart_rx_done, uart_rx_data,
  (* History of what happened, read by no register.                        *)
  pending,   \* bytes accepted from the CPU and not yet sent
  lost,      \* how often fifo_cnt missed a decrement, up to 2
  line       \* bytes sent and not yet received

fifoVars == <<fifo_buffer, fifo_wr_ptr, fifo_rd_ptr, fifo_cnt, uart_tx_en, uart_tx_data>>
txVars == <<uart_tx_en_d0, uart_tx_en_d1, tx_flag, uart_data_reg, tx_clk_cnt, tx_cnt,
            uart_txd, tx_done>>
rxVars == <<uart_rx_d0, uart_rx_d1, rx_flag, rx_clk_cnt, rx_cnt, uart_rx_data_reg,
            uart_rx_done, uart_rx_data>>
vars == <<fifoVars, txVars, rxVars, pending, lost, line>>

ZeroByte == [k \in 1 .. DataBits |-> 0]
Stop == DataBits + 1   \* the number of the stop bit

-----------------------------------------------------------------------------
(* The FIFO.  write is the byte of a store to UART_DATA_ADDR, or None.     *)
fifo_full == fifo_cnt >= FIFO_DEPTH

(* Mutant: a full FIFO accepts another byte.                               *)
cpu_write_valid_Always(write) == write # None
cpu_write_valid(write) == write # None /\ fifo_cnt < FIFO_DEPTH

(* Mutant: busy only while the frame is on the line.                       *)
uart_tx_busy_FrameOnly == tx_flag
uart_tx_busy == tx_flag \/ uart_tx_en \/ uart_tx_en_d0

Pop == ~uart_tx_busy /\ fifo_cnt > 1

FifoEdge(write) ==
  /\ IF cpu_write_valid(write)
     THEN /\ fifo_buffer' = [fifo_buffer EXCEPT ![fifo_wr_ptr] = write]
          /\ fifo_wr_ptr' = (fifo_wr_ptr + 1) % FIFO_DEPTH
          /\ fifo_cnt' = fifo_cnt + 1
     ELSE /\ fifo_cnt' = IF uart_tx_en /\ fifo_cnt > 0 THEN fifo_cnt - 1 ELSE fifo_cnt
          /\ UNCHANGED <<fifo_buffer, fifo_wr_ptr>>
  /\ uart_tx_en' = Pop
  /\ IF Pop
     THEN /\ uart_tx_data' = fifo_buffer[fifo_rd_ptr]
          /\ fifo_rd_ptr' = (fifo_rd_ptr + 1) % FIFO_DEPTH
     ELSE UNCHANGED <<uart_tx_data, fifo_rd_ptr>>

-----------------------------------------------------------------------------
(* The shifter.                                                            *)
pos_uart_en_txd == uart_tx_en_d0 /\ ~uart_tx_en_d1

(* Mutant: the end of the stop bit is looked for after it has passed.      *)
FrameSent_Late == tx_cnt = Stop /\ tx_clk_cnt = BPS_CNT
FrameSent == tx_cnt = Stop /\ tx_clk_cnt = BPS_CNT \div 2

TxBit ==
  CASE ~tx_flag              -> 1
    [] tx_flag /\ tx_cnt = 0 -> 0
    [] tx_flag /\ tx_cnt \in 1 .. DataBits -> uart_data_reg[tx_cnt]
    [] OTHER                 -> 1

TxEdge ==
  /\ uart_tx_en_d0' = uart_tx_en
  /\ uart_tx_en_d1' = uart_tx_en_d0
  /\ IF pos_uart_en_txd THEN tx_flag' = TRUE /\ uart_data_reg' = uart_tx_data
     ELSE IF FrameSent THEN tx_flag' = FALSE /\ uart_data_reg' = ZeroByte
     ELSE UNCHANGED <<tx_flag, uart_data_reg>>
  /\ IF ~tx_flag THEN tx_clk_cnt' = 0 /\ tx_cnt' = 0
     ELSE IF tx_clk_cnt < BPS_CNT - 1 THEN tx_clk_cnt' = tx_clk_cnt + 1 /\ UNCHANGED tx_cnt
     ELSE tx_clk_cnt' = 0 /\ tx_cnt' = (tx_cnt + 1) % 16
  /\ uart_txd' = TxBit
  /\ tx_done' = FrameSent

-----------------------------------------------------------------------------
(* The receiver.  It starts on a falling edge seen through two registers   *)
(* but samples the line itself.                                            *)
neg_uart_rx_data == uart_rx_d1 = 1 /\ uart_rx_d0 = 0
FrameReceived == rx_cnt = Stop /\ rx_clk_cnt = BPS_CNT \div 2

RxEdge ==
  /\ uart_rx_d0' = uart_txd
  /\ uart_rx_d1' = uart_rx_d0
  /\ rx_flag' = (neg_uart_rx_data \/ (rx_flag /\ ~FrameReceived))
  /\ IF ~rx_flag THEN rx_clk_cnt' = 0 /\ rx_cnt' = 0
     ELSE IF rx_clk_cnt < BPS_CNT - 1 THEN rx_clk_cnt' = rx_clk_cnt + 1 /\ UNCHANGED rx_cnt
     ELSE rx_clk_cnt' = 0 /\ rx_cnt' = (rx_cnt + 1) % 16
  /\ uart_rx_data_reg' =
       IF ~rx_flag THEN ZeroByte
       ELSE IF rx_clk_cnt = BPS_CNT \div 2 /\ rx_cnt \in 1 .. DataBits
            THEN [uart_rx_data_reg EXCEPT ![rx_cnt] = uart_txd]
            ELSE uart_rx_data_reg
  /\ uart_rx_done' = (rx_cnt = Stop)
  /\ uart_rx_data' = IF rx_cnt = Stop THEN uart_rx_data_reg ELSE ZeroByte

-----------------------------------------------------------------------------
HistoryEdge(write) ==
  LET rest == IF Pop /\ pending # <<>> THEN Tail(pending) ELSE pending
      heard == IF uart_rx_done' /\ ~uart_rx_done /\ line # <<>> THEN Tail(line) ELSE line
  IN  /\ pending' = IF cpu_write_valid(write) THEN Append(rest, write) ELSE rest
      /\ lost' = IF cpu_write_valid(write) /\ uart_tx_en /\ lost < 2 THEN lost + 1 ELSE lost
      /\ line' = IF Pop THEN Append(heard, fifo_buffer[fifo_rd_ptr]) ELSE heard

Init ==
  /\ fifo_buffer = [k \in 0 .. FIFO_DEPTH - 1 |-> ZeroByte]
  /\ fifo_wr_ptr = 0 /\ fifo_rd_ptr = 0 /\ fifo_cnt = 0
  /\ uart_tx_en = FALSE /\ uart_tx_data = ZeroByte
  /\ uart_tx_en_d0 = FALSE /\ uart_tx_en_d1 = FALSE
  /\ tx_flag = FALSE /\ uart_data_reg = ZeroByte
  /\ tx_clk_cnt = 0 /\ tx_cnt = 0
  /\ uart_txd = 1 /\ tx_done = FALSE
  /\ uart_rx_d0 = 0 /\ uart_rx_d1 = 0
  /\ rx_flag = FALSE /\ rx_clk_cnt = 0 /\ rx_cnt = 0
  /\ uart_rx_data_reg = ZeroByte /\ uart_rx_done = FALSE /\ uart_rx_data = ZeroByte
  /\ pending = <<>> /\ lost = 0 /\ line = <<>>

Clk(write) == FifoEdge(write) /\ TxEdge /\ RxEdge /\ HistoryEdge(write)

Next == \E write \in Byte \cup {None} : Clk(write)

(* The clock runs for ever; the CPU may write in any cycle.                *)
Spec == Init /\ [][Next]_vars /\ WF_vars(Next)

-----------------------------------------------------------------------------
AnyByte == [1 .. DataBits -> {0, 1}]

TypeOK ==
  /\ fifo_buffer \in [0 .. FIFO_DEPTH - 1 -> AnyByte]
  /\ {fifo_wr_ptr, fifo_rd_ptr} \subseteq 0 .. FIFO_DEPTH - 1
  /\ fifo_cnt \in 0 .. FIFO_DEPTH
  /\ {uart_tx_en, uart_tx_en_d0, uart_tx_en_d1, tx_flag, tx_done, rx_flag, uart_rx_done}
       \subseteq BOOLEAN
  /\ {uart_tx_data, uart_data_reg, uart_rx_data_reg, uart_rx_data} \subseteq AnyByte
  /\ {tx_clk_cnt, rx_clk_cnt} \subseteq 0 .. BPS_CNT - 1
  /\ {tx_cnt, rx_cnt} \subseteq 0 .. Stop
  /\ {uart_txd, uart_rx_d0, uart_rx_d1} \subseteq {0, 1}
  /\ pending \in Seq(Byte) /\ line \in Seq(AnyByte) /\ lost \in 0 .. 2

(* The FIFO holds exactly the bytes accepted and not yet sent, in order,   *)
(* and counts at least that many, so that no unread byte is overwritten.   *)
(* This survives one write that arrives in the very cycle in which a sent  *)
(* byte is subtracted (uart.sv, the decrement is in the else branch); the  *)
(* second such write makes the transmitter run past what was written.      *)
FifoIntact ==
  lost <= 1 =>
    /\ Len(pending) + (IF uart_tx_en THEN 1 ELSE 0) + lost = fifo_cnt
    /\ \A k \in 1 .. Len(pending) :
         fifo_buffer[(fifo_rd_ptr + k - 1) % FIFO_DEPTH] = pending[k]

(* The receiver gets every byte the transmitter takes from the FIFO,       *)
(* unchanged and in order, although it locks on late, leaves each frame    *)
(* early, and the next frame follows half a stop bit later.                *)
Line == INSTANCE ByteChannel WITH
  Byte <- AnyByte, queue <- line, got <- IF uart_rx_done THEN uart_rx_data ELSE None
LoopbackIsReliable == Line!Spec

(* With two bytes waiting, one is sent.  With a single one, none need be:  *)
(* the transmitter starts only when fifo_cnt > 1.                          *)
TwoWaitingDrain == Len(pending) >= 2 ~> uart_tx_en

(* uart.sv on fifo_full: "FIFO full flag, tells the CPU that no more       *)
(* writes are accepted".                                                   *)
FullFlagMeansFull == fifo_full => Len(pending) + (IF uart_tx_en THEN 1 ELSE 0) = FIFO_DEPTH
=============================================================================
