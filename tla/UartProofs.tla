------------------------------ MODULE UartProofs ------------------------------
(***************************************************************************)
(* Proofs about Uart, for every depth of the FIFO, every number of clocks  *)
(* per bit from 5 up and every number of data bits that the 4-bit counters *)
(* can number.                                                             *)
(***************************************************************************)
EXTENDS Uart, Integers, TLAPS

Mid == BPS_CNT \div 2

-----------------------------------------------------------------------------
(* The transmitter.  A byte is offered to an idle shifter only; the        *)
(* counters rest at 0 between frames, one clock after the end of the last. *)
ShifterIdle ==
  /\ uart_tx_en => ~uart_tx_en_d0 /\ ~tx_flag
  /\ uart_tx_en_d0 => ~tx_flag /\ ~uart_tx_en_d1

TxCounters ==
  /\ tx_flag /\ tx_cnt = Stop => tx_clk_cnt <= Mid
  /\ ~tx_flag => \/ tx_cnt = 0 /\ tx_clk_cnt = 0
                 \/ /\ tx_cnt = Stop /\ tx_clk_cnt = Mid + 1
                    /\ ~uart_tx_en /\ ~uart_tx_en_d0
  /\ uart_tx_en_d0 => tx_cnt = 0 /\ tx_clk_cnt = 0

(* The line is one clock behind the counters.                              *)
FrameBit(c) == IF c = 0 THEN 0 ELSE IF c \in 1 .. DataBits THEN uart_data_reg[c] ELSE 1
OnLine ==
  uart_txd = IF ~tx_flag THEN 1
             ELSE IF tx_clk_cnt > 0 THEN FrameBit(tx_cnt)
             ELSE IF tx_cnt = 0 THEN 1 ELSE FrameBit(tx_cnt - 1)

-----------------------------------------------------------------------------
(* The receiver follows the transmitter three clocks later.                *)
ThreeBehind ==
  IF tx_clk_cnt >= 3 THEN rx_cnt = tx_cnt /\ rx_clk_cnt = tx_clk_cnt - 3
  ELSE tx_cnt = rx_cnt + 1 /\ rx_clk_cnt = tx_clk_cnt + BPS_CNT - 3

(* While it waits, the edge of a start bit is on its way to it.            *)
RxWaits ==
  ~rx_flag =>
    /\ \/ rx_cnt = 0 /\ rx_clk_cnt = 0
       \/ rx_cnt = Stop /\ rx_clk_cnt = Mid + 1 /\ (tx_flag => tx_clk_cnt = 0)
    /\ tx_flag => /\ tx_cnt = 0 /\ tx_clk_cnt <= 2
                  /\ tx_clk_cnt <= 1 => uart_rx_d0 = 1
                  /\ tx_clk_cnt = 2 => uart_rx_d0 = 0 /\ uart_rx_d1 = 1
    /\ ~tx_flag => uart_rx_d0 = 1 \/ uart_rx_d1 = 0
    /\ ~tx_flag => tx_cnt = 0

RxFollows ==
  rx_flag =>
    /\ tx_flag \/ tx_cnt = Stop => ThreeBehind
    /\ ~tx_flag /\ tx_cnt = 0 =>
         /\ rx_cnt = Stop /\ rx_clk_cnt \in {Mid - 1, Mid}
         /\ rx_clk_cnt = Mid - 1 => ~uart_tx_en_d0
    /\ ~tx_flag => uart_rx_d0 = 1
    /\ tx_flag /\ tx_cnt = Stop /\ tx_clk_cnt > 1 => uart_rx_d0 = 1

Control == ShifterIdle /\ TxCounters /\ OnLine /\ RxWaits /\ RxFollows

-----------------------------------------------------------------------------
(* The byte on its way, until the receiver shows it.                       *)
Receiving == rx_flag /\ ~(rx_cnt = Stop /\ rx_clk_cnt > 0)
OnItsWay == uart_tx_en \/ uart_tx_en_d0 \/ (tx_flag /\ ~rx_flag) \/ Receiving

LineHolds ==
  /\ ~OnItsWay => line = <<>>
  /\ OnItsWay => line = <<Head(line)>> /\ Head(line) \in AnyByte
  /\ uart_tx_en \/ uart_tx_en_d0 => Head(line) = uart_tx_data
  /\ tx_flag /\ OnItsWay => Head(line) = uart_data_reg
  /\ Receiving =>
       \A k \in 1 .. DataBits :
         rx_cnt > k \/ (rx_cnt = k /\ rx_clk_cnt > Mid) => uart_rx_data_reg[k] = Head(line)[k]

Shown ==
  /\ rx_flag => (uart_rx_done <=> rx_cnt = Stop /\ rx_clk_cnt > 0)
  /\ ~rx_flag /\ rx_cnt = Stop => uart_rx_done
  /\ uart_rx_done /\ rx_cnt = Stop => uart_rx_data = uart_rx_data_reg

UartInv == TypeOK /\ Control /\ LineHolds /\ Shown

-----------------------------------------------------------------------------
(* The middle of a bit, and what keeps a sample at it within the bit.      *)
LEMMA Numbers ==
  /\ Mid \in Nat /\ Mid >= 2 /\ Mid + 3 <= BPS_CNT
  /\ DataBits \in Nat /\ DataBits >= 1 /\ Stop = DataBits + 1 /\ Stop <= 15
  /\ BPS_CNT \in Nat /\ Stop \in Nat
<1>1. BPS_CNT \in Nat /\ BPS_CNT >= 5 /\ DataBits \in 1 .. 14
  BY UartAssumption
<1>2. Mid \in Nat /\ 2 * Mid <= BPS_CNT /\ BPS_CNT <= 2 * Mid + 1
  BY <1>1 DEF Mid
<1>3. QED BY <1>1, <1>2 DEF Stop

(* The counters of a running frame: at most the middle of the stop bit.    *)
LEMMA TxClock ==
  ASSUME TypeOK, Control, TxEdge
  PROVE  /\ ~tx_flag => tx_clk_cnt' = 0 /\ tx_cnt' = 0
         /\ tx_flag /\ tx_clk_cnt < BPS_CNT - 1 => tx_clk_cnt' = tx_clk_cnt + 1 /\ tx_cnt' = tx_cnt
         /\ tx_flag /\ tx_clk_cnt >= BPS_CNT - 1 =>
              tx_clk_cnt' = 0 /\ tx_cnt' = tx_cnt + 1 /\ tx_cnt < Stop
         /\ tx_clk_cnt' \in 0 .. BPS_CNT - 1 /\ tx_cnt' \in 0 .. Stop
<1> HIDE DEF Mid, Stop
<1>1. tx_clk_cnt \in 0 .. BPS_CNT - 1 /\ tx_cnt \in 0 .. Stop
  BY DEF TypeOK
<1>2. tx_flag /\ tx_cnt = Stop => tx_clk_cnt <= Mid
  BY DEF Control, TxCounters
<1>3. tx_cnt < Stop => (tx_cnt + 1) % 16 = tx_cnt + 1
  BY <1>1, Numbers
<1>4. QED BY <1>1, <1>2, <1>3, Numbers DEF TxEdge

LEMMA TxFlag ==
  ASSUME TypeOK, Control, TxEdge
  PROVE  /\ (uart_tx_en_d0' <=> uart_tx_en) /\ (uart_tx_en_d1' <=> uart_tx_en_d0)
         /\ uart_tx_en_d0 => tx_flag' /\ uart_data_reg' = uart_tx_data
         /\ ~uart_tx_en_d0 /\ tx_cnt = Stop /\ tx_clk_cnt = Mid =>
              ~tx_flag' /\ uart_data_reg' = ZeroByte
         /\ ~uart_tx_en_d0 /\ ~(tx_cnt = Stop /\ tx_clk_cnt = Mid) =>
              (tx_flag' <=> tx_flag) /\ uart_data_reg' = uart_data_reg
BY DEF TypeOK, Control, ShifterIdle, TxEdge, pos_uart_en_txd, FrameSent, Mid

(* The receiver stays within the middle of the stop bit too.               *)
LEMMA RxStopBit ==
  ASSUME TypeOK, Control
  PROVE  rx_flag /\ rx_cnt = Stop => rx_clk_cnt <= Mid
<1>1. CASE tx_flag \/ tx_cnt = Stop
  BY <1>1, Numbers DEF TypeOK, Control, TxCounters, RxFollows, ThreeBehind
<1>2. CASE ~tx_flag /\ tx_cnt # Stop
  BY <1>2, Numbers DEF TypeOK, Control, TxCounters, RxFollows
<1>3. QED BY <1>1, <1>2

LEMMA RxClock ==
  ASSUME TypeOK, Control, RxEdge
  PROVE  /\ ~rx_flag => rx_clk_cnt' = 0 /\ rx_cnt' = 0
         /\ rx_flag /\ rx_clk_cnt < BPS_CNT - 1 => rx_clk_cnt' = rx_clk_cnt + 1 /\ rx_cnt' = rx_cnt
         /\ rx_flag /\ rx_clk_cnt >= BPS_CNT - 1 =>
              rx_clk_cnt' = 0 /\ rx_cnt' = rx_cnt + 1 /\ rx_cnt < Stop
         /\ rx_clk_cnt' \in 0 .. BPS_CNT - 1 /\ rx_cnt' \in 0 .. Stop
<1>1. rx_clk_cnt \in 0 .. BPS_CNT - 1 /\ rx_cnt \in 0 .. Stop
  BY DEF TypeOK
<1>2. rx_flag /\ rx_cnt = Stop => rx_clk_cnt <= Mid
  BY RxStopBit
<1>3. rx_cnt < Stop => (rx_cnt + 1) % 16 = rx_cnt + 1
  BY <1>1, Numbers
<1>4. QED BY <1>1, <1>2, <1>3, Numbers DEF RxEdge

LEMMA RxFlag ==
  ASSUME TypeOK, Control, RxEdge
  PROVE  /\ uart_rx_d0' = uart_txd /\ uart_rx_d1' = uart_rx_d0
         /\ uart_rx_d1 = 1 /\ uart_rx_d0 = 0 => rx_flag'
         /\ ~(uart_rx_d1 = 1 /\ uart_rx_d0 = 0) =>
              (rx_flag' <=> rx_flag /\ ~(rx_cnt = Stop /\ rx_clk_cnt = Mid))
         /\ rx_flag' \in BOOLEAN
BY DEF TypeOK, RxEdge, neg_uart_rx_data, FrameReceived, Mid

-----------------------------------------------------------------------------
LEMMA Bytes == Byte \subseteq AnyByte /\ ZeroByte \in AnyByte /\ None \notin Byte
BY UartAssumption DEF AnyByte, ZeroByte

LEMMA FifoTypes ==
  ASSUME TypeOK, NEW write \in Byte \cup {None}, FifoEdge(write)
  PROVE  /\ fifo_buffer' \in [0 .. FIFO_DEPTH - 1 -> AnyByte]
         /\ fifo_wr_ptr' \in 0 .. FIFO_DEPTH - 1 /\ fifo_rd_ptr' \in 0 .. FIFO_DEPTH - 1
         /\ fifo_cnt' \in 0 .. FIFO_DEPTH
         /\ uart_tx_en' \in BOOLEAN /\ uart_tx_data' \in AnyByte
<1>1. FIFO_DEPTH \in Nat /\ FIFO_DEPTH >= 2
  BY UartAssumption
<1>2. /\ fifo_buffer \in [0 .. FIFO_DEPTH - 1 -> AnyByte]
      /\ fifo_wr_ptr \in 0 .. FIFO_DEPTH - 1 /\ fifo_rd_ptr \in 0 .. FIFO_DEPTH - 1
      /\ fifo_cnt \in 0 .. FIFO_DEPTH /\ uart_tx_data \in AnyByte
  BY DEF TypeOK
<1>3. cpu_write_valid(write) => write \in AnyByte
  BY Bytes DEF cpu_write_valid
<1>4. fifo_buffer' \in [0 .. FIFO_DEPTH - 1 -> AnyByte]
  BY <1>2, <1>3 DEF FifoEdge
<1>5. (fifo_wr_ptr + 1) % FIFO_DEPTH \in 0 .. FIFO_DEPTH - 1
      /\ (fifo_rd_ptr + 1) % FIFO_DEPTH \in 0 .. FIFO_DEPTH - 1
  BY <1>1, <1>2
<1>6. fifo_wr_ptr' \in 0 .. FIFO_DEPTH - 1 /\ fifo_rd_ptr' \in 0 .. FIFO_DEPTH - 1
  BY <1>2, <1>5 DEF FifoEdge
<1>7. fifo_cnt' \in 0 .. FIFO_DEPTH
  BY <1>1, <1>2 DEF FifoEdge, cpu_write_valid
<1>8. uart_tx_en' \in BOOLEAN
  BY DEF FifoEdge, Pop, uart_tx_busy
<1>9. uart_tx_data' \in AnyByte
  BY <1>2 DEF FifoEdge
<1>10. QED BY <1>4, <1>6, <1>7, <1>8, <1>9

LEMMA TxTypes ==
  ASSUME TypeOK, Control, TxEdge
  PROVE  /\ uart_tx_en_d0' \in BOOLEAN /\ uart_tx_en_d1' \in BOOLEAN
         /\ tx_flag' \in BOOLEAN /\ tx_done' \in BOOLEAN
         /\ uart_data_reg' \in AnyByte /\ uart_txd' \in {0, 1}
<1>1. uart_data_reg \in AnyByte /\ uart_tx_data \in AnyByte /\ ZeroByte \in AnyByte
  BY Bytes DEF TypeOK
<1>2. /\ uart_tx_en_d0' \in BOOLEAN /\ uart_tx_en_d1' \in BOOLEAN
      /\ tx_flag' \in BOOLEAN /\ tx_done' \in BOOLEAN
  BY DEF TypeOK, TxEdge, FrameSent
<1>3. uart_data_reg' \in AnyByte
  BY <1>1 DEF TxEdge
<1>4. uart_txd' \in {0, 1}
  BY <1>1, Numbers DEF TxEdge, TxBit, AnyByte, TypeOK
<1>5. QED BY <1>2, <1>3, <1>4

LEMMA RxTypes ==
  ASSUME TypeOK, RxEdge
  PROVE  /\ rx_flag' \in BOOLEAN /\ uart_rx_done' \in BOOLEAN
         /\ uart_rx_data_reg' \in AnyByte /\ uart_rx_data' \in AnyByte
         /\ uart_rx_d0' \in {0, 1} /\ uart_rx_d1' \in {0, 1}
<1>1. uart_rx_data_reg \in AnyByte /\ ZeroByte \in AnyByte /\ uart_txd \in {0, 1}
  BY Bytes DEF TypeOK
<1>2. uart_rx_data_reg' \in AnyByte
  BY <1>1 DEF RxEdge, AnyByte
<1>3. QED BY <1>1, <1>2 DEF TypeOK, RxEdge, neg_uart_rx_data

LEMMA HistoryTypes ==
  ASSUME TypeOK, NEW write \in Byte \cup {None}, HistoryEdge(write)
  PROVE  pending' \in Seq(Byte) /\ line' \in Seq(AnyByte) /\ lost' \in 0 .. 2
<1>1. pending \in Seq(Byte) /\ line \in Seq(AnyByte) /\ lost \in 0 .. 2
  BY DEF TypeOK
<1>2. /\ pending # <<>> => Tail(pending) \in Seq(Byte)
      /\ line # <<>> => Tail(line) \in Seq(AnyByte)
  BY <1>1
<1>3. cpu_write_valid(write) => write \in Byte
  BY DEF cpu_write_valid
<1>4. pending' \in Seq(Byte)
  BY <1>1, <1>2, <1>3 DEF HistoryEdge
<1>5. fifo_buffer[fifo_rd_ptr] \in AnyByte
  BY DEF TypeOK
<1>6. line' \in Seq(AnyByte)
  BY <1>1, <1>2, <1>5 DEF HistoryEdge
<1>7. lost' \in 0 .. 2
  BY <1>1 DEF HistoryEdge
<1>8. QED BY <1>4, <1>6, <1>7

LEMMA EdgeTypes ==
  ASSUME TypeOK, Control, NEW write \in Byte \cup {None}, Clk(write)
  PROVE  TypeOK'
<1>1. FifoEdge(write) /\ TxEdge /\ RxEdge /\ HistoryEdge(write)
  BY DEF Clk
<1>2. AnyByte' = AnyByte
  OBVIOUS
<1>3. tx_clk_cnt' \in 0 .. BPS_CNT - 1 /\ tx_cnt' \in 0 .. Stop
  BY <1>1, TxClock
<1>4. rx_clk_cnt' \in 0 .. BPS_CNT - 1 /\ rx_cnt' \in 0 .. Stop
  BY <1>1, RxClock
<1>5. QED BY <1>1, <1>3, <1>4, FifoTypes, TxTypes, RxTypes, HistoryTypes DEF TypeOK

-----------------------------------------------------------------------------
(* The transmitter's part of Control.                                      *)
LEMMA TxControl ==
  ASSUME TypeOK, Control, NEW write \in Byte \cup {None}, Clk(write)
  PROVE  ShifterIdle' /\ TxCounters' /\ OnLine'
<1>1. FifoEdge(write) /\ TxEdge
  BY DEF Clk
<1>2. uart_tx_en' => ~tx_flag /\ ~uart_tx_en /\ ~uart_tx_en_d0
  BY <1>1 DEF FifoEdge, Pop, uart_tx_busy
<1>3. ShifterIdle'
  BY <1>1, <1>2, TxFlag DEF ShifterIdle, Control, TypeOK
<1>4. TxCounters'
  <2>1. CASE ~tx_flag
    BY <1>1, <1>2, <2>1, TxFlag, TxClock, Numbers, SMTT(30) DEF TxCounters, ShifterIdle, Control, TypeOK
  <2>2. CASE tx_flag
    BY <1>1, <1>2, <2>2, TxFlag, TxClock, Numbers, SMTT(30) DEF TxCounters, ShifterIdle, Control, TypeOK
  <2>3. QED BY <2>1, <2>2
<1>5. OnLine'
  <2>1. uart_txd' = IF ~tx_flag THEN 1 ELSE FrameBit(tx_cnt)
    BY <1>1, Numbers, SMTT(30) DEF TxEdge, TxBit, FrameBit, TypeOK
  <2>2. CASE ~tx_flag
    <3>1. uart_txd' = 1 /\ tx_cnt' = 0 /\ tx_clk_cnt' = 0
      BY <1>1, <2>1, <2>2, TxClock
    <3>2. QED BY <3>1 DEF OnLine
  <2>3. CASE tx_flag /\ tx_cnt = Stop /\ tx_clk_cnt = Mid
    <3>1. ~uart_tx_en_d0
      BY <2>3 DEF Control, ShifterIdle
    <3>2. ~tx_flag'
      BY <1>1, <2>3, <3>1, TxFlag
    <3>3. uart_txd' = 1
      BY <2>1, <2>3, Numbers DEF FrameBit
    <3>4. QED BY <3>2, <3>3 DEF OnLine
  <2>4. CASE tx_flag /\ ~(tx_cnt = Stop /\ tx_clk_cnt = Mid)
    <3>1. ~uart_tx_en_d0
      BY <2>4 DEF Control, ShifterIdle
    <3>2. (tx_flag' <=> tx_flag) /\ uart_data_reg' = uart_data_reg
      BY <1>1, <2>4, <3>1, TxFlag
    <3>3. \/ tx_clk_cnt' > 0 /\ tx_cnt' = tx_cnt
          \/ tx_clk_cnt' = 0 /\ tx_cnt' = tx_cnt + 1
      BY <1>1, <2>4, TxClock, Numbers DEF TypeOK
    <3>4. uart_txd' = FrameBit(tx_cnt)
      BY <2>1, <2>4
    <3>5. tx_cnt \in Nat
      BY Numbers DEF TypeOK
    <3>6. QED BY <2>4, <3>2, <3>3, <3>4, <3>5 DEF OnLine, FrameBit
  <2>5. QED BY <2>2, <2>3, <2>4
<1>6. QED BY <1>3, <1>4, <1>5

-----------------------------------------------------------------------------
(* The receiver's part of Control.                                         *)
LEMMA LineLevel ==
  ASSUME TypeOK, Control
  PROVE  /\ ~tx_flag => uart_txd = 1
         /\ tx_flag /\ tx_cnt = 0 /\ tx_clk_cnt = 0 => uart_txd = 1
         /\ tx_flag /\ tx_cnt = 0 /\ tx_clk_cnt > 0 => uart_txd = 0
         /\ tx_flag /\ tx_cnt = Stop /\ tx_clk_cnt > 0 => uart_txd = 1
BY Numbers DEF TypeOK, Control, OnLine, FrameBit

LEMMA RxControl ==
  ASSUME TypeOK, Control, NEW write \in Byte \cup {None}, Clk(write)
  PROVE  RxWaits' /\ RxFollows'
<1>1. FifoEdge(write) /\ TxEdge /\ RxEdge
  BY DEF Clk
<1>2. tx_clk_cnt \in 0 .. BPS_CNT - 1 /\ tx_cnt \in 0 .. Stop
      /\ rx_clk_cnt \in 0 .. BPS_CNT - 1 /\ rx_cnt \in 0 .. Stop
  BY DEF TypeOK
<1>3. CASE ~rx_flag /\ ~tx_flag
  <2>1. RxWaits'
    BY <1>1, <1>2, <1>3, LineLevel, TxFlag, TxClock, RxFlag, RxClock, Numbers
    DEF Control, ShifterIdle, TxCounters, RxWaits
  <2>2. RxFollows'
    BY <1>1, <1>2, <1>3, LineLevel, TxFlag, TxClock, RxFlag, RxClock, Numbers
    DEF Control, ShifterIdle, TxCounters, RxWaits, RxFollows
  <2>3. QED BY <2>1, <2>2
<1>4. CASE ~rx_flag /\ tx_flag
  <2>1. RxWaits'
    BY <1>1, <1>2, <1>4, LineLevel, TxFlag, TxClock, RxFlag, RxClock, Numbers
    DEF Control, ShifterIdle, TxCounters, RxWaits
  <2>2. RxFollows'
    BY <1>1, <1>2, <1>4, LineLevel, TxFlag, TxClock, RxFlag, RxClock, Numbers
    DEF Control, ShifterIdle, TxCounters, RxWaits, RxFollows, ThreeBehind
  <2>3. QED BY <2>1, <2>2
<1>5. CASE rx_flag /\ ~tx_flag
  <2>1. RxWaits'
    BY <1>1, <1>2, <1>5, LineLevel, TxFlag, TxClock, RxFlag, RxClock, Numbers
    DEF Control, ShifterIdle, TxCounters, RxWaits, RxFollows, ThreeBehind
  <2>2. RxFollows'
    BY <1>1, <1>2, <1>5, LineLevel, TxFlag, TxClock, RxFlag, RxClock, Numbers
    DEF Control, ShifterIdle, TxCounters, RxFollows, ThreeBehind
  <2>3. QED BY <2>1, <2>2
<1>6. CASE rx_flag /\ tx_flag
  <2>1. RxWaits'
    BY <1>1, <1>2, <1>6, LineLevel, TxFlag, TxClock, RxFlag, RxClock, Numbers
    DEF Control, ShifterIdle, TxCounters, RxWaits, RxFollows, ThreeBehind
  <2>2. RxFollows'
    BY <1>1, <1>2, <1>6, LineLevel, TxFlag, TxClock, RxFlag, RxClock, Numbers
    DEF Control, ShifterIdle, TxCounters, RxFollows, ThreeBehind
  <2>3. QED BY <2>1, <2>2
<1>7. QED BY <1>3, <1>4, <1>5, <1>6

-----------------------------------------------------------------------------
(* The output of the receiver rises when the middle of the stop bit is     *)
(* still ahead: at the start of the stop bit.                              *)
Delivers == rx_flag /\ rx_cnt = Stop /\ rx_clk_cnt = 0

LEMMA RxDone ==
  ASSUME TypeOK, Control, Shown, RxEdge
  PROVE  /\ uart_rx_done' <=> rx_cnt = Stop
         /\ uart_rx_done' /\ ~uart_rx_done <=> Delivers
BY DEF TypeOK, RxEdge, Shown, Delivers

LEMMA ShownStep ==
  ASSUME TypeOK, Control, Shown, RxEdge
  PROVE  Shown'
<1>1. rx_clk_cnt \in 0 .. BPS_CNT - 1 /\ rx_cnt \in 0 .. Stop
      /\ tx_clk_cnt \in 0 .. BPS_CNT - 1
  BY DEF TypeOK
<1>2. ~rx_flag => rx_cnt' = 0 /\ (rx_cnt = Stop => ~rx_flag')
  BY <1>1, RxFlag, RxClock, Numbers DEF Control, RxWaits
<1>3. rx_flag => (rx_cnt = Stop <=> rx_cnt' = Stop /\ rx_clk_cnt' > 0)
  BY <1>1, RxStopBit, RxClock, Numbers
<1>4. ~rx_flag' /\ rx_cnt' = Stop => rx_cnt = Stop
  BY <1>1, <1>2, RxFlag, Numbers
<1>5. ASSUME rx_cnt = Stop, rx_cnt' = Stop PROVE uart_rx_data' = uart_rx_data_reg'
  <2>1. rx_flag
    BY <1>2, <1>5, Numbers
  <2>2. ~(rx_cnt \in 1 .. DataBits)
    BY <1>5, Numbers
  <2>3. QED BY <1>5, <2>1, <2>2 DEF RxEdge
<1>6. QED BY <1>1, <1>2, <1>3, <1>4, <1>5, RxDone, Numbers DEF Shown

(* Where the byte on its way is before and after a clock edge.             *)
LEMMA WayTaken ==
  ASSUME TypeOK, Control, NEW write \in Byte \cup {None}, Clk(write), Pop
  PROVE  /\ ~OnItsWay \/ Delivers
         /\ uart_tx_en' /\ ~uart_tx_en_d0' /\ ~tx_flag' /\ ~Receiving'
<1>1. FifoEdge(write) /\ TxEdge /\ RxEdge
  BY DEF Clk
<1>2. tx_clk_cnt \in 0 .. BPS_CNT - 1 /\ tx_cnt \in 0 .. Stop
      /\ rx_clk_cnt \in 0 .. BPS_CNT - 1 /\ rx_cnt \in 0 .. Stop
  BY DEF TypeOK
<1>3. uart_tx_en' /\ ~tx_flag /\ ~uart_tx_en /\ ~uart_tx_en_d0
  BY <1>1 DEF FifoEdge, Pop, uart_tx_busy
<1>4. ~uart_tx_en_d0' /\ ~tx_flag'
  BY <1>1, <1>3, TxFlag
<1>5. ~OnItsWay \/ Delivers
  BY <1>2, <1>3, Numbers
  DEF OnItsWay, Receiving, Delivers, Control, TxCounters, RxFollows, ThreeBehind
<1>6. ~Receiving'
  BY <1>1, <1>2, <1>3, RxFlag, RxClock, Numbers
  DEF Receiving, Control, TxCounters, RxWaits, RxFollows, ThreeBehind
<1>7. QED BY <1>3, <1>4, <1>5, <1>6

LEMMA WayGoesOn ==
  ASSUME TypeOK, Control, NEW write \in Byte \cup {None}, Clk(write), ~Pop
  PROVE  /\ ~uart_tx_en'
         /\ OnItsWay' <=> OnItsWay /\ ~Delivers
         /\ uart_tx_en_d0' => uart_tx_en /\ ~tx_flag' /\ ~Receiving'
         /\ tx_flag' /\ OnItsWay' => uart_tx_en_d0 \/ tx_flag
         /\ Receiving' => \/ tx_flag /\ ~rx_flag /\ rx_cnt' = 0
                          \/ Receiving
<1>1. FifoEdge(write) /\ TxEdge /\ RxEdge
  BY DEF Clk
<1>2. tx_clk_cnt \in 0 .. BPS_CNT - 1 /\ tx_cnt \in 0 .. Stop
      /\ rx_clk_cnt \in 0 .. BPS_CNT - 1 /\ rx_cnt \in 0 .. Stop
  BY DEF TypeOK
<1>3. ~uart_tx_en'
  BY <1>1 DEF FifoEdge
<1>4. CASE ~tx_flag /\ ~rx_flag
  BY <1>1, <1>2, <1>3, <1>4, TxFlag, RxFlag, RxClock, Numbers
  DEF OnItsWay, Receiving, Delivers, Control, ShifterIdle, TxCounters, RxWaits
<1>5. CASE tx_flag /\ ~rx_flag
  BY <1>1, <1>2, <1>3, <1>5, TxFlag, RxFlag, RxClock, Numbers
  DEF OnItsWay, Receiving, Delivers, Control, ShifterIdle, TxCounters, RxWaits
<1>6. CASE ~tx_flag /\ rx_flag
  BY <1>1, <1>2, <1>3, <1>6, TxFlag, RxFlag, RxClock, RxStopBit, Numbers
  DEF OnItsWay, Receiving, Delivers, Control, ShifterIdle, TxCounters, RxFollows, ThreeBehind
<1>7. CASE tx_flag /\ rx_flag
  BY <1>1, <1>2, <1>3, <1>7, TxFlag, RxFlag, RxClock, RxStopBit, Numbers
  DEF OnItsWay, Receiving, Delivers, Control, ShifterIdle, TxCounters, RxFollows, ThreeBehind
<1>8. QED BY <1>4, <1>5, <1>6, <1>7

(* A sample is taken half a bit after the receiver saw the bit begin: the  *)
(* line, three clocks ahead of it, still shows that bit.                   *)
LEMMA SampleIsBit ==
  ASSUME TypeOK, Control, rx_flag, rx_clk_cnt = Mid, rx_cnt \in 1 .. DataBits
  PROVE  tx_flag /\ uart_txd = uart_data_reg[rx_cnt]
<1>1. tx_clk_cnt \in 0 .. BPS_CNT - 1 /\ tx_cnt \in 0 .. Stop
  BY DEF TypeOK
<1>2. tx_flag
  BY <1>1, Numbers DEF Control, TxCounters, RxFollows, ThreeBehind
<1>3. ThreeBehind
  BY <1>2 DEF Control, RxFollows
<1>4. CASE tx_clk_cnt >= 3
  <2>1. tx_clk_cnt > 0 /\ tx_cnt = rx_cnt
    BY <1>1, <1>3, <1>4 DEF ThreeBehind
  <2>2. FrameBit(tx_cnt) = uart_data_reg[rx_cnt]
    BY <2>1, Numbers DEF FrameBit
  <2>3. QED BY <1>2, <2>1, <2>2 DEF Control, OnLine
<1>5. CASE tx_clk_cnt < 3
  <2>1. tx_clk_cnt = 0 /\ tx_cnt = rx_cnt + 1 /\ tx_cnt - 1 = rx_cnt /\ tx_cnt # 0
    BY <1>1, <1>3, <1>5, Numbers DEF ThreeBehind
  <2>2. FrameBit(tx_cnt - 1) = uart_data_reg[rx_cnt]
    BY <2>1, Numbers DEF FrameBit
  <2>3. QED BY <1>2, <2>1, <2>2 DEF Control, OnLine
<1>6. QED BY <1>1, <1>2, <1>4, <1>5

(* The bits received before the present one are those of the byte.         *)
BitsHeard(b) ==
  \A k \in 1 .. DataBits :
    rx_cnt > k \/ (rx_cnt = k /\ rx_clk_cnt > Mid) => uart_rx_data_reg[k] = b[k]

LEMMA BitsStep ==
  ASSUME TypeOK, Control, RxEdge, Receiving, NEW b, BitsHeard(b), tx_flag => b = uart_data_reg
  PROVE  BitsHeard(b)'
<1>1. rx_clk_cnt \in 0 .. BPS_CNT - 1 /\ rx_cnt \in 0 .. Stop /\ rx_flag
  BY DEF TypeOK, Receiving
<1> SUFFICES ASSUME NEW k \in 1 .. DataBits, rx_cnt' > k \/ (rx_cnt' = k /\ rx_clk_cnt' > Mid)
             PROVE  uart_rx_data_reg'[k] = b[k]
  BY DEF BitsHeard
<1>2. rx_cnt > k \/ (rx_cnt = k /\ rx_clk_cnt > Mid) \/ (rx_cnt = k /\ rx_clk_cnt = Mid)
  BY <1>1, RxClock, Numbers
<1>3. uart_rx_data_reg \in [1 .. DataBits -> {0, 1}]
  BY DEF TypeOK, AnyByte
<1>4. CASE rx_cnt = k /\ rx_clk_cnt = Mid
  <2>1. b[k] = uart_txd
    BY <1>1, <1>4, SampleIsBit
  <2>2. uart_rx_data_reg' = [uart_rx_data_reg EXCEPT ![k] = uart_txd]
    BY <1>1, <1>4 DEF RxEdge, Mid
  <2>3. QED BY <1>3, <2>1, <2>2
<1>5. CASE ~(rx_cnt = k /\ rx_clk_cnt = Mid)
  <2>1. uart_rx_data_reg[k] = b[k]
    BY <1>2, <1>5 DEF BitsHeard
  <2>2. uart_rx_data_reg'[k] = uart_rx_data_reg[k]
    BY <1>1, <1>3, <1>5 DEF RxEdge, Mid
  <2>3. QED BY <2>1, <2>2
<1>6. QED BY <1>4, <1>5

LEMMA LineHoldsStep ==
  ASSUME TypeOK, Control, LineHolds, Shown, NEW write \in Byte \cup {None}, Clk(write)
  PROVE  LineHolds'
<1>1. FifoEdge(write) /\ TxEdge /\ RxEdge /\ HistoryEdge(write)
  BY DEF Clk
<1>2. LET heard == IF Delivers THEN <<>> ELSE line
      IN  line' = IF Pop THEN Append(heard, fifo_buffer[fifo_rd_ptr]) ELSE heard
  <2>1. Delivers => line # <<>> /\ Tail(line) = <<>>
    <3> SUFFICES ASSUME Delivers PROVE line # <<>> /\ Tail(line) = <<>>
      OBVIOUS
    <3>1. line = <<Head(line)>>
      BY Numbers DEF LineHolds, Delivers, OnItsWay, Receiving
    <3>2. PICK b : line = <<b>>
      BY <3>1
    <3>3. QED BY <3>2
  <2>2. QED BY <1>1, <2>1, RxDone DEF HistoryEdge
<1>3. AnyByte' = AnyByte
  OBVIOUS
<1>4. CASE Pop
  <2>1. line' = <<fifo_buffer[fifo_rd_ptr]>>
    <3>1. line' = Append(<<>>, fifo_buffer[fifo_rd_ptr])
      BY <1>2, <1>4, WayTaken DEF LineHolds
    <3>2. QED BY <3>1
  <2>2. Head(line') = fifo_buffer[fifo_rd_ptr]
    BY <2>1
  <2>3. uart_tx_data' = fifo_buffer[fifo_rd_ptr] /\ fifo_buffer[fifo_rd_ptr] \in AnyByte
    BY <1>1, <1>4 DEF FifoEdge, TypeOK
  <2>4. OnItsWay'
    BY <1>4, WayTaken DEF OnItsWay
  <2>5. line' = <<Head(line')>> /\ Head(line') \in AnyByte /\ Head(line') = uart_tx_data'
    BY <2>1, <2>2, <2>3
  <2>6. ~tx_flag' /\ ~Receiving'
    BY <1>4, WayTaken
  <2>7. QED BY <2>4, <2>5, <2>6 DEF LineHolds
<1>5. CASE ~Pop /\ ~(OnItsWay /\ ~Delivers)
  <2>1. line' = <<>>
    BY <1>2, <1>5 DEF LineHolds
  <2>2. ~OnItsWay'
    BY <1>5, WayGoesOn
  <2>3. QED BY <2>1, <2>2 DEF LineHolds, OnItsWay
<1>6. CASE ~Pop /\ OnItsWay /\ ~Delivers
  <2>1. line' = line
    BY <1>2, <1>6
  <2>2. OnItsWay' /\ ~uart_tx_en'
    BY <1>6, WayGoesOn
  <2>3. line = <<Head(line)>> /\ Head(line) \in AnyByte
    BY <1>6 DEF LineHolds
  <2>4. uart_tx_en_d0' => Head(line) = uart_tx_data'
    BY <1>1, <1>6, WayGoesOn DEF LineHolds, FifoEdge
  <2>5. ASSUME tx_flag' PROVE Head(line) = uart_data_reg'
    <3>1. CASE uart_tx_en_d0
      BY <1>1, <3>1, TxFlag DEF LineHolds
    <3>2. CASE ~uart_tx_en_d0
      <4>1. tx_flag
        BY <1>6, <2>2, <2>5, <3>2, WayGoesOn
      <4>2. uart_data_reg' = uart_data_reg
        BY <1>1, <2>5, <3>2, TxFlag
      <4>3. QED BY <1>6, <4>1, <4>2 DEF LineHolds
    <3>3. QED BY <3>1, <3>2
  <2>6. ASSUME Receiving' PROVE BitsHeard(Head(line))'
    <3> DEFINE b == Head(line)
    <3>1. CASE rx_cnt' = 0
      BY <2>1, <3>1 DEF BitsHeard
    <3>2. CASE Receiving
      <4>1. BitsHeard(b) /\ (tx_flag => b = uart_data_reg)
        BY <1>6, <3>2 DEF LineHolds, BitsHeard
      <4>2. PICK c : c = b
        OBVIOUS
      <4>3. BitsHeard(c) /\ (tx_flag => c = uart_data_reg)
        BY <4>1, <4>2
      <4>4. BitsHeard(c)'
        BY <1>1, <3>2, <4>3, BitsStep
      <4>5. QED BY <2>1, <4>2, <4>4 DEF BitsHeard
    <3>3. QED BY <1>6, <2>6, <3>1, <3>2, WayGoesOn
  <2>7. QED BY <2>1, <2>2, <2>3, <2>4, <2>5, <2>6 DEF LineHolds, BitsHeard
<1>7. QED BY <1>4, <1>5, <1>6

-----------------------------------------------------------------------------
LEMMA UartInit == Init => UartInv
<1> SUFFICES ASSUME Init PROVE UartInv
  OBVIOUS
<1>1. TypeOK
  <2>1. fifo_buffer \in [0 .. FIFO_DEPTH - 1 -> AnyByte]
    BY Bytes DEF Init
  <2>2. {fifo_wr_ptr, fifo_rd_ptr} \subseteq 0 .. FIFO_DEPTH - 1 /\ fifo_cnt \in 0 .. FIFO_DEPTH
    BY UartAssumption DEF Init
  <2>3. pending \in Seq(Byte) /\ line \in Seq(AnyByte) /\ lost \in 0 .. 2
    BY DEF Init
  <2>4. {tx_clk_cnt, rx_clk_cnt} \subseteq 0 .. BPS_CNT - 1 /\ {tx_cnt, rx_cnt} \subseteq 0 .. Stop
    BY Numbers DEF Init
  <2>5. QED BY <2>1, <2>2, <2>3, <2>4, Bytes DEF TypeOK, Init
<1>2. Control
  BY Numbers DEF Init, Control, ShifterIdle, TxCounters, OnLine, RxWaits, RxFollows
<1>3. LineHolds /\ Shown
  BY Numbers DEF Init, LineHolds, OnItsWay, Receiving, Shown
<1>4. QED BY <1>1, <1>2, <1>3 DEF UartInv

LEMMA UartStep ==
  ASSUME UartInv, NEW write \in Byte \cup {None}, Clk(write)
  PROVE  UartInv'
<1>1. TypeOK /\ Control /\ LineHolds /\ Shown
  BY DEF UartInv
<1>2. RxEdge
  BY DEF Clk
<1>3. Control'
  BY <1>1, TxControl, RxControl DEF Control
<1>4. QED BY <1>1, <1>2, <1>3, EdgeTypes, LineHoldsStep, ShownStep DEF UartInv

LEMMA UartStutter ==
  ASSUME UartInv, UNCHANGED vars
  PROVE  UartInv'
<1> USE DEF vars, fifoVars, txVars, rxVars
<1>1. TypeOK'
  BY DEF UartInv, TypeOK
<1>2. Control'
  BY DEF UartInv, Control, ShifterIdle, TxCounters, OnLine, FrameBit, RxWaits, RxFollows, ThreeBehind
<1>3. LineHolds' /\ Shown'
  BY DEF UartInv, LineHolds, OnItsWay, Receiving, Shown
<1>4. QED BY <1>1, <1>2, <1>3 DEF UartInv

LEMMA UartAlways == Spec => []UartInv
<1>1. UartInv /\ [Next]_vars => UartInv'
  BY UartStep, UartStutter DEF Next
<1>2. QED BY <1>1, UartInit, PTL DEF Spec

(* The transmitter, the receiver and the FIFO keep to their ranges: the    *)
(* counters of bits never pass the stop bit of the frame.                  *)
THEOREM UartTypesOK == Spec => []TypeOK
<1>1. UartInv => TypeOK
  BY DEF UartInv
<1>2. QED BY <1>1, UartAlways, PTL

-----------------------------------------------------------------------------
(* The refinement: the receiver's output rises with the byte sent, and     *)
(* every other edge is quiet; either may also take a byte from the FIFO.   *)
got == IF uart_rx_done THEN uart_rx_data ELSE None

LEMMA SameByte ==
  ASSUME NEW a \in AnyByte, NEW b \in AnyByte, \A k \in 1 .. DataBits : a[k] = b[k]
  PROVE  a = b
<1>1. a = [k \in 1 .. DataBits |-> a[k]] /\ b = [k \in 1 .. DataBits |-> b[k]]
  BY DEF AnyByte
<1>2. [k \in 1 .. DataBits |-> a[k]] = [k \in 1 .. DataBits |-> b[k]]
  OBVIOUS
<1>3. QED BY <1>1, <1>2

LEMMA ByteArrives ==
  ASSUME TypeOK, Control, LineHolds, RxEdge, Delivers
  PROVE  uart_rx_data' = Head(line) /\ line # <<>>
<1>1. OnItsWay /\ Receiving
  BY Numbers DEF Delivers, OnItsWay, Receiving
<1>2. uart_rx_data' = uart_rx_data_reg
  BY DEF RxEdge, Delivers
<1>3. Head(line) \in [1 .. DataBits -> {0, 1}] /\ uart_rx_data_reg \in [1 .. DataBits -> {0, 1}]
  BY <1>1 DEF LineHolds, TypeOK, AnyByte
<1>4. \A k \in 1 .. DataBits : uart_rx_data_reg[k] = Head(line)[k]
  BY <1>1, Numbers DEF LineHolds, Delivers
<1>5. line # <<>>
  BY <1>1 DEF LineHolds
<1>6. uart_rx_data_reg = Head(line)
  <2>1. PICK b : b = Head(line)
    OBVIOUS
  <2>2. b \in [1 .. DataBits -> {0, 1}] /\ \A k \in 1 .. DataBits : uart_rx_data_reg[k] = b[k]
    BY <1>3, <1>4, <2>1
  <2>3. uart_rx_data_reg = b
    BY <1>3, <2>2, SameByte DEF AnyByte
  <2>4. QED BY <2>1, <2>3
<1>7. QED BY <1>2, <1>5, <1>6

LEMMA LineStep ==
  ASSUME UartInv, NEW write \in Byte \cup {None}, Clk(write)
  PROVE  Line!Next
<1> DEFINE sent == IF Pop THEN <<fifo_buffer[fifo_rd_ptr]>> ELSE <<>>
<1>1. TypeOK /\ Control /\ LineHolds /\ Shown
  BY DEF UartInv
<1>2. RxEdge /\ HistoryEdge(write)
  BY DEF Clk
<1>3. fifo_buffer[fifo_rd_ptr] \in AnyByte /\ line \in Seq(AnyByte)
  BY <1>1 DEF TypeOK
<1>4. sent \in {<<>>} \cup {<<b>> : b \in AnyByte}
  BY <1>3
<1>5. uart_rx_done' <=> rx_cnt = Stop
  BY <1>1, <1>2, RxDone
<1>6. CASE Delivers
  <2>1. uart_rx_data' = Head(line) /\ line # <<>>
    BY <1>1, <1>2, <1>6, ByteArrives
  <2>2. uart_rx_done' /\ ~uart_rx_done
    BY <1>1, <1>2, <1>6, RxDone
  <2>3. line' = Tail(line) \o sent
    <3>1. line' = IF Pop THEN Append(Tail(line), fifo_buffer[fifo_rd_ptr]) ELSE Tail(line)
      BY <1>2, <2>1, <2>2 DEF HistoryEdge
    <3>2. Tail(line) \in Seq(AnyByte)
      BY <1>3, <2>1
    <3>3. QED BY <1>3, <3>1, <3>2
  <2>4. Line!Deliver(sent)
    BY <2>1, <2>2, <2>3 DEF Line!Deliver
  <2>5. QED BY <1>4, <2>4 DEF Line!Next
<1>7. CASE ~Delivers
  <2>1. ~(uart_rx_done' /\ ~uart_rx_done)
    BY <1>1, <1>2, <1>7, RxDone
  <2>2. line' = line \o sent
    <3>1. line' = IF Pop THEN Append(line, fifo_buffer[fifo_rd_ptr]) ELSE line
      BY <1>2, <2>1 DEF HistoryEdge
    <3>2. QED BY <1>3, <3>1
  <2>3. ASSUME uart_rx_done' PROVE uart_rx_done /\ uart_rx_data' = uart_rx_data
    <3>1. rx_cnt = Stop /\ uart_rx_done
      BY <1>5, <2>1, <2>3
    <3>2. uart_rx_data = uart_rx_data_reg
      BY <1>1, <3>1 DEF Shown
    <3>3. QED BY <1>2, <3>1, <3>2 DEF RxEdge
  <2>4. got' \in {got, None}
    BY <2>3 DEF got
  <2>5. Line!Quiet(sent)
    BY <2>2, <2>4 DEF Line!Quiet, got
  <2>6. QED BY <1>4, <2>5 DEF Line!Next
<1>8. QED BY <1>6, <1>7

(* Every byte taken from the FIFO comes out of the receiver, once,         *)
(* unchanged and in order, for every number of clocks per bit from 5 up:   *)
(* the transmitter, uart_rx and the line between them implement the        *)
(* ByteChannel.                                                            *)
THEOREM UartLoopbackIsReliable == Spec => LoopbackIsReliable
<1>1. Init => Line!Init
  BY DEF Init, Line!Init
<1>2. UartInv /\ [Next]_vars => [Line!Next]_<<line, got>>
  BY LineStep DEF Next, vars, rxVars, got
<1>3. QED BY <1>1, <1>2, UartAlways, PTL DEF Spec, LoopbackIsReliable, Line!Spec, got

-----------------------------------------------------------------------------
(* The slots of the FIFO, counted from the oldest byte.                    *)
Slot(p, j) == (p + j) % FIFO_DEPTH

LEMMA SlotIs ==
  ASSUME NEW p \in 0 .. FIFO_DEPTH - 1, NEW j \in 0 .. FIFO_DEPTH
  PROVE  Slot(p, j) = IF p + j < FIFO_DEPTH THEN p + j ELSE p + j - FIFO_DEPTH
<1>1. FIFO_DEPTH \in Nat \ {0, 1}
  BY UartAssumption
<1>2. CASE p + j < FIFO_DEPTH
  BY <1>1, <1>2 DEF Slot
<1>3. CASE p + j >= FIFO_DEPTH
  <2> DEFINE r == (p + j) % FIFO_DEPTH
             q == (p + j) \div FIFO_DEPTH
  <2>1. p + j = FIFO_DEPTH * q + r /\ r \in 0 .. FIFO_DEPTH - 1 /\ q \in Int
    BY <1>1
  <2> HIDE DEF r, q
  <2>2. p + j \in FIFO_DEPTH .. 2 * FIFO_DEPTH - 1
    BY <1>1, <1>3
  <2>3. q = 1
    <3>1. CASE q <= 0
      <4>1. FIFO_DEPTH * q <= 0
        BY <1>1, <2>1, <3>1
      <4>2. QED BY <1>1, <2>1, <2>2, <4>1
    <3>2. CASE q >= 2
      <4>1. FIFO_DEPTH * q >= 2 * FIFO_DEPTH
        BY <1>1, <2>1, <3>2
      <4>2. QED BY <1>1, <2>1, <2>2, <4>1
    <3>3. QED BY <2>1, <3>1, <3>2
  <2>4. r = p + j - FIFO_DEPTH
    BY <1>1, <2>1, <2>3
  <2>5. QED BY <1>1, <1>3, <2>4 DEF Slot, r
<1>4. QED BY <1>1, <1>2, <1>3

LEMMA SlotAfter ==
  ASSUME NEW p \in 0 .. FIFO_DEPTH - 1, NEW j \in 0 .. FIFO_DEPTH - 1
  PROVE  /\ Slot(p, j) \in 0 .. FIFO_DEPTH - 1
         /\ Slot(p, 1) \in 0 .. FIFO_DEPTH - 1
         /\ Slot(Slot(p, 1), j) = Slot(p, j + 1)
         /\ Slot(Slot(p, j), 1) = Slot(p, j + 1)
<1>1. FIFO_DEPTH \in Nat \ {0, 1}
  BY UartAssumption
<1>2. Slot(p, j) = IF p + j < FIFO_DEPTH THEN p + j ELSE p + j - FIFO_DEPTH
  BY <1>1, SlotIs
<1>3. Slot(p, 1) = IF p + 1 < FIFO_DEPTH THEN p + 1 ELSE p + 1 - FIFO_DEPTH
  BY <1>1, SlotIs
<1>4. Slot(p, j + 1) = IF p + (j + 1) < FIFO_DEPTH THEN p + (j + 1) ELSE p + (j + 1) - FIFO_DEPTH
  BY <1>1, SlotIs
<1>5. Slot(p, j) \in 0 .. FIFO_DEPTH - 1 /\ Slot(p, 1) \in 0 .. FIFO_DEPTH - 1
  BY <1>1, <1>2, <1>3
<1>6. \A s \in 0 .. FIFO_DEPTH - 1, i \in 0 .. FIFO_DEPTH :
        Slot(s, i) = IF s + i < FIFO_DEPTH THEN s + i ELSE s + i - FIFO_DEPTH
  BY SlotIs
<1>7. Slot(Slot(p, 1), j) = Slot(p, j + 1)
  BY <1>1, <1>3, <1>4, <1>5, <1>6
<1>8. Slot(Slot(p, j), 1) = Slot(p, j + 1)
  BY <1>1, <1>2, <1>4, <1>5, <1>6
<1>9. QED BY <1>5, <1>7, <1>8

LEMMA SlotsDiffer ==
  ASSUME NEW p \in 0 .. FIFO_DEPTH - 1, NEW j \in 0 .. FIFO_DEPTH - 1,
         NEW k \in 0 .. FIFO_DEPTH - 1, j < k
  PROVE  Slot(p, j) # Slot(p, k)
<1>1. FIFO_DEPTH \in Nat \ {0, 1}
  BY UartAssumption
<1>2. QED BY <1>1, SlotIs

(* While at most one decrement has been missed, fifo_cnt is the number of  *)
(* bytes kept, with the one on its way to the shifter and the missed one,  *)
(* and the write pointer is that many slots after the oldest byte.         *)
Balance == Len(pending) + (IF uart_tx_en THEN 1 ELSE 0) + lost = fifo_cnt
Kept == \A k \in 1 .. Len(pending) : fifo_buffer[Slot(fifo_rd_ptr, k - 1)] = pending[k]
NextFree == fifo_wr_ptr = Slot(fifo_rd_ptr, Len(pending))
Ring == lost <= 1 => Balance /\ Kept /\ NextFree

LEMMA RingShowsFifo ==
  ASSUME TypeOK, Ring
  PROVE  FifoIntact
<1>1. fifo_rd_ptr \in 0 .. FIFO_DEPTH - 1 /\ FIFO_DEPTH \in Nat
  BY UartAssumption DEF TypeOK
<1>2. \A k \in 1 .. Len(pending) : fifo_rd_ptr + (k - 1) = fifo_rd_ptr + k - 1
  BY <1>1 DEF TypeOK
<1>3. Kept => \A k \in 1 .. Len(pending) :
                 fifo_buffer[(fifo_rd_ptr + k - 1) % FIFO_DEPTH] = pending[k]
  BY <1>2 DEF Kept, Slot
<1>4. QED BY <1>3 DEF Ring, FifoIntact, Balance

LEMMA RingStep ==
  ASSUME TypeOK, Ring, NEW write \in Byte \cup {None}, Clk(write)
  PROVE  Ring'
<1>1. FifoEdge(write) /\ HistoryEdge(write)
  BY DEF Clk
<1>2. /\ FIFO_DEPTH \in Nat \ {0, 1} /\ fifo_rd_ptr \in 0 .. FIFO_DEPTH - 1
      /\ fifo_cnt \in 0 .. FIFO_DEPTH /\ lost \in 0 .. 2 /\ pending \in Seq(Byte)
      /\ fifo_buffer \in [0 .. FIFO_DEPTH - 1 -> AnyByte]
      /\ uart_tx_en \in BOOLEAN
  BY UartAssumption DEF TypeOK
<1> DEFINE v == cpu_write_valid(write)
           rest == IF Pop THEN Tail(pending) ELSE pending
           n == Len(pending)
<1> SUFFICES ASSUME lost' <= 1 PROVE Balance' /\ Kept' /\ NextFree'
  BY DEF Ring
<1>3. lost <= 1 /\ lost' = IF v /\ uart_tx_en THEN lost + 1 ELSE lost
  BY <1>1, <1>2 DEF HistoryEdge
<1>4. Balance /\ Kept /\ NextFree /\ n \in Nat
  BY <1>2, <1>3 DEF Ring
<1>5. Pop => ~uart_tx_en /\ n >= 1
  BY <1>2, <1>3, <1>4 DEF Pop, uart_tx_busy, Balance
<1>6. v => n < FIFO_DEPTH /\ write \in Byte
  BY <1>2, <1>3, <1>4 DEF cpu_write_valid, Balance
<1>7. n <= FIFO_DEPTH
  BY <1>2, <1>3, <1>4 DEF Balance
<1>8. /\ rest \in Seq(Byte) /\ Len(rest) = IF Pop THEN n - 1 ELSE n
      /\ \A k \in 1 .. Len(rest) : rest[k] = pending[IF Pop THEN k + 1 ELSE k]
  <2>1. CASE Pop
    BY <1>2, <1>5, <2>1
  <2>2. CASE ~Pop
    BY <1>2, <2>2
  <2>3. QED BY <2>1, <2>2
<1>9. pending' = IF v THEN Append(rest, write) ELSE rest
  BY <1>1, <1>2, <1>5 DEF HistoryEdge
<1>10. Len(pending') = IF v THEN Len(rest) + 1 ELSE Len(rest)
  BY <1>6, <1>8, <1>9
<1>11. uart_tx_en' <=> Pop
  BY <1>1 DEF FifoEdge
<1>12. Balance'
  <2>1. fifo_cnt' = IF v THEN fifo_cnt + 1
                    ELSE IF uart_tx_en /\ fifo_cnt > 0 THEN fifo_cnt - 1 ELSE fifo_cnt
    BY <1>1 DEF FifoEdge
  <2>2. Len(pending') = n + (IF v THEN 1 ELSE 0) - (IF Pop THEN 1 ELSE 0)
    <3>1. Len(rest) = IF Pop THEN n - 1 ELSE n
      BY <1>8
    <3>2. n \in Nat
      BY <1>4
    <3> HIDE DEF rest, v, n
    <3>3. QED BY <1>10, <3>1, <3>2
  <2>3. QED BY <1>2, <1>3, <1>4, <1>5, <1>11, <2>1, <2>2, SMTT(30) DEF Balance
<1>13. fifo_rd_ptr' = IF Pop THEN Slot(fifo_rd_ptr, 1) ELSE fifo_rd_ptr
  BY <1>1 DEF FifoEdge, Slot
<1>14. \A j \in 0 .. FIFO_DEPTH - 1 :
         Slot(fifo_rd_ptr', j) = Slot(fifo_rd_ptr, IF Pop THEN j + 1 ELSE j)
  BY <1>2, <1>13, SlotAfter
<1>15. Len(rest) \in 0 .. FIFO_DEPTH /\ (v \/ Pop => Len(rest) < FIFO_DEPTH)
  BY <1>2, <1>4, <1>5, <1>6, <1>7, <1>8
<1>16. Slot(fifo_rd_ptr', Len(rest)) = fifo_wr_ptr
  <2>1. CASE Pop
    BY <1>2, <1>4, <1>8, <1>14, <1>15, <2>1 DEF NextFree
  <2>2. CASE ~Pop
    BY <1>2, <1>4, <1>8, <1>13, <2>2 DEF NextFree
  <2>3. QED BY <2>1, <2>2
<1>17. fifo_rd_ptr' \in 0 .. FIFO_DEPTH - 1
  BY <1>2, <1>13, SlotAfter
<1>18. NextFree'
  <2>1. CASE v
    <3>1. fifo_wr_ptr' = Slot(fifo_wr_ptr, 1)
      BY <1>1, <2>1 DEF FifoEdge, Slot
    <3>2. Slot(fifo_rd_ptr', Len(rest) + 1) = Slot(fifo_wr_ptr, 1)
      <4>1. Len(rest) \in 0 .. FIFO_DEPTH - 1
        BY <1>2, <1>15, <2>1
      <4>2. PICK p \in 0 .. FIFO_DEPTH - 1, j \in 0 .. FIFO_DEPTH - 1 :
              p = fifo_rd_ptr' /\ j = Len(rest)
        BY <1>17, <4>1
      <4>3. Slot(p, j) = fifo_wr_ptr
        BY <1>16, <4>2
      <4>4. Slot(Slot(p, j), 1) = Slot(p, j + 1)
        BY SlotAfter
      <4>5. QED BY <4>2, <4>3, <4>4
    <3>3. QED BY <1>10, <2>1, <3>1, <3>2 DEF NextFree, Slot
  <2>2. CASE ~v
    <3>1. fifo_wr_ptr' = fifo_wr_ptr
      BY <1>1, <2>2 DEF FifoEdge
    <3>2. QED BY <1>10, <1>16, <2>2, <3>1 DEF NextFree, Slot
  <2>3. QED BY <2>1, <2>2
<1>19. \A k \in 1 .. Len(rest) : fifo_buffer[Slot(fifo_rd_ptr', k - 1)] = rest[k]
  <2> SUFFICES ASSUME NEW k \in 1 .. Len(rest)
               PROVE  fifo_buffer[Slot(fifo_rd_ptr', k - 1)] = rest[k]
    OBVIOUS
  <2>1. CASE Pop
    <3>1. Slot(fifo_rd_ptr', k - 1) = Slot(fifo_rd_ptr, (k + 1) - 1) /\ k + 1 \in 1 .. n
      BY <1>2, <1>4, <1>8, <1>14, <1>15, <2>1
    <3>2. QED BY <1>4, <1>8, <2>1, <3>1 DEF Kept
  <2>2. CASE ~Pop
    BY <1>4, <1>8, <1>13, <2>2 DEF Kept
  <2>3. QED BY <2>1, <2>2
<1>20. Kept'
  <2>1. CASE v
    <3>1. fifo_buffer' = [fifo_buffer EXCEPT ![fifo_wr_ptr] = write]
      BY <1>1, <2>1 DEF FifoEdge
    <3> SUFFICES ASSUME NEW k \in 1 .. Len(pending')
                 PROVE  fifo_buffer'[Slot(fifo_rd_ptr', k - 1)] = pending'[k]
      BY DEF Kept, Slot
    <3>2. k - 1 \in 0 .. FIFO_DEPTH - 1 /\ Len(rest) \in 0 .. FIFO_DEPTH - 1
      BY <1>2, <1>10, <1>15, <2>1
    <3>3. Slot(fifo_rd_ptr', k - 1) \in 0 .. FIFO_DEPTH - 1
      BY <1>17, <3>2, SlotAfter
    <3>4. CASE k = Len(rest) + 1
      <4>1. k - 1 = Len(rest)
        BY <1>8, <1>15, <3>4
      <4>2. pending'[k] = write
        BY <1>6, <1>8, <1>9, <2>1, <3>4
      <4>3. QED BY <1>2, <1>16, <3>1, <3>3, <4>1, <4>2
    <3>5. CASE k # Len(rest) + 1
      <4>1. k \in 1 .. Len(rest) /\ k - 1 < Len(rest)
        BY <1>10, <1>15, <2>1, <3>5
      <4>2. Slot(fifo_rd_ptr', k - 1) # fifo_wr_ptr
        BY <1>16, <1>17, <3>2, <4>1, SlotsDiffer
      <4>3. pending'[k] = rest[k]
        BY <1>6, <1>8, <1>9, <2>1, <4>1
      <4>4. QED BY <1>2, <1>19, <3>1, <3>3, <4>1, <4>2, <4>3
    <3>6. QED BY <3>4, <3>5
  <2>2. CASE ~v
    <3>1. fifo_buffer' = fifo_buffer /\ pending' = rest
      BY <1>1, <1>9, <2>2 DEF FifoEdge
    <3>2. QED BY <1>19, <3>1 DEF Kept, Slot
  <2>3. QED BY <2>1, <2>2
<1>21. QED BY <1>12, <1>18, <1>20

(* The FIFO holds the bytes accepted and not yet sent, in order, and never *)
(* overwrites one, as long as at most one decrement has been missed.       *)
THEOREM UartFifoIntact == Spec => []FifoIntact
<1>1. Init => Ring
  <2> SUFFICES ASSUME Init PROVE Ring
    OBVIOUS
  <2>1. FIFO_DEPTH \in Nat \ {0, 1} /\ Len(pending) = 0
    BY UartAssumption DEF Init
  <2>2. Slot(fifo_rd_ptr, 0) = 0
    BY <2>1, SlotIs DEF Init
  <2>3. QED BY <2>1, <2>2 DEF Init, Ring, Balance, Kept, NextFree
<1>2. TypeOK /\ Ring /\ [Next]_vars => Ring'
  <2>1. ASSUME Ring, UNCHANGED vars PROVE Ring'
    BY <2>1 DEF vars, fifoVars, Ring, Balance, Kept, NextFree, Slot
  <2>2. QED BY <2>1, RingStep DEF Next
<1>3. TypeOK /\ Ring => FifoIntact
  BY RingShowsFifo
<1>4. QED BY <1>1, <1>2, <1>3, UartTypesOK, PTL DEF Spec
=============================================================================
