------------------------------- MODULE Serial -------------------------------
(***************************************************************************)
(* The receiving side of a serial device: serial.c with its receive FIFO,  *)
(* filled by the interrupt handler byte by byte or by a DMA transfer; the  *)
(* reference count of device.c; and the shell of shell.c, which waits on a *)
(* semaphore for the handler to report bytes.                              *)
(*                                                                         *)
(* Before the shell starts, the console has opened the device without a    *)
(* receive mode, and nobody else has: bytes that came in before            *)
(* rx_indicate is set are reported with the next one only.  Openers do not *)
(* overlap, because rt_device_open does not lock, and the last one closes  *)
(* the device when the line is quiet.                                      *)
(***************************************************************************)
EXTENDS Integers, SequencesExt, FiniteSets

CONSTANTS
  Byte,         \* the values of a byte that is received
  Zero,         \* the byte that rt_memset writes
  Bufsz,        \* config.bufsz
  HwSize,       \* bound: the bytes in the receiver of the UART
  MaxSem,       \* bound: the value of rx_sem
  Others,       \* other threads that open and close the device
  AnyFlags      \* whether they also open it without a receive mode

ConstantsOK == Bufsz \in Nat \ {0, 1}

Mode == {"INT_RX", "DMA_RX"}

VARIABLES
  mode,     \* the receive mode the device supports
  dev,      \* ref_count, open_flag, the receive FIFO, whether the interrupt is enabled
            \* and whether rx_indicate is set
  hw,       \* the bytes in the receiver
  shell,    \* where the shell is, and the value of rx_sem
  users     \* history: the threads that have the device open

vars == <<mode, dev, hw, shell, users>>

Slot == 0 .. Bufsz - 1

NoFifo == [buffer |-> <<>>, put |-> 0, get |-> 0, full |-> FALSE]

\* rt_hw_serial_register, and rt_device_open by the console.
Init ==
  /\ mode \in Mode
  /\ dev = [ref |-> 1, flag |-> "POLL", rx |-> NoFifo, irq |-> FALSE, indicate |-> FALSE]
  /\ hw = <<>>
  /\ shell = [at |-> "start", sem |-> 0]
  /\ users = {"console"}

-----------------------------------------------------------------------------
\* The FIFO that rt_serial_open allocates.
NewFifo == [buffer |-> [i \in Slot |-> Zero], put |-> 0, get |-> 0, full |-> FALSE]

Wrap(i) == IF i >= Bufsz THEN 0 ELSE i

\* A byte of rt_hw_serial_isr: in a full FIFO it takes the place of the oldest one.
IntPut(f, b) ==
  LET p == Wrap(f.put + 1)
  IN  [f EXCEPT !.buffer[f.put] = b, !.put = p, !.get = IF p = f.get THEN Wrap(f.get + 1) ELSE @]

\* rt_dma_calc_recved_len.
Received(f) ==
  CASE f.put > f.get -> f.put - f.get
    [] f.put < f.get -> Bufsz - (f.get - f.put)
    [] OTHER -> IF f.full THEN Bufsz ELSE 0

\* The DMA controller has written a block round the buffer, from the write index on.
Transferred(f, block) ==
  [i \in Slot |->
     LET n == ((i - f.put + Bufsz) % Bufsz) + 1 IN IF n <= Len(block) THEN block[n] ELSE f.buffer[i]]

\* rt_dma_recv_update_put_index: a write index that reaches the read index takes it
\* along, and the FIFO is full.
DmaPut(f, block) ==
  LET sum    == f.put + Len(block)
      p      == IF f.get <= f.put \/ sum >= f.get THEN (IF sum >= Bufsz THEN sum % Bufsz ELSE sum) ELSE sum
      over   == IF f.get <= f.put THEN sum >= Bufsz /\ p >= f.get ELSE sum >= f.get
      g      == IF over THEN p ELSE f.get
  IN  [buffer |-> Transferred(f, block), put |-> p, get |-> Wrap(g), full |-> f.full \/ over]

Smaller(m, n) == IF m < n THEN m ELSE n

\* _serial_dma_rx with rt_dma_recv_update_get_index, which leaves an index of Bufsz.
DmaGet(f, n) ==
  LET len == Smaller(n, Received(f))
      g   == f.get + len
  IN  [f EXCEPT !.get = IF g > Bufsz THEN g % Bufsz ELSE g, !.full = f.full /\ len = 0]

\* The bytes that _serial_dma_rx copies: to the end of the buffer and on from its
\* beginning.
DmaData(f, n) ==
  LET len == Smaller(n, Received(f))
  IN  [i \in 1 .. len |->
         f.buffer[IF i <= Bufsz - f.get THEN f.get + i - 1 ELSE i - (Bufsz - f.get) - 1]]

\* One round of the loop of _serial_int_rx.
IntGet(f) == IF f.get = f.put THEN f ELSE [f EXCEPT !.get = Wrap(@ + 1)]

-----------------------------------------------------------------------------
\* rt_device_open with rt_serial_open: the FIFO is allocated once, with its interrupt
\* enabled; the flags are those of the last one who opened the device.
Opened(d, flag) ==
  LET new == flag \in Mode /\ d.rx = NoFifo
  IN  [d EXCEPT !.ref  = @ + 1,
                !.flag = flag,
                !.rx   = IF new THEN NewFifo ELSE @,
                !.irq  = @ \/ new]

\* rt_device_close, with rt_serial_close for the last one.
Closed(d) ==
  IF d.ref > 1 THEN [d EXCEPT !.ref = @ - 1]
  ELSE IF d.flag \in Mode
       THEN [d EXCEPT !.ref = 0, !.flag = "CLOSE", !.rx = NoFifo, !.irq = FALSE]
       ELSE [d EXCEPT !.ref = 0, !.flag = "CLOSE"]

\* A byte comes in over the line.
Arrive(b) ==
  /\ Len(hw) < HwSize
  /\ hw' = Append(hw, b)
  /\ UNCHANGED <<mode, dev, shell, users>>

\* finsh_rx_ind, if it is set.
Indicated == IF dev.indicate THEN [shell EXCEPT !.sem = @ + 1] ELSE shell

\* rt_hw_serial_isr with RT_SERIAL_EVENT_RX_IND: the receiver is emptied and the shell
\* is told.
rt_hw_serial_isr ==
  /\ mode = "INT_RX" /\ dev.irq /\ hw # <<>> /\ shell.sem < MaxSem
  /\ dev' = [dev EXCEPT !.rx = FoldLeft(IntPut, @, hw)]
  /\ hw' = <<>>
  /\ shell' = Indicated
  /\ UNCHANGED <<mode, users>>

\* rt_hw_serial_isr with RT_SERIAL_EVENT_RX_DMADONE: a transfer of what came in.
DmaDone ==
  /\ mode = "DMA_RX" /\ dev.irq /\ hw # <<>> /\ shell.sem < MaxSem
  /\ dev' = [dev EXCEPT !.rx = DmaPut(@, hw)]
  /\ hw' = <<>>
  /\ shell' = Indicated
  /\ UNCHANGED <<mode, users>>

Open(u) ==
  /\ u \notin users /\ "shell" \in users
  /\ \E flag \in {mode} \cup (IF AnyFlags THEN {"POLL"} ELSE {}) : dev' = Opened(dev, flag)
  /\ users' = users \cup {u}
  /\ UNCHANGED <<mode, hw, shell>>

Close(u) ==
  /\ u \in users
  /\ dev' = Closed(dev)
  /\ users' = users \ {u}
  /\ UNCHANGED <<mode, hw, shell>>

\* finsh_thread_entry: rx_indicate is set before the device is opened.
ShellSets ==
  /\ shell.at = "start"
  /\ shell' = [shell EXCEPT !.at = "open"]
  /\ dev' = [dev EXCEPT !.indicate = TRUE]
  /\ UNCHANGED <<mode, hw, users>>

ShellOpens ==
  /\ shell.at = "open"
  /\ shell' = [shell EXCEPT !.at = "wait"]
  /\ dev' = Opened(dev, mode)
  /\ users' = users \cup {"shell"}
  /\ UNCHANGED <<mode, hw>>

ShellTakes ==
  /\ shell.at = "wait" /\ shell.sem > 0
  /\ shell' = [at |-> "read", sem |-> shell.sem - 1]
  /\ UNCHANGED <<mode, dev, hw, users>>

\* rt_serial_read of one byte goes by the flags of the device; without a byte the shell
\* waits again.
Empty ==
  CASE dev.flag = "INT_RX" -> dev.rx.get = dev.rx.put
    [] dev.flag = "DMA_RX" -> Received(dev.rx) = 0
    [] OTHER -> hw = <<>>

ShellReads ==
  /\ shell.at = "read"
  /\ shell' = IF Empty THEN [shell EXCEPT !.at = "wait"] ELSE shell
  /\ dev' = CASE Empty -> dev
              [] dev.flag = "INT_RX" -> [dev EXCEPT !.rx = IntGet(@)]
              [] dev.flag = "DMA_RX" -> [dev EXCEPT !.rx = DmaGet(@, 1)]
              [] OTHER -> dev
  /\ hw' = IF ~Empty /\ dev.flag \notin Mode THEN Tail(hw) ELSE hw
  /\ UNCHANGED <<mode, users>>

\* finsh_set_device to another device: this one is closed and reports no more.  The
\* semaphore is released for the other device now.
ShellLeaves ==
  /\ shell.at = "read"
  /\ shell' = [shell EXCEPT !.at = "away"]
  /\ dev' = [Closed(dev) EXCEPT !.indicate = FALSE]
  /\ users' = users \ {"shell"}
  /\ UNCHANGED <<mode, hw>>

ShellElsewhere ==
  /\ shell.at = "away" /\ shell.sem > 0
  /\ shell' = [shell EXCEPT !.sem = @ - 1]
  /\ UNCHANGED <<mode, dev, hw, users>>

\* finsh_set_device back to this one opens it before rx_indicate is set.  It is a
\* command of the shell, which goes on reading.
ShellComesBack ==
  /\ shell.at = "away"
  /\ shell' = [shell EXCEPT !.at = "set"]
  /\ dev' = Opened(dev, mode)
  /\ users' = users \cup {"shell"}
  /\ UNCHANGED <<mode, hw>>

ShellSetsAgain ==
  /\ shell.at = "set"
  /\ shell' = [shell EXCEPT !.at = "read"]
  /\ dev' = [dev EXCEPT !.indicate = TRUE]
  /\ UNCHANGED <<mode, hw, users>>

Next ==
  \/ \E b \in Byte : Arrive(b)
  \/ rt_hw_serial_isr \/ DmaDone
  \/ \E u \in Others \cup {"console"} : Open(u) \/ Close(u)
  \/ ShellSets \/ ShellOpens \/ ShellTakes \/ ShellReads
  \/ ShellLeaves \/ ShellElsewhere \/ ShellComesBack \/ ShellSetsAgain

Spec == Init /\ [][Next]_vars

-----------------------------------------------------------------------------
\* How many bytes are in the FIFO.  In interrupt mode one slot stays empty.
Stored(f) == IF mode = "DMA_RX" THEN Received(f) ELSE (f.put - f.get + Bufsz) % Bufsz

\* The bytes in the FIFO, oldest first.
Contents(f) == [i \in 1 .. Stored(f) |-> f.buffer[(f.get + i - 1) % Bufsz]]

Newest(n, s) == SubSeq(s, Len(s) - Smaller(n, Len(s)) + 1, Len(s))

\* The FIFO holds the newest bytes in the order they came, wherever its indices are: in
\* interrupt mode the Bufsz - 1 newest; a DMA transfer that fits is appended, one that
\* does not may discard old bytes and nothing else.  A read delivers the oldest bytes.
FifoIsNewest ==
  LET q == Contents(dev.rx)
  IN  dev.rx # NoFifo =>
        /\ mode = "INT_RX" =>
             /\ \A b \in Byte : Contents(IntPut(dev.rx, b)) = Newest(Bufsz - 1, Append(q, b))
             /\ Contents(IntGet(dev.rx)) = IF q = <<>> THEN q ELSE Tail(q)
        /\ mode = "DMA_RX" =>
             /\ \A n \in 1 .. Bufsz : \A block \in [1 .. n -> Byte] :
                  LET r == Contents(DmaPut(dev.rx, block))
                  IN  IsSuffix(r, q \o block) /\ (IF Len(q) + n <= Bufsz THEN r = q \o block ELSE Len(r) >= n)
             /\ \A n \in 1 .. Bufsz :
                  /\ DmaData(dev.rx, n) = SubSeq(q, 1, Smaller(n, Len(q)))
                  /\ Contents(DmaGet(dev.rx, n)) = SubSeq(q, Smaller(n, Len(q)) + 1, Len(q))

\* The FIFO is there, with its interrupt enabled, from the time the shell opens the
\* device on, whoever else opens and closes it; ref_count says how many have it open.
OpenersExact ==
  /\ dev.ref = Cardinality(users)
  /\ dev.irq <=> dev.rx # NoFifo
  /\ "shell" \in users => dev.rx # NoFifo

\* The shell does not sleep beside bytes it has not read.
NoneStranded ==
  shell.at = "wait" /\ shell.sem = 0 /\ dev.rx # NoFifo => Stored(dev.rx) = 0
=============================================================================
