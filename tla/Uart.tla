-------------------------------- MODULE Uart --------------------------------
(***************************************************************************)
(* Console output (kernel/uart.c): uartputc() fills a ring that uartstart()*)
(* moves to the UART, called by the writer and by the transmit interrupt;  *)
(* uartputc_sync() (printf, echo) writes the UART from other CPUs without  *)
(* the lock.  The UART has a FIFO, which uartinit() turns on, but reports  *)
(* itself idle only when that is empty.  The ring's indices are uint64 and *)
(* do not wrap in practice; characters are named by the order of storing.  *)
(* Once a CPU has panicked, the others stop where they next put one.       *)
(***************************************************************************)
EXTENDS Integers, Sequences, FiniteSets

CONSTANTS TxWriters,            \* processes in consolewrite()
          SyncCpus,             \* CPUs that call uartputc_sync()
          UART_TX_BUF_SIZE,
          FifoDepth,            \* of the UART, 16 in the hardware
          MaxPut, MaxSync,      \* bounds on the characters put by each way
          Intr,                 \* stands for uartintr() among the callers
          NoOne                 \* uart_tx_lock is not held

ASSUME UartAssumption ==
  /\ UART_TX_BUF_SIZE \in Nat \ {0} /\ MaxPut \in Nat
  /\ FifoDepth > Cardinality(SyncCpus)
  /\ Intr \notin TxWriters /\ NoOne \notin TxWriters \cup {Intr}

VARIABLES tx_buf, tx_w, tx_r,
          txlock,               \* holder of uart_tx_lock
          tx,                   \* writer or Intr -> where it is
          sync,                 \* CPU -> where it is in uartputc_sync()
          synced,               \* characters put by uartputc_sync()
          fifo,                 \* in the UART; 0 is a character put by sync
          txirq,                \* the UART wants to be given more
          sent,                 \* characters of the ring that left the UART
          panicked              \* set at the end of panic()
uartVars == <<tx_buf, tx_w, tx_r, txlock, tx, sync, synced, fifo, txirq, sent, panicked>>

Callers == TxWriters \cup {Intr}

UartInit ==
  /\ tx_buf = [i \in 0 .. UART_TX_BUF_SIZE - 1 |-> 0]
  /\ tx_w = 0 /\ tx_r = 0
  /\ txlock = NoOne
  /\ tx = [p \in Callers |-> "idle"]
  /\ sync = [c \in SyncCpus |-> "idle"]
  /\ synced = 0
  /\ fifo = <<>> /\ txirq = FALSE /\ sent = <<>>
  /\ panicked = FALSE

-----------------------------------------------------------------------------
TxFull == tx_w = tx_r + UART_TX_BUF_SIZE

(* A write to THR with no room in the FIFO is lost. *)
WriteTHR(c) == fifo' = IF Len(fifo) < FifoDepth THEN Append(fifo, c) ELSE fifo

PutCall(p) ==
  /\ tx[p] = "idle" /\ p \in TxWriters
  /\ tx' = [tx EXCEPT ![p] = "put"]
  /\ UNCHANGED <<tx_buf, tx_w, tx_r, txlock, sync, synced, fifo, txirq, sent, panicked>>

(* uartputc() with the lock: stop for good if a CPU has panicked; else     *)
(* wait for room, store, then uartstart().                                 *)
PutFreeze(p) ==
  /\ tx[p] = "put" /\ txlock = NoOne
  /\ panicked
  /\ txlock' = p
  /\ tx' = [tx EXCEPT ![p] = "frozen"]
  /\ UNCHANGED <<tx_buf, tx_w, tx_r, sync, synced, fifo, txirq, sent, panicked>>

MayPut(p) == txlock = NoOne /\ ((tx[p] = "put" /\ ~panicked) \/ tx[p] = "woken")

PutFull(p) ==
  /\ MayPut(p)
  /\ TxFull
  /\ tx' = [tx EXCEPT ![p] = "asleep"]
  /\ UNCHANGED <<tx_buf, tx_w, tx_r, txlock, sync, synced, fifo, txirq, sent, panicked>>

PutChar(p) ==
  /\ MayPut(p)
  /\ ~TxFull /\ tx_w < MaxPut
  /\ txlock' = p
  /\ tx_buf' = [tx_buf EXCEPT ![tx_w % UART_TX_BUF_SIZE] = tx_w + 1]
  /\ tx_w' = tx_w + 1
  /\ tx' = [tx EXCEPT ![p] = "start"]
  /\ UNCHANGED <<tx_r, sync, synced, fifo, txirq, sent, panicked>>

\* bug: uartintr() handles the input only, and the interrupt comes again
UartIntrInputOnly ==
  /\ txirq /\ tx[Intr] = "idle" /\ txlock = NoOne
  /\ UNCHANGED uartVars
(* uartintr(), after it has handled the input *)
UartIntr ==
  /\ txirq /\ tx[Intr] = "idle" /\ txlock = NoOne
  /\ txirq' = FALSE
  /\ txlock' = Intr
  /\ tx' = [tx EXCEPT ![Intr] = "start"]
  /\ UNCHANGED <<tx_buf, tx_w, tx_r, sync, synced, fifo, sent, panicked>>

(* uartstart(): stop when there is nothing to send or the UART is busy ... *)
StartStop(p) ==
  /\ tx[p] = "start"
  /\ tx_w = tx_r \/ fifo # <<>>
  /\ txlock' = NoOne
  /\ tx' = [tx EXCEPT ![p] = "idle"]
  /\ UNCHANGED <<tx_buf, tx_w, tx_r, sync, synced, fifo, txirq, sent, panicked>>

\* bug: LSR is not looked at
StartBlind(p) ==
  /\ tx[p] = "start"
  /\ tx_w # tx_r
  /\ tx' = [tx EXCEPT ![p] = "send"]
  /\ UNCHANGED <<tx_buf, tx_w, tx_r, txlock, sync, synced, fifo, txirq, sent, panicked>>
StartIdle(p) ==
  /\ tx[p] = "start"
  /\ tx_w # tx_r /\ fifo = <<>>
  /\ tx' = [tx EXCEPT ![p] = "send"]
  /\ UNCHANGED <<tx_buf, tx_w, tx_r, txlock, sync, synced, fifo, txirq, sent, panicked>>

\* bug: no wakeup(&uart_tx_r)
StartSendSilent(p) ==
  /\ tx[p] = "send"
  /\ tx_r' = tx_r + 1
  /\ WriteTHR(tx_buf[tx_r % UART_TX_BUF_SIZE])
  /\ tx' = [tx EXCEPT ![p] = "start"]
  /\ UNCHANGED <<tx_buf, tx_w, txlock, sync, synced, txirq, sent, panicked>>
(* ... else send one, making room, wake the writers and look again. *)
StartSend(p) ==
  /\ tx[p] = "send"
  /\ tx_r' = tx_r + 1
  /\ WriteTHR(tx_buf[tx_r % UART_TX_BUF_SIZE])
  /\ tx' = [q \in Callers |-> IF q = p THEN "start"
                              ELSE IF tx[q] = "asleep" THEN "woken" ELSE tx[q]]
  /\ UNCHANGED <<tx_buf, tx_w, txlock, sync, synced, txirq, sent, panicked>>

(* uartputc_sync(): stop if a CPU has panicked; else spin until the UART   *)
(* is idle, then write.                                                    *)
SyncCall(c) ==
  /\ sync[c] = "idle"
  /\ synced < MaxSync /\ synced' = synced + 1
  /\ sync' = [sync EXCEPT ![c] = IF panicked THEN "frozen" ELSE "spin"]
  /\ UNCHANGED <<tx_buf, tx_w, tx_r, txlock, tx, fifo, txirq, sent, panicked>>

SyncIdle(c) ==
  /\ sync[c] = "spin" /\ fifo = <<>>
  /\ sync' = [sync EXCEPT ![c] = "write"]
  /\ UNCHANGED <<tx_buf, tx_w, tx_r, txlock, tx, synced, fifo, txirq, sent, panicked>>

SyncWrite(c) ==
  /\ sync[c] = "write"
  /\ WriteTHR(0)
  /\ sync' = [sync EXCEPT ![c] = "idle"]
  /\ UNCHANGED <<tx_buf, tx_w, tx_r, txlock, tx, synced, txirq, sent, panicked>>

(* The UART sends a character; it interrupts when it has no more. *)
Transmit ==
  /\ fifo # <<>>
  /\ fifo' = Tail(fifo)
  /\ sent' = IF Head(fifo) = 0 THEN sent ELSE Append(sent, Head(fifo))
  /\ txirq' = (txirq \/ fifo' = <<>>)
  /\ UNCHANGED <<tx_buf, tx_w, tx_r, txlock, tx, sync, synced, panicked>>

(* A CPU elsewhere in the kernel panics; those that stopped loop. *)
Panic ==
  /\ ~panicked /\ panicked' = TRUE
  /\ UNCHANGED <<tx_buf, tx_w, tx_r, txlock, tx, sync, synced, fifo, txirq, sent>>
FrozenLoop ==
  /\ (\E p \in TxWriters : tx[p] = "frozen") \/ (\E c \in SyncCpus : sync[c] = "frozen")
  /\ UNCHANGED uartVars

(* Nothing more to send; writers may be waiting to put the next. *)
UartQuiet == tx_w = MaxPut /\ synced = MaxSync /\ UNCHANGED uartVars

Start(p) == StartStop(p) \/ StartIdle(p) \/ StartSend(p)

UartNext ==
  \/ \E p \in TxWriters : PutCall(p) \/ PutFreeze(p) \/ PutFull(p) \/ PutChar(p)
  \/ UartIntr
  \/ \E p \in Callers : Start(p)
  \/ \E c \in SyncCpus : SyncCall(c) \/ SyncIdle(c) \/ SyncWrite(c)
  \/ Transmit
  \/ Panic
  \/ FrozenLoop
  \/ UartQuiet

(* CPUs run, the UART sends, and its interrupt is taken even though others *)
(* take the lock in between.  The kernel does not print for ever (MaxSync):*)
(* if it did, the ring might never find the UART idle.                     *)
UartFairness ==
  /\ \A p \in Callers : WF_uartVars(Start(p))
  /\ SF_uartVars(UartIntr)
  /\ WF_uartVars(Transmit)

UartSpec == UartInit /\ [][UartNext]_uartVars /\ UartFairness
-----------------------------------------------------------------------------
(* The characters of the ring leave the UART in the order they were put    *)
(* and none is lost, whatever uartputc_sync() does meanwhile without the   *)
(* lock: between a look at LSR and the write to THR others may write, and  *)
(* the FIFO has room for all of them (uart.c:122-124, 142-155).            *)
OutputInOrder ==
  LET chars == SelectSeq(fifo, LAMBDA c : c # 0)
  IN  /\ sent \o chars = [i \in 1 .. Len(sent) + Len(chars) |-> i]
      /\ tx_r = Len(sent) + Len(chars)
      /\ tx_w - tx_r \in 0 .. UART_TX_BUF_SIZE

(* A writer sleeps in uartputc() only while the ring is full (uart.c:95).  *)
NoWriterLeftAsleep ==
  txlock = NoOne => \A p \in TxWriters : tx[p] = "asleep" => TxFull

(* What was put is sent, unless a CPU panics: a busy UART always           *)
(* interrupts later, and nobody returns from uartstart() leaving the ring  *)
(* to no one (uart.c:142-147).                                             *)
OutputIsSent == tx_w # Len(sent) ~> tx_w = Len(sent) \/ panicked
=============================================================================
