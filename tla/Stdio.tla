------------------------------- MODULE Stdio -------------------------------
(***************************************************************************)
(* Standard input and output on USART1 of stdio.c: EBF_stdoutWrite copies  *)
(* a message into a ring inside a critical section, and the interrupt      *)
(* handler sends it byte by byte and hands received bytes to a listener,   *)
(* which may write as well. The USART itself is modelled by its receive    *)
(* and transmit flags; it works on between any two steps of the handler.   *)
(***************************************************************************)
EXTENDS Integers, Sequences

CONSTANTS
  TxByte,       \* the bytes that are written
  TxCapacity,   \* STDOUT_TX_BUFFER_CAPACITY
  Unsent,       \* what the buffer holds before it is written
  MaxWrite,     \* bound: the calls of EBF_stdoutWrite
  MaxReceived   \* bound: the bytes that come in

ASSUME StdioAssumption == TxCapacity \in Nat \ {0}

VARIABLES
  initialized, stdin_listener,
  buffer, tx_head, tx_tail, tx_count,
  txeie,        \* whether the transmit interrupt is enabled
  txe, dr,      \* the transmit flag, and the last byte written to USART_DR
  rxne, ore,    \* the receive and the overrun flag
  handler,      \* where USART1_IRQHandler is, or "idle"
  status,       \* the receive flags that it read: {} , or some of "rxne", "ore"
  stdio_failed, \* a failed assertion or EAF_ERROR
  request,      \* ghost: the last message to be written, or byte to be sent
  rejected,     \* whether EBF_stdoutWrite returned false for it
  lost,         \* ghost: a received byte was overwritten by the next one
  writes, received   \* ghosts: how many there were

tx_ring == <<buffer, tx_head, tx_tail, tx_count>>
usart == <<txe, rxne, ore, lost>>
irq == <<handler, status>>
reply == <<request, rejected>>
bounds == <<writes, received>>
stdio_vars == <<initialized, stdin_listener, tx_ring, txeie, dr, usart, irq,
                stdio_failed, reply, bounds>>

StdioInit ==
  /\ initialized = FALSE /\ stdin_listener = FALSE
  /\ buffer = [i \in 0 .. TxCapacity - 1 |-> Unsent]
  /\ tx_head = 0 /\ tx_tail = 0 /\ tx_count = 0
  /\ txeie = FALSE /\ txe = TRUE /\ dr = <<>> /\ rxne = FALSE /\ ore = FALSE
  /\ handler = "idle" /\ status = {}
  /\ stdio_failed = FALSE /\ request = [op |-> "init"] /\ rejected = FALSE
  /\ lost = FALSE /\ writes = 0 /\ received = 0

(* The application runs in front of the handler, never during it: USART1   *)
(* has the highest priority. Inside of it the listener runs.               *)
MayEnter == ~stdio_failed /\ handler \in {"idle", "listening"}

(* initUART writes all of USART1_CR1: it disables the transmit interrupt.  *)
BugTxInterrupt(enabled) == txeie' = enabled
TxInterrupt(enabled) == txeie' = (enabled \/ (initialized /\ txeie))

SetStdinListener(on) ==
  /\ MayEnter /\ stdin_listener # on
  /\ initialized' = TRUE /\ stdin_listener' = on
  /\ TxInterrupt(FALSE)
  /\ UNCHANGED <<tx_ring, dr, usart, irq, stdio_failed, reply, bounds>>

(* EBF_stdoutWrite: a message is admitted as a whole or not at all.        *)
BugFits(data) == Len(data) <= TxCapacity - tx_count + 1
Fits(data) == Len(data) <= TxCapacity - tx_count

StdoutWrite(data) ==
  /\ MayEnter /\ writes < MaxWrite /\ writes' = writes + 1
  /\ \/ /\ Len(data) \notin 1 .. TxCapacity
        /\ stdio_failed' = TRUE
        /\ UNCHANGED <<initialized, tx_ring, txeie, reply>>
     \/ /\ Len(data) \in 1 .. TxCapacity /\ Fits(data)
        /\ initialized' = TRUE
        /\ buffer' = [k \in DOMAIN buffer |->
             LET i == ((k - tx_tail) % TxCapacity) + 1
             IN IF i <= Len(data) THEN data[i] ELSE buffer[k]]
        /\ tx_tail' = (tx_tail + Len(data)) % TxCapacity
        /\ tx_count' = tx_count + Len(data)
        /\ TxInterrupt(TRUE)
        /\ request' = [op |-> "push", data |-> data] /\ rejected' = FALSE
        /\ UNCHANGED <<tx_head, stdio_failed>>
     \/ /\ Len(data) \in 1 .. TxCapacity /\ ~Fits(data)
        /\ initialized' = TRUE /\ TxInterrupt(FALSE)
        /\ request' = [op |-> "push", data |-> data] /\ rejected' = TRUE
        /\ UNCHANGED <<tx_ring, stdio_failed>>
  /\ UNCHANGED <<stdin_listener, dr, usart, irq, received>>

-----------------------------------------------------------------------------
(* USART1_IRQHandler begins, unless interrupts are disabled.               *)
IrqEntry ==
  /\ ~stdio_failed /\ handler = "idle" /\ initialized
  /\ rxne \/ ore \/ (txe /\ txeie)
  /\ handler' = "receive"
  /\ status' = (IF rxne THEN {"rxne"} ELSE {}) \cup (IF ore THEN {"ore"} ELSE {})
  /\ UNCHANGED <<initialized, stdin_listener, tx_ring, txeie, dr, usart,
                 stdio_failed, reply, bounds>>

(* The read of USART_DR clears the flags that the read of USART_SR saw.    *)
Received(next) ==
  /\ ~stdio_failed /\ handler = "receive" /\ handler' = next /\ status' = {}
  /\ rxne' = (rxne /\ status = {})
  /\ UNCHANGED <<initialized, stdin_listener, tx_ring, txeie, dr, txe, lost,
                 reply, bounds>>

IrqOverrun ==
  "ore" \in status /\ Received("transmit") /\ ore' = FALSE /\ stdio_failed' = TRUE

IrqReceive ==
  /\ status = {"rxne"} /\ UNCHANGED <<ore, stdio_failed>>
  /\ Received(IF stdin_listener THEN "listening" ELSE "transmit")

IrqNothingReceived == status = {} /\ Received("transmit") /\ UNCHANGED <<ore, stdio_failed>>

ListenerReturns ==
  /\ ~stdio_failed /\ handler = "listening" /\ handler' = "transmit"
  /\ UNCHANGED <<initialized, stdin_listener, tx_ring, txeie, dr, usart, status,
                 stdio_failed, reply, bounds>>

IrqTransmit ==
  /\ ~stdio_failed /\ handler = "transmit" /\ handler' = "idle"
  /\ IF txe /\ txeie /\ tx_count > 0
     THEN /\ dr' = <<buffer[tx_head]>> /\ txe' = FALSE
          /\ request' = [op |-> "pop", len |-> 1] /\ rejected' = FALSE
          /\ tx_head' = (tx_head + 1) % TxCapacity
          /\ tx_count' = tx_count - 1
     ELSE UNCHANGED <<dr, txe, reply, tx_head, tx_count>>
  /\ txeie' = (txeie /\ (txe => tx_count' # 0))
  /\ UNCHANGED <<initialized, stdin_listener, buffer, tx_tail, rxne, ore, lost,
                 status, stdio_failed, bounds>>

Irq ==
  \/ IrqEntry \/ IrqOverrun \/ IrqReceive \/ IrqNothingReceived
  \/ ListenerReturns \/ IrqTransmit

-----------------------------------------------------------------------------
(* The USART takes the byte to send out of its data register; it receives  *)
(* one, over the last one if that was not read.                            *)
ByteSent ==
  /\ ~txe /\ txe' = TRUE
  /\ UNCHANGED <<initialized, stdin_listener, tx_ring, txeie, dr, rxne, ore, lost,
                 irq, stdio_failed, reply, bounds>>

ByteReceived ==
  /\ ~stdio_failed /\ initialized /\ received < MaxReceived
  /\ received' = received + 1
  /\ rxne' = TRUE /\ ore' = (ore \/ rxne) /\ lost' = (lost \/ rxne)
  /\ UNCHANGED <<initialized, stdin_listener, tx_ring, txeie, dr, txe, irq,
                 stdio_failed, reply, writes>>

(* The program stopped, or there is nothing left to send.                  *)
AtRest ==
  /\ stdio_failed \/ (handler = "idle" /\ tx_count = 0)
  /\ UNCHANGED stdio_vars

StdioNext ==
  \/ \E on \in BOOLEAN : SetStdinListener(on)
  \/ \E n \in 0 .. TxCapacity + 1 : \E data \in [1 .. n -> TxByte] : StdoutWrite(data)
  \/ Irq \/ ByteSent \/ ByteReceived \/ AtRest

StdioSpec == StdioInit /\ [][StdioNext]_stdio_vars

-----------------------------------------------------------------------------
(* The transmit interrupt is enabled exactly while there is something to   *)
(* send, so the handler neither stops early nor comes for ever; and input  *)
(* that is overwritten is reported by EAF_ERROR, however the next byte     *)
(* falls between the handler's reads.                                      *)
InterruptsServed == (txeie <=> tx_count > 0) /\ (lost => ore \/ stdio_failed)

(* A message is copied behind the others as a whole, or rejected because   *)
(* it does not fit; nothing takes a byte out of the buffer but to write it *)
(* to USART_DR, the oldest one, one at a time: so bytes leave in the order *)
(* of the messages that were admitted, each message complete and unmixed   *)
(* (EBF_stdoutWrite against USART1_IRQHandler). And the interrupts do      *)
(* their part.                                                             *)
StdoutFifo == INSTANCE BoundedFifo WITH
  Item <- TxByte, capacity <- TxCapacity,
  items <- [i \in 1 .. tx_count |-> buffer[(tx_head + i - 1) % TxCapacity]],
  call <- request, out <- dr, refused <- rejected
ImplementsStdout == StdoutFifo!Spec /\ []InterruptsServed

(* What was admitted is sent, whoever calls in between.                    *)
StdoutSent == (tx_count > 0) ~> (tx_count = 0 \/ stdio_failed)
=============================================================================
