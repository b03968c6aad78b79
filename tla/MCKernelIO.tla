----------------------------- MODULE MCKernelIO -----------------------------
(* The parts of the kernel that move bytes and time, side by side: a       *)
(* behaviour is one of the part chosen at the start, the others rest.      *)
EXTENDS Virtio, Pipe, Console, Uart, Ticks, SpinLock

VARIABLE part
ioVars == <<part, virtioVars, pipeVars, consVars, uartVars, tickVars, spinVars>>

IOParts == {"disk", "pipe", "console", "uart", "clock", "locks"}
IOInit == VirtioInit /\ PipeInit /\ ConsInit /\ UartInit /\ TickInit /\ SpinInit

OfDisk(A) == /\ part = "disk" /\ A
             /\ UNCHANGED <<part, pipeVars, consVars, uartVars, tickVars, spinVars>>
OfPipe(A) == /\ part = "pipe" /\ A
             /\ UNCHANGED <<part, virtioVars, consVars, uartVars, tickVars, spinVars>>
OfCons(A) == /\ part = "console" /\ A
             /\ UNCHANGED <<part, virtioVars, pipeVars, uartVars, tickVars, spinVars>>
OfUart(A) == /\ part = "uart" /\ A
             /\ UNCHANGED <<part, virtioVars, pipeVars, consVars, tickVars, spinVars>>
OfTick(A) == /\ part = "clock" /\ A
             /\ UNCHANGED <<part, virtioVars, pipeVars, consVars, uartVars, spinVars>>
OfSpin(A) == /\ part = "locks" /\ A
             /\ UNCHANGED <<part, virtioVars, pipeVars, consVars, uartVars, tickVars>>

IONext == \/ OfDisk(VirtioNext) \/ OfPipe(PipeNext) \/ OfCons(ConsNext)
          \/ OfUart(UartNext) \/ OfTick(TickNext) \/ OfSpin(SpinNext)

(* The fairness of the parts, a condition on process i of one with the     *)
(* conditions on process i of the others: only one part ever moves, so the *)
(* disjunction is fair exactly when that part's action is.  Number 0 is    *)
(* what serves the processes: handler, device, clock.                      *)
Steps(i) ==
  \/ i \in vBuf /\ OfDisk(DriverStep(i))
  \/ i \in Ends /\ OfPipe(InCall(i))
  \/ i \in ConsReaders /\ OfCons(ReadStep(i))
  \/ i \in Callers /\ OfUart(Start(i))
  \/ i \in Sleepers /\ OfTick(SleepSleep(i))
Insists(i) ==
  \/ i \in Ends /\ OfPipe(Acquire(i))
  \/ i \in ConsReaders /\ OfCons(ReadLock(i))
  \/ i = Intr /\ OfUart(UartIntr)
  \/ i \in Sleepers /\ OfTick(SleepReturn(i))
Serves == OfDisk(Handler) \/ OfUart(Transmit) \/ OfTick(ClockIntr)

IOFairness ==
  /\ \A i \in {1, 2, 3} : WF_ioVars(Steps(i)) /\ SF_ioVars(Insists(i))
  /\ WF_ioVars(Serves)
  /\ WF_ioVars(OfDisk(DeviceTake))
  /\ WF_ioVars(OfDisk(\E h \in Desc : DeviceFinish(h)))

IOStart ==
  /\ part \in IOParts
  /\ IOInit
IOSpec == IOStart /\ [][IONext]_ioVars /\ IOFairness
=============================================================================
