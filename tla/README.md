# A verification of the RA8D1 MicroPython port

The repository ports MicroPython to the CPKHMI-RA8D1B board. The port's own
code is in `src/workspace/newplan_flat`: `micropython/py_port` (the `machine`
classes and the REPL's console), `src/hal_entry.c` (boot and REPL loop) and
`micropython/extmod/modutime_mphal.c` (time). It runs on the Renesas FSP
drivers (`ra/fsp/src`) and on MicroPython's core (`micropython/py`). One thread
(the foreground) executes `hal_entry` and everything Python does; interrupt
handlers run between any two of its instructions. All peripheral interrupts
have the same priority, SysTick the lowest, so handlers do not nest. There is no
lock: the port does not define `MICROPY_BEGIN_ATOMIC_SECTION`, and the default of
`py/mphal.h` does nothing. `src/micropython` is a copy of upstream. Despite the
repository's name there is no code for NAND flash.

File names below are relative to `src/workspace/newplan_flat` unless they start
with `src/micropython`.

## Inventory

| Component | State | Operations | Interaction | What is hard | What makes it correct |
|---|---|---|---|---|---|
| REPL receive (`mp_uart.c`, `r_sci_b_uart.c`) | ring `s_rx_buf` with head and tail, the one-byte read (`s_rx_one`, `s_rx_armed`, `s_rx_need_arm`), driver's `p_rx_dest`/`rx_dest_bytes`, SCI FIFO and error flags | init, RXI, ERI, callback, `rb_get`, re-arm, `__WFI` | handler produces, foreground consumes, both arm the read | handler between any two accesses; overrun; lost wake-up | bytes in order, none vanishes without a cause, input never stops |
| REPL transmit (`mp_uart.c`, `r_sci_b_uart.c`) | source pointer and count, TX FIFO, TE/TIE/TEIE | `tx_strn`, `tx_strn_cooked`, Write, TXI, TEI | foreground hands strings to the handler, waits with a limit | limits that expire, source on the caller's stack | output complete and in order, no dangling source, calls return |
| Scheduler (`py/scheduler.c`) | `sched_state`, `sched_queue`, `sched_idx`, `sched_len` | schedule, run pending, unlock, soft reset | pin interrupts and Python add, VM/poll hook/REPL line run | atomic sections that mask nothing | accepted callbacks run once, in order, never nested |
| UART ring (`py/ringbuf.h`, `machine_uart.c`) | `iget`, `iput`, buffer | put, get, avail; read, readinto, readline, any | callback produces, methods consume | two stores of one index | bytes in order, lengths exact |
| UART object (`machine_uart.c`) | `g_uart1_obj`, `is_open`, `tx_complete`, ring storage, driver state | constructor, init, deinit, write, txdone, callback | many objects, one `g_uart1` | order of flag and interrupt, ownership, soft reset | one owner, no event for a dead object, txdone honest |
| Pin interrupt (`machine_pin.c`, `r_icu.c`) | `irq_ctx` of a Pin, driver control block, vector table, function register | constructor, `irq()`, ISR, collector, soft reset | ISR gives the handler to the scheduler | static state before the first open, heap lifetime | live context, current handler, own vector only |
| Time (`mp_hal_ra8d1.c`, `hal_entry.c`, `modutime_mphal.c`) | `g_systick_count`, `g_dwt_cyccnt_ms_base`, CYCCNT | SysTick, ticks_us/ms/cpu, ticks_diff, delays | handler writes, foreground takes a snapshot | tearing, delay, wrap-around | monotonic, accurate, differences right |
| I2C (`machine_i2c.c`, `r_iic_master.c`) | `transfer_complete`, `transfer_result` of each object, one control block with buffer, counts and restart marks, the bus | constructor, scan, readfrom(_mem), writeto(_mem), deinit, TXI, TEI, RXI, ERI, callback | callback completes the method's wait, which runs Python callbacks | timeout without abort, re-entrancy, a bus kept between transfers | a method reports its own transfer; no access to a dead buffer; the bus comes to rest |
| SPI (`machine_spi.c`, `r_spi_b.c`) | `g_spi_sync_ctx`, control block, SPE and TEI, heap buffers | constructor, init, read, readinto, write, write_readinto, deinit, TXI, RXI, TEI, ERI, callback | as I2C | buffers freed during the transfer, an interrupt pending from before | success means all characters moved; buffers outlive their use |
| ADC, DAC (`machine_adc.c`, `machine_dac.c`, `r_adc.c`) | unit open flags, scan mask, ADST, data registers, analog switch of the pin | constructors, read_u16, write | units shared by objects, pins by ADC, DAC and Pin | scans from the poll hook, registers cleared by reading | a read returns a sample of its own scan |
| Pin level, LED, `modmachine.c` | registers | value, on, off | none | none but the pin tables | only existing pins are touched |
| REPL loop (`hal_entry.c`, `pyexec.c`, `readline.c`) | line being edited | process a character, execute, soft reset | foreground of all the above | what a soft reset leaves behind | a new session starts clean |

`PROJECT.json` lists the same parts with their status and, under `hazards`, the
lines where these difficulties bite.

## Plan

1. `ByteFifo` (abstract queue), `ReplRx` and its proofs: the console is what
   every user depends on, and its ring is lock-free. Done.
2. `Sched`, `ReplTx`, `UartRing` (refines `ByteFifo` too), `UartObj`, `PinIrq`,
   `Ticks`. Done, model-checked and proved.
3. `I2cSync`, `SpiSync`, `Adc`: the blocking methods over interrupt-driven or
   free-running hardware, with timeouts and re-entry from the poll hook; allocation
   failure in `UartObj`, the pin's input in `PinIrq`. Done, model-checked and proved.
4. A composition of `PinIrq` with `Sched`, so that the queue of the first is the
   ring of the second and not a sequence. Not composed; `SchedRefinesFifo` proves the step
   it rests on, that the ring is a bounded queue while no handler runs inside an atomic
   section. The collection of a UART object is open.
5. Proofs of the safety properties: done for every one that a passing run checks.
   Liveness is left to TLC.

## The modules

An action is one access to shared state of the foreground (it can be interrupted
after each) or one handler, which runs to completion; `ReplRx` splits the
receive handler at its rounds, because the line keeps delivering bytes. Program
counters are named `pc`, `fpc` or `rpc`; definitions keep the names of the functions they
model. `UartRing` and `Adc` share a proof module with another component and so give their
specification names of its own (`RingSpec`, `AdcSpec`). Definitions under a comment
`Mutant:` are deliberate errors used to show that the properties can fail; nothing else
refers to them.

* **ByteFifo.** A bounded queue with `Put`, `Get` and `Clear`, and the history of what
  was taken.
* **ReplRx.** Bytes are numbered in the order they are sent. `RxWire`, `RxOverrun`
  and `RxWireError` are the line; `RxiEnter`, `RxiChar`, `RxiStore`, `RxiExit` the
  receive interrupt, `Eri` the error interrupt; the rest is the foreground from
  `R_SCI_B_UART_Open` to the REPL loop. `delivered` and `lost` are history. Parameter
  checking is off in this build, so that a second `R_SCI_B_UART_Read` replaces the
  first one.
* **ReplTx.** Strings are short sequences over CR, LF and two letters. `budget` is
  what a busy-wait has left in byte times. `Load` and `Shift` are the transmitter,
  `Silence` a byte time in which it has nothing to do.
* **Sched.** The n-th scheduled function is the number n. The port's atomic sections
  mask nothing; `torn` records that a handler ran inside one. The behaviours in which
  it stays FALSE are those of a port that does mask interrupts, which is what
  `scheduler.c` was written for.
* **UartRing.** `ringbuf_get` may store `iget` twice, as the source says, or once, as a
  compiler may merge the stores. `lapped` records that the handler compared with the
  intermediate value when the ring was full.
* **UartObj.** `stolen` records that `init()` was called while another object had the
  UART, `early` that a transmission ended before `write` cleared its flag, `failed` that
  the last init found no memory for its ring, `stray` that a handler wrote to an object that
  is closed or that a soft reset took from the program (`"lost"`).
* **PinIrq.** `Pins` are Pin objects of P008, the only pin with an interrupt. A context
  whose memory was freed is read as anything (`WildCallback`), which `wild` records;
  `retaken` records that a new Pin rewrote the function register.
* **I2cSync.** `stack` holds the calls in progress: one, or two when a callback run by
  the poll hook of the first makes another (callbacks do not nest). `reg.bus` is the
  phase of the bus; `"ready"` is after a START, `"tend"` after the last byte was
  acknowledged, `Held` between a repeated START and the transfer that continues it.
  `ctrl` is the driver's control block, whose `buff` names the call of the buffer. A
  `clean` call began on a quiet bus and saw no Python code in its wait.
* **SpiSync.** The same stack. `reg.out` and `reg.in` count characters in the
  transmitter and the receiver, `idlnf` is the busy flag, `tei_pend` the request of TEI.
  A buffer is a call and a side; `freed` and `reused` are its fate in the heap. `cut`
  records that the driver was opened during a transfer it did not close.
* **Adc.** One unit with its generated mask and the one channel outside it, whose pin the
  DAC drives. A data register holds a value and the call whose scan wrote it. `alone`
  is a read that started its own scan and had no other read in its wait.
* **Ticks.** Time is in processor cycles; the foreground runs only while no handler
  does. Count, cycle counter and results wrap at small powers of two.

The `MC` modules instantiate them for TLC. `MCUart` (`UartRing` and `UartObj`) and `MCPins`
(`PinIrq` and `Adc`) each hold two modules that share no variable. A property of one module
then depends on the steps of that module alone, so that a behaviour of these instances
takes the steps of one, chosen at the start, and leaves the other in its initial state; the
run explores the sum of the two state spaces and not their product.

## What the runs check

| Run | Result |
|---|---|
| `repl_rx` | A ring of four slots and a FIFO of two, seven bytes: every slot is reused, ring and FIFO fill. The read is always aimed at `s_rx_one` and always armed, the ring is a `ByteFifo`, order is kept, and a byte that is not delivered was lost by an error interrupt, an overrun, a full ring or before `mp_uart_init` returned. The ring drains and every byte is settled. |
| `repl_tx` | Strings of up to seven characters, a FIFO of two and a wait of two byte times, three calls. Output is complete unless a wait gave up, which happens only to strings longer than the wait; only then does the driver keep a pointer to a string whose call has returned. A transmitter that is off holds no character, although TEND is read before TE is cleared. Every call returns. |
| `sched` | A queue of two, five calls, one soft reset. Callbacks never nest, also in this port. Order, exactly-once, the state after unlock and eventual execution hold unless a handler ran inside an atomic section. |
| `sched_torn` | *violated*: without that exception a callback is lost. The foreground is inside `mp_sched_schedule`, between its load and its store of the length, when a pin interrupt schedules too; both functions are accepted into the same slot, and only the foreground's runs. |
| `uart` | The ring with two usable slots, seven bytes, four reads: lengths and `any()` are right and the ring with the methods is a `ByteFifo`, until it is lapped. Two objects, three writes of up to three bytes, a MemoryError in any init that allocates, one soft reset: ownership, events, `txdone()` and discarded bytes, each with its exception. Events go astray only to an object lost to a soft reset. |
| `pins` | Two Pins on the pin, two handlers, three calls, two edges, a queue of one, the collector, one soft reset: until the Pin is freed, handler and trigger are those of the last call. A converter with a mask of two channels and the one outside it, three reads, the DAC with the bytes 1 and 255, Pin objects that take the pin; `ScalingsAgree` covers all 256 bytes. |
| `pin_irq_repl` | *violated*: the first `irq()` disables the REPL's receive interrupt. |
| `pin_irq_wild` | *violated*: one Pin, one call, one edge and a soft reset; the interrupt is left enabled and reads a context in the old heap. |
| `ticks` | 14 cycles of 3 per millisecond; both counters and the result wrap. `ticks_us` is monotonic and at most a millisecond late. |
| `ticks_wrap` | *violated*, in the same instance: `ticks_diff` of a value before the wrap-around and one after it raises OverflowError. |
| `i2c` | Two objects, two addresses of which one has a device, transfers of two bytes, two calls, so that one is inside or after the other; devices that do not answer, bus timeouts and method timeouts at every point. |
| `spi` | Two objects, transfers of two characters, two in the transmitter, two calls; init, deinit, new objects and reuse of freed memory in the poll hook; receive errors and timeouts. |

A violated run states what a comment or a document of the repository says of the
program; `PROJECT.json` quotes it under `findings`.

**Other deviations.** Some passing properties carry an exception, and without it
they fail; these are deviations from comments or documents too:

* `NoStrandedWork` without `torn`: a handler between the test and the store of
  `mp_sched_unlock` leaves work in an idle scheduler (`py/scheduler.c:154-157`).
* `AnyIsHonest` without `lapped`: two bytes that arrive between the stores of `iget`
  when it reaches the size make a full ring look empty (`py/ringbuf.h:58-60`).
* `OneOwner` without `stolen`: `init()` of a released object takes the UART of another,
  past the check of the constructor (`machine_uart.c:219`, `:197-199`).
* `TxDoneEventually` without `early`: a transmission that ends before `write` clears
  `tx_complete` leaves `txdone()` False for ever (`machine_uart.c:398`).
* `ticks_diff` fails not only across the wrap-around (`ticks_wrap`): it raises OverflowError for
  every value from 2^31 on, 35.8 minutes of `ticks_us` (`extmod/modutime_mphal.c:72-73`).
  `DiffCorrect` says exactly when.
* `AcceptedRuns` without its premise: the REPL waits for input in a loop that never
  handles pending events (`mp_uart.c:230`), so that a callback queued at the prompt
  waits for the next line; `py_port/FSP_ICU_SETUP.md:143` says the REPL handles it.
* `DiscardNeedsBusy` without `busy`: a write during a transmission replaces the driver's
  source and the rest of the previous buffer is never sent, where `machine_uart.c:391`
  says that 0 is returned and nothing sent.
* `QueuedAlive` without `wild`, and `HandlerIsCurrent` of a Pin that was freed: what the
  interrupt reads and queues is then arbitrary. The run `pin_irq_wild` gets there by a soft
  reset. The collector is the other way: the context is reachable only through the Pin, so
  that a program that drops the Pin has it freed while the interrupt uses it
  (`machine_pin.c:470`); with `MaxResets = 0` TLC reports that trace.
* `HandlerIsCurrent` without `retaken`: a second Pin object for P008 clears the interrupt
  input of the first (`machine_pin.c:269`).
* `OneOwner` with `~stray` for its last part: a soft reset closes no UART (`hal_entry.c:98-102`), and
  received bytes are written to the object of the session that ended. No UART object can be
  made until the board is reset, because `g_uart1_obj` is never cleared (`machine_uart.c:198`).
* `OneOwner` without `failed`: after a MemoryError in init the driver is open, writes its
  events into the memory of an object that may be gone, and `deinit()` of that object
  does not close it (`machine_uart.c:113-123`).
* `OwnResult` of `I2cSync` without `clean`: a call in the poll hook shares flag, slave
  address and control block with the outer one. It may take the outer call's
  completion for its own, and between the halves of `readfrom_mem` it redirects the
  second half to its own device (`machine_i2c.c:365`).
* `NoWildAccess` without `taint`: a method that times out frees its buffer and leaves the
  transfer running (`machine_i2c.c:62-66`), and a call that is refused because the bus is
  in use has by then put its own buffer into the running transfer
  (`r_iic_master.c:557`).
* `OwnResult` of `SpiSync` without `cut`: a second `SPI(1)` made between the last character
  and TEI leaves TEI enabled and pending, and the next transfer ends before it began.
* `NoForeignMemory` without `hooked`: the dummy buffer is freed "immediately"
  (`machine_spi.c:354`) and a callback may be given it while the driver uses it;
  without `late`: the same after a timeout.
* `FreshSample` without `alone`: a read from the poll hook on the same channel leaves the
  outer one a cleared register, which it returns as 0, and a read of P014 from the
  poll hook joins a scan that does not convert it.

Others follow from reading one function:

* `readfrom` and `writeto` end with a repeated START and no STOP (`machine_i2c.c:225`,
  `:277-279`), where `src/micropython/docs/library/machine.I2C.rst:152` has `stop=True` as
  the default; `readfrom_mem`, whose comment says "Restart and read the data", sends a STOP
  between its halves and keeps the bus after the second. `freq` is checked and not
  applied. A second `I2C(1)` becomes the driver's context, and the first times out.
* `SPI.init()` stores its arguments before it checks them, so that a ValueError makes later
  calls of `init()` fail too; an object closed by another leaves SPE on, and calls are
  refused until `init()`; `baudrate=0` divides by zero.
* `ADC.read_u16` gives up after 200 ms where its comment says "1 second timeout"
  (`machine_adc.c:236`), and checks the clock after the state, so that a slow callback
  raises "ADC scan timeout" for a scan that is complete. `ADC(Pin(...))` reads a pin that
  Pin has made digital, except for P014 and P015. A name of four characters is
  parsed with its terminating zero as the last digit (`machine_adc.c:94`), and never
  finds the pin it names.

**Bounds.** Rings and queues are as small as they can be and still be empty, partly
full, full and wrapped; inputs suffice to fill and wrap them more than once. The
firmware has a ring of 1024 bytes, a FIFO of 16, a scheduler queue of four. The waits
of `uart_wait_tx_complete` are loop counts; at 115200 baud we estimate them at some 240
byte times for the source and some 24 for the end of transmission. The models only use
that the first is longer than the FIFO and that the second may be short.
`Ticks` assumes that a snapshot does not take a whole period of the millisecond
counter (49 days), which `SnapshotIsShort` states.

In `I2cSync` and `SpiSync` two calls are enough for each to be inside, after or refused
because of the other; `I2cSync` was also explored with one object, three calls and
transfers of one byte. A third call in progress cannot exist. `Adc` allows a timeout
only after Python code ran in the wait and with no scan running: a scan takes
microseconds, and the limit is 200 ms.

**Deadlock** is checked for `ReplRx`, `Sched` and `Adc` (`IrqEnds` of `MCPins` lets the other half
of that instance end). The other instances end when their bounded inputs are used up.

**Fairness.** Weak fairness of the foreground: the processor runs. Weak fairness of
handlers: an enabled, requested interrupt is taken. SysTick is periodic. In `Sched`
Python code comes to its next poll and a callback returns; nothing makes a user enter a
line or a line end. In `ReplTx` and `UartObj` the transmitter shifts at its rate. In `I2cSync`
the method's clock advances, the controller serves its interrupts and its own timeout
detection ends a transfer no device answers; in `SpiSync` the clock of a master never
waits; in `Adc` the converter runs. No fairness is assumed of the line, of a device,
of an error or of a program.

## What is proved

Eight modules hold proofs: one for each component, but that `UartProofs` is about
`UartRing` and `UartObj` and `PinProofs` about `PinIrq` and `Adc`. Each theorem holds
for every value of the constants that the assumptions named in the component's module
allow; these say that sizes, depths and lengths of transfers are positive (a ring has at
least two slots, the depth of the scheduler's queue is a power of two, as `IDX_MASK` and
the 8-bit indices require, and `CycMod` is at least two milliseconds), that bounds are
numbers, that `None` is neither a Pin nor a handler, that P014's channel is outside the
generated scan mask, and that samples have 12 bits and the DAC's arguments eight.
`Ticks` has one more premise, in the model itself: `SnapshotIsShort`, see Bounds. Where a
property carries an exception (`torn`, `lapped`, `stolen`, `gaveUp`, `taint`, `clean`,
`lostTick`, `wild`, a freed Pin, `cut`, `hooked`, `late`, `alone`, `steady`) the theorem carries
the same one, and it is not more than the property needs: "Other deviations"
says what happens without it. The inductive invariants were checked by TLC on the
instances of the runs before they were proved.

**`ReplRxProofs`** (every ring size, FIFO depth and number of bytes):

* `TypeCorrect`: indices in range.
* `ReadTargetCorrect`, `ChainCorrect`: from `ArmInv`, which adds to the two properties what
  is true inside boot and inside `R_SCI_B_UART_Read`, where the foreground is between
  the pointer and the count. Without it the properties are not inductive: during boot
  no read is armed, and a callback may arm it at every point.
* `ReadStableCorrect`: from `RingInv`, which says at each point of `rb_get` what it has
  established of the ring; a put keeps it because it never writes the slot at the tail.
* `RingRefinesFifo`: the mapping takes the slots from tail to head as the queue.
  Lemmas `PutContent` and `GetContent` show what `rb_put` and `rb_get` do to that
  sequence, wrap included.
* `LossCorrect`: the four causes of a lost byte.
* `OrderCorrect`, `NothingVanishesCorrect`: `StreamStep` reduces every step to one of six
  moves of bytes between FIFO, ring, REPL and `lost`. `OrderInv` says that FIFO, ring and
  what the REPL has are each increasing and each below what is upstream of it;
  order within what the REPL has is not inductive alone.

**`ReplTxProofs`** (every set of strings, FIFO depth and length of the waits):

* `StoppedCorrect` from `StopInv`: while TE is off TXI is off too, so that nothing refills
  the FIFO; `CtlInv` carries what the wait for TEND has read over to the step that clears TE.
* `TxTypeCorrect`, `DanglingCorrect` from `TxInv`: which registers
  `R_SCI_B_UART_Write` has set at each step, that the driver has a source only while its
  string is written or after a wait gave up, and that in the first wait each counted byte
  time sent a character. The last part bounds the string when the count reaches 0.
* `OutputCorrect` from `EmitInv`: wire, shift register, FIFO and source together are what
  was asked for. Inside the cooked loop that is the output of the characters taken so
  far, given by `CookedParts` from the definition of `FlattenSeq` in the community
  modules; the one place where induction is needed uses the least length that fails.

**`SchedProofs`** (every depth, any number of calls and soft resets):

* `SchedTypeCorrect`, `PreemptCorrect` from `LockInv`: the state is locked exactly at the
  positions from `sched_lock` to `sched_unlock`. Both hold in this port, where atomic
  sections mask nothing: no handler stores to the state while it is locked.
* `StrandCorrect` from `StrandInv`: what schedule and unlock have established between
  their test and their store.
* `OrderOnceCorrect` from `QueueInv`: what was accepted is what ran, then the function in
  hand, then the ring from `sched_idx` on, modulo the depth.
* `SchedRefinesFifo`: while no handler runs inside an atomic section, the ring is a
  `ByteFifo` of `Depth` places. `Waiting` maps the slots in use to the queue, `Taken` the
  functions run and in hand to what was taken. `Put` is the store of `sched_len` in
  `mp_sched_schedule` (the slot is written after it, so that `Waiting` counts the function
  in hand there), `Get` the store of `sched_idx` in `mp_sched_run_pending`, `Clear` the
  reset of `sched_idx` in `mp_init`.

**`UartProofs`**, the ring (every size, any line ends, bytes and reads):

* `RingTypeCorrect` from `CtlInv`: `iget` is in range or one beyond, between its stores.
* `RingRefinesFifo`: the step of `ByteFifo` is the store that moves `iget`. `RingInv` says
  that a byte loaded before that store is the oldest one.
* `AnyCorrect` from `CountInv`: accepted is returned, held and in the ring. `ReadCountCorrect`
  from `ReadInv`: the ring has at least what `read` still wants; the handler only adds.

**`UartProofs`**, the object (any set of objects, every FIFO depth and length of a write):

* `UartTypeCorrect`: the driver counts no transmission below zero.
* `OwnerCorrect` from `OwnerInv`: the positions inside `init` and `deinit` at which
  `g_uart1_obj`, the object's flag, the driver and its callback disagree, and no others. No
  method runs on a lost object, so that a lost one keeps the UART.
* `TxDoneCorrect`, `DiscardCorrect` from `TxInv`: which interrupts are on while `write`
  changes the source, and that the flag is never set while bytes are left but inside `write`.

**`PinProofs`**, the interrupt (any Pins and handlers, every depth of the queue):

* `PinTypeCorrect`, `HandlerCorrect`, `EdgeCorrect` from `IrqInv`: an enabled vector is
  outside `pin_obj_irq` or before its close, and at each position the call has put its
  own handler, input, context and trigger in place. `HandlerCorrect` says nothing of the
  handler of a Pin that was freed.
* `QueuedCorrect`: inductive with the types; the collector and the soft reset are the
  steps that matter.

**`PinProofs`**, ADC and DAC (any mask, inputs, bytes and number of reads):

* `AdcTypeCorrect`, `FreshCorrect` from `ScanInv`: position by position, the scan a read
  started still has the channel before it or has left its sample in the register. That
  is not inductive alone. It needs `AloneInv`, because a read in the poll hook
  takes the scan from the one below it, and `PinsInv`, because an ADC object made in
  the poll hook stops no scan only if the unit is already open.
* `ReadsBackCorrect`: the register of the DAC is the conversion of the byte last written,
  and `ScalingsAgree` (proved for all bytes) says that the two conversions cancel.

**`I2cSyncProofs`** (any number of objects, calls, addresses, devices and lengths):

* `I2cTypeCorrect`: the driver's counts do not go below zero.
* `ContinuationCorrect` from `HoldInv`, which adds the steps between a repeated START and
  the interrupt that follows it.
* `WildCorrect` from `SyncInv`: of the calls in progress only the topmost runs; it finds
  the bus quiet until it starts it, and a busy bus belongs to the buffer of a call that
  waits.
* `OwnResultCorrect` from `CleanInv`: the transfer on the bus is, phase by phase and byte by
  byte, the one the waiting call asked for, and its flag is set only when that is over.

**`SpiSyncProofs`** (any number of objects and calls, any lengths, every FIFO depth):

* `SpiTypeCorrect`.
* `OwnResultCorrect` from `CleanInv`: what the driver has moved for the call that waits, and
  what the flag it will find says. `StackInv` leaves only the topmost call to follow.
  `MoveInv` balances the characters sent, under way and received; with it `TeiInv`, that TEI
  is enabled only when all have been received, shows that the TEI that completes a
  call comes after the last character.
* `ForeignCorrect` from `QuietInv`: without Python code in a poll hook and without a
  timeout a transfer belongs to the one call in progress, and its buffers have not been
  given away. `IdInv` says that a call that starts is new to the driver.

**`TicksProofs`** (every clock, every width of both counters):

* `TicksTypeCorrect`; `MonotonicCorrect` and `AccurateCorrect` from `TimeInv`: there is a
  time at which SysTick last ran, the base is the cycle counter of that time, and no
  period has ended since unless SysTick is due. A snapshot whose two counts agree
  was taken without a SysTick in it, so that the wrap of the cycle counter
  cancels. The arithmetic of quotients and remainders is in lemmas of its own.
* `DiffCorrect` from the types of two successive values and their order. It states what
  `ticks_diff` does (`DiffExactOrRaises`), which is not what its comment says; no run has it
  as a property.

**Only model-checked.** Liveness (`EveryByteSettles`, `CallsReturn`, `AcceptedRuns`,
`TxDoneEventually`, `Settles` of I2C and of SPI, `ReadsReturn`): the prover does not handle
fairness. The four violated runs are counterexamples and need no proof. Type correctness
goes the other way: only `repl_rx` spends a property on it, and the theorems above
establish it for the rest. So does `SchedIsFifo`, which no run checks; the
same refinement is checked by TLC for the rings of `ReplRx` and `UartRing`.

## Not modelled

Contents of strings and buffers beyond identity and order; baud rates and other
settings; line editing, compilation and execution of Python; allocation failure outside
the UART's init; the text of pin names and the table of valid pins; faults and watchdogs
(nothing handles them); the collection of UART, I2C and SPI objects whose driver is
open. LED and `modmachine.c` are straight-line register writes.
Upstream MicroPython, the remaining FSP code and generated tables are used as they
are; of the hardware, each module marks what it assumes as external.
