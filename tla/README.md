# The Altair/Aquila mesh libraries in TLA+

The repository is an Arduino board package for the Altair (an ATmega256RFR2 with an IEEE 802.15.4
radio). Its own logic is a stack of libraries that lets sketches on several boards talk to each other,
and a few libraries around it:

    sketch ── AquilaServices ─┐
           ── AquilaProtocol ─┤  ProtocolDB, halPersist     (request/response, events in the EEPROM)
           ── WSerial ────────┼─ Mesh ── LwMesh network layer ── radio driver ── transceiver
           ── MeshBridge ─────┘  │        nwkDataReq nwkTx nwkRx nwkRoute nwkSecurity nwkFrame
              Slip, CRC          │        nwkRouteDiscovery nwkGroup          sysTimer sysEncrypt
                                 └ MeshControl (automatic addresses), RxBuffer, TxBuffer
    beside it: SimpleTimer, Wire, SoftwareSerial, Low-Power, a copy of ArduinoJson

There are no threads. A sketch calls `Mesh.loop()` from its own loop; that runs `SYS_TaskHandler` (the
network layer's handlers and the software timers), hands over received packets and sends queued ones.
Concurrency is of five kinds: the radio changes under the handlers; one handler's half-done work is seen by
the next handler; callbacks run inside loops, and may enter them again; interrupts share buffers with the
sketch (`Wire`, `SoftwareSerial`, the watchdog); and the nodes of a network interleave. The EEPROM adds one
more: what is written there is found again after a reset at any byte.

All paths below are under `src/avr/libraries/`.

## 1. Inventory

| part | state | operations | talks to | what is hard | what makes it correct |
|---|---|---|---|---|---|
| Frame pool, `nwkFrame.c` | `nwkFrameFrames`, `nwkIb.lock` | alloc, free, iterate | everything in the layer | the pool runs out in the middle of something; frames come and go during an iteration | the lock counts what is in use |
| Sending, `nwkDataReq.c`, `nwkTx.c` | `nwkDataReqQueue`, frame states, two timers, `nwkTxPhyActiveFrame` | `NWK_DataReq`, two task handlers, `PHY_DataConf`, timer handlers | pool, security, driver, Mesh | late, lost and repeated acknowledgements; frame pointers in requests that outlive the frame | each request is confirmed, once, with the right status |
| Receiving, `nwkRx.c` | frame states, duplicate table and its timer | `PHY_DataInd`, task handler, `nwkRxRejectDuplicate` | pool, routing, security, endpoints | copies in any order, a wrapping number, a table that fills up | no copy twice, no new frame lost |
| Routing, `nwkRoute.c`, `nwkRouteDiscovery.c` | route table, discovery table and timer, waiting frames | learn, remove, age, relay, request, reply | receiving, sending, other nodes | replacement and ranks; requests and replies that cross | a sound table, no pair of nodes that send to each other, every waiting frame ends |
| Multicast, `nwkGroup.c`, `nwkRx.c` | groups, two radii in the frame | join, leave, relay | routing, duplicates | copies that race, a routed leg before the flood | members get it once, within the radii |
| Security, `nwkSecurity.c`, `sysEncrypt.c` | active frame, counter, vector, offset, key | task handler, `SYS_EncryptConf` | sending, receiving, AES | one engine and one set of variables for several frames | counter and states agree; each frame has its own vector |
| Driver, `phy.c` | `phyState`, transceiver registers, the one frame buffer | `PHY_DataReq`, `PHY_TaskHandler`, sleep, energy, random | transceiver | the transceiver moves between two statements; a stale flag; a frame lost when sending starts | no frame torn or indicated twice, every request confirmed |
| Timers, `sysTimer.c` | sorted list of relative timeouts | start, stop, task handler | all handlers | handlers change the list that is walked | each timer keeps its time |
| Mesh, `Mesh.cpp` | two buffers, `txBusy`, `txUserConfirm`, `isAsleep` | `loop`, `sendPacket`, `sleep`, `wakeup`, `begin` | network layer, sketch | callbacks that enter the loop again, sleep | callbacks in order, once each |
| Buffers, `RxBuffer.cpp`, `TxBuffer.cpp` | ring, two pointers, count | insert, remove | Mesh | the two sides at any two statements | a bounded queue |
| MeshControl | `genAddr`, waiting flags, one packet | `assignAddr`, `sendEUI` | Mesh on all nodes | several nodes at address 0 | unique addresses, `begin` returns |
| AquilaServices | four tables, `lastReqCb`, `waitingResponse`, time | register, `request`, `response`, `rxHandler`, `loop` | Mesh, services on other nodes | timeout against response, full tables | the callback gets its own response |
| AquilaProtocol, ProtocolDB, halPersist | one receive buffer; entries and header in EEPROM; a static iterator | commands, events, append, set, delete, clear, iterate | Mesh, EEPROM | overwritten packet, actions that emit inside an event, a reset between two bytes | entries are those that were stored, and an event runs them |
| WSerial | two byte rings, one packet under way | read, write, flush, `loop` | Mesh | ring full while busy, ignored results | a byte stream |
| MeshBridge: bridge, Slip, CRC | decoder, one packet, options | serial commands, forwarding | Mesh, PC | faults on the line, an ACK or NACK that never comes | one answer for each command, none made up |
| SimpleTimer | slots | set, delete, restart, run | sketch | callbacks that change slots | a timer runs when due, as often as asked |
| Wire, `twi.c` | handler state, three buffers | begin, request, send, receive; interrupt handler | devices and other masters on a bus | the handler between any two statements of a call | exact transfers, calls that return |
| SoftwareSerial | one shared ring | recv by interrupt, read, write, listen | other ends of lines | recv while the sketch reads, writes or changes the object | bytes in order, none made up |
| Low-Power | power, converter, clock and watchdog registers | the sleep modes of five chips | interrupts | a watchdog left over from an earlier sleep | what was turned off comes back, a timed sleep ends |
| ArduinoJson | the text itself, a static buffer | print, parse in place | sketch | strings ended and moved in the text still to be read | what was printed is read back |
| SPI, EEPROM, AltairTemperature, AltairUtil, CursoAquila, identifier chip, serial HAL, boards, bootloader | registers, nothing | | | | left aside: ports, formulas, examples, data |

`PROJECT.json` lists each part with its status, and every hazard with its line.

## 2. Plan

Written, in the order of importance: the network layer of one node, the buffers, the duplicate table, Mesh above
it, addresses and services between nodes; then the route table and discovery, timers, the driver, the blocks of
frame security, multicast, the protocols above Mesh with their EEPROM and serial line, and the libraries beside
it. What is proved of
them is in section 6. What is left:

1. To prove: `TableIsSound` in the build with route discovery, whose steps are folds over the nodes in reach.
2. To model: the aging of routes by the frames of `NwkNode` (two modules now), floats of ArduinoJson.

## 3. Modules

| module | what it is | source |
|---|---|---|
| `NwkCore` | state and helpers of one node: frames, queue, lock, transceiver, position of the loop | `nwkFrame.c`, `nwkRoute.c`, `nwkTx.c` (`nwkTxFrame`) |
| `NwkTx` | sending: requests, transmitted frames, acknowledgement timers, security, end of transmission | `nwkDataReq.c`, `nwkTx.c`, `nwkSecurity.c`, `phy.c` |
| `NwkRx` | receiving: what is accepted, decrypted, indicated, acknowledged, relayed | `nwkRx.c`, `nwkRoute.c`, `phy.c` |
| `NwkNode` | the node: the loop, its environment, fairness, invariants | `sys.c`, `nwk.c` |
| `NwkService` | abstract: what the layer promises a user of `NWK_DataReq` | refined by `NwkNode` |
| `NwkDuplicate` | the duplicate table over time, with sources that send and copies that are late | `nwkRx.c` |
| `NwkRoute`, `NwkRouteDiscovery` | the two tables as operators; several nodes that learn, discover, age and lose routes | `nwkRoute.c`, `nwkGroup.c`, `nwkRouteDiscovery.c` |
| `NwkMulticast` | a frame for a group, routed to the first member and flooding from there | `nwkRx.c`, `nwkTx.c`, `nwkRoute.c` |
| `NwkSecurity` | blocks, vector, key and integrity code with a symbolic cipher | `nwkSecurity.c`, `sysEncrypt.c` |
| `Phy`, `Transceiver` | the driver and the hardware it works with, statement by statement; abstract: frames in, requests out | `phy.c` |
| `SysTimer`, `Countdown` | the list of differences; abstract: every timer counts down by itself | `sysTimer.c` |
| `PacketBuffer`, `Fifo` | the ring by statements, and the bounded queue it implements | `RxBuffer.cpp`, `TxBuffer.cpp` |
| `Mesh` | `Mesh.loop` with its call stack, buffers, callbacks, sleep; each half refines `Fifo` | `Mesh.cpp` |
| `MeshControl` | several nodes that look for an address | `MeshControl.cpp` |
| `Services` | one node that asks, its callbacks nested, a `millis` that goes round; packets under way; one that registers and answers | `AquilaServices.cpp` |
| `EventStore`, `EntryList`, `AquilaProtocol` | the entries in the EEPROM by bytes; abstract: the list they are; the node that uses them, its call stack, resets, and Mesh's buffer its answers wait in | `ProtocolDB.c`, `halPersist.c`, `AquilaProtocol.cpp` |
| `WSerial` | both rings, the packet under way, and the comparison of `millis` that lets `loop` send | `WSerial.cpp` |
| `Slip`, `AquilaBridge` | frames on a faulty serial line byte by byte; the commands of the PC and their answers | `Slip.cpp`, `CRC.cpp`, `AquilaBridge.cpp`, `Mesh.cpp` (setters) |
| `SimpleTimer` | the slots, and `run` in its two passes | `SimpleTimer.cpp` |
| `Wire` | the calls, the interrupt handler by status, devices and another master | `Wire.cpp`, `twi.c` |
| `SoftwareSerial` | recv, read, write and listen over time in bits | `SoftwareSerial.cpp` |
| `LowPower` | every sleep mode of every chip in two halves, and what ends the sleep | `LowPower.cpp` |
| `JsonParser` | values and their text, plain or indented; the parser that works in the text | `ArduinoJson/src/` |
| `NwkNodeProofs` | theorems about the network layer of a node | |
| `IdentityProofs` | theorems about what tells nodes and frames apart, and who gets a frame for a group: `MeshControl`, `NwkDuplicate`, `NwkMulticast` | |
| `MeshProofs`, `ServicesProofs`, `AquilaProtocolProofs` | theorems about Mesh, the driver below it and secured frames; services; events and the table of entries | |
| `BuffersTimersProofs`, `LinksProofs` | theorems about `PacketBuffer`, `SimpleTimer`, `WSerial`, `SoftwareSerial`, `SysTimer`; about `NwkRouteDiscovery`, `Wire`, `LowPower` | |
| `DataLemmas` | lemmas about data that several proofs use: induction over the natural numbers, stated with a set; sequences with an element more or less | |
| `MCNwkNode`, `MCMesh`, `MCMeshControl`, `MCServices`, `MCAquilaProtocol`, `MCTablesTimers`, `MCLinks`, `MCBridge` | values of constants for TLC, and several components in one run | |

**Several components in one run.** `MCMesh`, `MCMeshControl`, `MCTablesTimers` and `MCLinks` hold components that
do not act on each other. A variable `part` is chosen at the start; its component runs and the others stay in one
initial state. This is no composition, only a way to ask several small questions with one start of TLC, and
fairness is stated per part.

**Grain.** In `NwkNode` a step is one visit of one frame by one handler (`nwkFrameNext` gives the order:
`cursor`), one request served, one block encrypted, one timer handler. Between two steps only the radio moves;
that is all that happens there in the code. `Mesh` treats the calls inside `Mesh.loop` as entries of a stack, and
lets the network layer do any number of its steps while `SYS_TaskHandler` is on top, where the code does one
round; a frame is "busy" as the lock of `NwkNode`. `PacketBuffer` steps at every statement outside the
`ATOMIC_BLOCK`s, more than the main-loop-only use in today's Mesh needs, because the code guards against it.
`Phy` steps between any two accesses to the transceiver. An interrupt handler of `Wire` is one step, as the
hardware has it, and may run between the test of `twi_state`, the filling of the buffer and the write to `TWCR`;
but a STOP of another master takes two (`SlaveStop`, `SlaveStopDone`), since `twi.c:468-474` frees the bus, runs the
sketch's callback, and only then clears the interrupt again, and the bus moves in between.
`SoftwareSerial` counts time in bits. `AquilaProtocol` writes one byte of the EEPROM in a step; a reset may come
before each. `NwkRouteDiscovery` and `NwkMulticast` let all nodes in reach handle a frame at once.

**Abstraction.** Payloads, RSSI, PAN numbers (ours or the broadcast one), MAC sequence numbers are left out. In
`NwkNode` the duplicate table's verdict is free and the route table is a function whose aging is free (the real
ones are in `NwkDuplicate` and `NwkRoute`), and time is not measured: a started timer may fire in any pass. The
cipher is symbolic in `NwkSecurity` and a verdict, the `mic` of the frame, in `NwkNode`. JSON text is a sequence
of characters where a run of digits or letters is one. Only the link of the bridge has bytes for bytes, since
its escapes and CRC are what is modelled.

**What is cut off by design.** `NWK_ENABLE_MULTICAST`, `NWK_ENABLE_ROUTE_DISCOVERY` and
`NWK_ENABLE_SECURE_COMMANDS` are off in `Mesh/config.h`, so `NwkNode` is built without them; `NwkRouteDiscovery`
and `NwkMulticast` model the builds that turn them on. `NWK_ENABLE_ROUTING` and `NWK_ENABLE_SECURITY` are on.

Variables keep the source's names where they can (`queue` is `nwkDataReqQueue`, `active`
`nwkTxPhyActiveFrame`, `secCount` `nwkSecurityActiveFrames`, `table` `nwkRxDuplicateRejectionTable`). History
variables, which no code reads, are said to be so where they are declared.
Definitions marked *Wrong on purpose* are variants with a plausible mistake, used to see that a property
notices it; nothing else refers to them.

## 4. Runs

`tlc -workers 2 -config <cfg> <module>`; each takes from seconds to about four minutes.

| run | asks | instance and why it is enough |
|---|---|---|
| `node` (`Node.cfg`) | lock accounting (`LockAccounting`), one transmission, frames and requests that belong together, security counter, timers of waiting frames, status (`SuccessIsAcked`) | two scenes: a node that sends (two symmetric requests, two frames, three submissions, so that an object is used again while its old frame is too; acknowledged, secured; an acknowledgement that is right, stale or wrong), and one that hears two frames out of 13 kinds, one per branch of `nwkRx.c`, with a pool of two that overflows on every path |
| `node_live` | `FallsSilent`; `ServiceSpec` (the node refines `NwkService`: every request is confirmed) | two submissions, one frame heard; no symmetry |
| `mesh` (`MCMesh`) | Mesh: one request at a time, sleep only when idle, callbacks and delivery in order, once and eventually. Security: `SecuredIsExact`. Driver: `ImplementsRadio`, `RadioAnswers` | callbacks that leave `Mesh.loop` alone or enter it (depth 2), buffers of two, four packets out, three in; two secured frames of any two sizes around block boundaries, in both directions, and a change of the key; three frames on the air, two requests |
| `mesh_control` | unique addresses, `begin` ends; `MulticastIsExact` | three nodes, two with the same first guess and a third that collides with the second; address space of 9, so that a guess wraps. Five nodes in a line, a star and a ring, with radii that let through and that do not, routes to a member, to a dead end and in a loop; two frames, two losses |
| `address_twice` | *violated*: `Unique` when nodes start soon after each other | as above |
| `services` | each callback called, never again once it has returned (`OverOnReturn`); its own response from an entry of that name, as long as no packet outlives a timeout | two requests, with or without a callback, from the loop or from a callback; callbacks two deep; timeout of two in a `millis` of six values, so that a request is made before, at and after the last moment that gets old; five sketches with tables of one place, so that a name is in all tables, in one, or finds no place |
| `services_late`, `services_unknown` | *violated*, see below | two requests |
| `protocol` | an event runs what is stored and all of it, the table is the list `EntryList` through resets, the answer to every command that is read gets into Mesh's buffer and out of it | two entries in a table of four slots in two sectors, three packets of every kind, depth of three calls, one emit or request of the sketch, a buffer of two, so that a third answer finds it full, one reset at any byte |
| `tables_timers` | duplicates (`TellsCopies`), ring (`ImplementsFifo`), `sysTimer` (`KeepsTime`), `SimpleTimer`, `SoftwareSerial`, JSON | 9 frames of three sources with numbers modulo 7 in a table of two; ring of four with three packets; three timers of different length, one periodic; two slots of callbacks; ring of three bytes, two objects; documents with every kind of value and of escape, damaged anywhere |
| `links` | route table and discovery, `Wire`, `LowPower`, `WSerial`, bridge | a triangle with one bad link and a square with two ways, one or two frames, tables of two; buffers of two bytes on a bus with a device and another master; every mode of every chip with every clock of timer 2; rings of three, written and read in two instances, `millis` of four values with `loop` at least every second one, so that both the values that send and those that never do come; three commands and one fault of the line, which loses a byte or makes an END or ESC of it |
| `bridge_options` | *violated*: `OptionsAreCurrent` | four questions of a PC |

**Properties that are conjunctions.** `FramesAreOwned` is `RequestOwnsFrame` and `QueueIsOwned`; `TellsCopies`
is no copy accepted twice, no new frame rejected unless the table is full, one entry per source, and no entry
for ever; `CarriesOutSent` is that the bridge carries out only what the PC sent and tells what it did;
`EveryCallReturns` is that calls of `Wire` return, timed sleeps end and modules come back as `ModulesBack` says;
`ReadsWhatWasPrinted` includes that nothing unread is overwritten; `EventsRunEntries`, `TimersAreExact`,
`TableIsSound`, `BytesAreExact` have two halves each.

Deadlock is checked in the runs `node`, `node_live` and `mesh`. In the others a system ends when its bound
is used up.

**Bounds.** Constants named `Max...` bound how often the environment acts, and `MaxLoops` and `MaxDepth` the
depth of calls on the stack. `Wrap` and `MillisRange` stand for the 2^32 of `millis()`, `LoopGap` bounds how
long a sketch stays away from its loop, and `TxSize` is `MESHTXBUFFER_SIZE`. `Selections` in `LowPower` tries
nothing, one module and all. Everything else is finite by itself. Larger values repeat situations the small ones
reach: each is chosen so that an object, a slot and a number are used a second time, and each ring wraps and
fills.

**Assumptions that properties state.** They say where the code does what its users expect:

* `DuplicateAssumption`: `PerPeriod * (MaxAge + Ttl) <= SeqSpace - Window + 1`. It is tight: with one number fewer
  TLC finds a new frame rejected. In the code's numbers, a source that sends more than about 11 frames in 100 ms
  for a second and has copies under way for as long comes round to numbers still remembered.
* `Orderly` (`Services`): every request comes with a callback, from outside of one, and no packet outlives the
  timeout. `AlwaysCalled` excepts requests made inside callbacks, which are forgotten when the outer one returns, and
  one made in the last `AQUILASERVICES_TIMEOUT` before `millis()` goes round (`GetsOld`), which waits for a response
  alone. `OverOnReturn` counts a callback as over when it returns; before that, a loop it enters may call it again.
* `AlwaysAnswered` excepts a packet that the next one overwrites, a reset, and an answer refused when as many others
  came as Mesh's buffer holds (`Crowded`). Packets that Mesh itself queues (announcements, EUIs) are not counted.
* `CallbacksInOrder` and `AllTold` are about sketches whose callbacks do not enter `Mesh.loop` (`loops = 1`).
* `ReadsAreExact` is about runs in which no byte comes while the sketch sends, and listening starts between bytes.
* `NoPairLoop` is about one discovery; the routes of two for one destination may lead two nodes to each other.
* `WritesAreSent` excepts a refused packet, after which `WSerial` is busy for ever, and `OutOfTime`: `loop` is called
  at least every `LoopGap` milliseconds, and if the last packet went out less than that before the wrap of `millis()`,
  `now > lastTimeSent + 1` (`WSerial.cpp:201`) may not be seen to hold in time. The two readings of `millis()` in
  `loop` are one. The rings of `BytesAreExact` hold
  until they are filled while a packet is under way, or to the last place.
* `TransfersAreExact` is about calls during which no other master addresses the node, and which nothing of an earlier
  call disturbs (`Alone`), and about requests of another master that do not come in while `onReceive` runs (`unseen`).
  `HoldBus`: a repeated START is on the bus before the next call, "we hope", as `twi.c:227` says. The callbacks of
  the sketch make no transfer, and `onRequest` replies as its last `write` says.
* `ModulesBack` states the clock that is left (`ClockLeft`): timer 2 gets its own back only if the call left it alone.
* `AnsweredAgain` excepts the frame a fault hit, the next one, and a packet Mesh refused.
* `MulticastIsExact` demands that every member in reach is served where the flood has one way to each node (`OneWay`).
  In a ring the first copy to arrive may be the one with less radius left, and the others are duplicates.
  `FloodsAssumption` lets routes lead to nodes in reach only: they are learned from frames of those nodes.
* `EntryList` promises nothing after a reset in the middle of a removal, until the list is emptied: a second reset, in
  the middle of an addition, may even leave a table that looks whole again, with other entries.
* `Phy`: the protection of the receive buffer ends when the transceiver leaves the state it receives in; `Mesh.end`
  cuts a request off; `Mesh.loop` is not called while the node sleeps (`PHY_DataReq` would wait for ever).
* `SecuredIsExact` is about frames whose blocks are all processed under one key. The integrity code covers the
  last block's vector, so a key changed between blocks is not always noticed. A secured frame that comes in is
  at least as long as its integrity code; `nwkSecurity.c:120` takes its length off without a look.
* `Mesh.sleep` is called from the sketch's loop, as in the examples; no callback calls it.

**Fairness.** `NwkNode`: the sketch calls `Mesh.loop` for ever (weak, `Loop`); a started timer fires (strong: it is
enabled only in the timer pass, and the interrupt counts on); the transceiver ends a transmission (its own
retries and CSMA attempts are bounded). Nothing is assumed of the application or of other nodes. `Mesh`: callbacks
return, a sketch that sleeps wakes up and does not for ever stay away from `Mesh.loop`, and the network layer
confirms and frees (which `node_live` shows). `Phy`: the transceiver ends what it begins and `PHY_TaskHandler` is
called. `MeshControl`: the loop of `assignAddr` runs, a ping is confirmed. `Services`: both sketches go on, time
passes, callbacks return, a packet arrives or is lost; `loop` is strong, since its test stops holding when `millis()`
goes round and holds again in each round, and a loop that is called often enough meets it. `AquilaProtocol`: calls on
the stack go on, a sketch outside of them lets a packet be looked at, and Mesh's buffer empties (`EachGetsThrough`).
`NwkRouteDiscovery`: a started timer fires in time, the air empties. `Wire`: the handler runs, calls go on, the bus
goes on. `LowPower`: a call goes on and the watchdog fires; no other interrupt is assumed. `WSerial`: an accepted
packet is confirmed, time goes on, the sketch calls `loop` (weak, and no more than the call: whether it sends is the
comparison's).

## 5. Findings

* `address_twice` – `MeshControl.cpp:49` takes a ping without answer for a free address. Every node pings from
  address 0 with numbers from 1, and an owner that heard such a number from another node within
  `DUPLICATE_REJECTION_TTL` drops the ping as a duplicate, unanswered. With three nodes, one after another and
  without a single lost frame, the third gets the address of the first. If each waits until the others have
  forgotten (`Forgotten`), addresses are unique: `mesh_control`.
* `services_late` – a response that arrives after its timeout goes to the callback of the next request
  (`AquilaServices.cpp:90`). `services` shows that it takes a packet slower than the timeout, or a request without
  a callback, or one made in a callback.
* `services_unknown` – the documented `R404` is never sent; the asking node sees `R408`.
* `bridge_options` – after `CMD_SET_OPT` the bridge still tells the address it was started with
  (`AquilaBridge.cpp:212`), against `Bridge.ino:29`.

Met on the way, without a run of their own:

* An automatic address may be 0xFFFE or 0xFFFF (`MeshControl.cpp:100` looks only at the lower end), or wrap into the
  manual range (line 125), against `Mesh/Readme.md:27`. If a `GETEUI` fills the transmit buffer while a node looks
  for an address, the ping is not queued and `begin` never returns, which `AllAssigned` excepts by `asks`.
  `MeshControl::begin` assigns its member to itself (line 92), which works because `AquilaMesh` keeps its state in
  file-scope variables.
* A callback that enters `Mesh.loop` makes `txConfirm` forget the next packet's callback (`Mesh.cpp:72`), and its own
  packet is overwritten (line 106).
* AquilaServices calls `lastReqCb` before it makes it NULL "so it only works once" (`AquilaServices.cpp:90-92`,
  201-203). A callback that waits, in a sketch whose `yield` calls the loops as `Example_Yield_Aquila.ino` does,
  is called again by the next response or timeout, once more for each level. A request made inside a callback is
  dropped, since `waitingResponse` is still set; made after a nested call has cleared it, it goes out, and its
  callback is forgotten when the outer one returns.
* A request made in the last second before `millis()` goes round never times out (`AquilaServices.cpp:198`): the
  sum is a floating point number and `now` starts at 0 again. If its response is lost, later requests are
  dropped.
* `WSerial::loop` never sends again by itself once `lastTimeSent + 1` is the largest value of `millis()`
  (`WSerial.cpp:201`): no reading is above it, and `lastTimeSent` is not renewed. `flush` and a full ring still send.
  A value that is somewhat smaller does the same if `loop` is not called before the wrap.
* `Protocol::send` does not look at the result of `Mesh.sendPacket` (`AquilaProtocol.cpp:93`): with a full buffer the
  Ack or Nack of a command that was carried out is dropped.
* With every route fixed, `NWK_RouteNewEntry` dereferences NULL (`nwkRoute.c:125`); in the instances one entry
  never is. Routes learned from overheard frames may form loops (`nwkRoute.c:214`).
* A node that restarts numbers its frames from 1 again (`nwk.c:72`), and its neighbours take them for copies until
  their entries die.
* halPersist refuses a block that ends with its region (`halPersist.c:78`), though a byte there can be written.
* Two nodes with different versions of AquilaProtocol answer each other's NACK for ever (`AquilaProtocol.cpp:105`).
* A float and an int service of one name: the one with the lower place in its table answers, whichever was registered
  first.
* `LowPower` takes bit numbers for masks when it notes and restores the clock of timer 2 (`LowPower.cpp:167-169`,
  207-209). A sleep that turns timer 2 off puts back CS22 alone, and only if CS20 was set; with the clock the Arduino
  core selects, CS22 alone, the timer has power again and stands still.
* The handler of a STOP in `twi.c` frees the bus (line 468), calls the sketch, and clears the interrupt again
  (line 474). A master that addresses the node in between is acknowledged and not served: what it reads begins
  with the byte of its own address. What it sends arrives, but `twi_state` says `TWI_READY` meanwhile, and a
  call may start in between.
* A call of `Wire` that another master breaks off may leave its START behind; it goes out in the middle of the
  setup of the next call, which then returns 0 with nothing sent. `endTransmission` returns 0, too, when the
  node is addressed between the test for `TWI_READY` and the wait, since the state is no longer `TWI_MTX` and no
  error is noted.
* `twi_readFrom` of zero bytes asks for 255 (`twi.c:134`). `SoftwareSerial::overflow` loses an overflow between
  its two statements.
* The indenter of ArduinoJson takes the quote behind an escaped backslash for an escaped quote
  (`Prettyfier.cpp:19`); `ReadsWhatWasPrinted` excepts the texts it confuses.

## 6. Proofs

`tlapm <module>`. The theorems hold for all values of the constants under the assumption that each module states
(`NwkConstants`, `MeshAssumption`, `WireAssumption`, ...), and TLC evaluates them in every run. They say that
sizes and bounds are numbers, mostly positive, that addresses and objects differ from the value that stands for
none, that the ranks and scores of `NwkRoute` fit the bits the table has for them, and that an instance asks for
no more than it lists. Two say more: `DuplicateAssumption` (section 4) and, in `Mesh`, `TxSize` and `RxSize` up
to 255, the range of the counts in the code. Theorems that need a hypothesis besides state it, and the list
below names it.

| module | theorems | the invariant and why it is needed |
|---|---|---|
| `NwkNodeProofs` | `TypeCorrect`, `LockCounts`, `TransmitsOne`, `WaitsEnd` | `IInv`. `LockAccounting` is not inductive: `PHY_DataConf` lowers the lock and must find the active frame where `TxSend` left it, in `WAIT_CONF`, so `OneTransmission` is in it; `TypeOK` needs the ticks of waiting frames to be positive (`WaitersHaveTimer`), and blocks left while the security module works (`SecurityHasWork`). Lemmas about the pool (`OneFrame`, `TwoFrames`, `SameInUse`) say how the cardinality of the frames in use changes |
| | `FramesOwned`, `SuccessAcked` | `OwnInv`. A frame pointer in a request outlives its frame, so which pointers are stale must be said: those of requests whose state is past the frame (`StalePointersBehind`); then two requests never share a living frame (`FramesAreApart`), what carries a request has one that waits for it (`CarriersHaveOwner`), and a request whose frame was acknowledged is not told otherwise (`AckedBeforeSuccess`) |
| | `SecurityCounts` | `CountInv`: the counter is the cardinality of the frames in the two states of the security module |
| | `ImplementsService` | from the above: every action maps to a step of `NwkService` or a stutter (its safety part; `ServiceSpec` adds fairness) |
| `IdentityProofs` | `DuplicateTypeCorrect`, `CopiesAreTold` | `DuplicateInv`: each living entry stands for one latest frame, whose number it holds; its life left bounds how many frames came since (`IsLatest`), so that within `DuplicateAssumption` two frames under way never share a wrapped number, and its mask has the bit of each accepted frame that can still come (`KnowsBefore`) |
| | `AddressTypeCorrect`, `AddressesDiffer` | `AddressInv`: while starts are orderly one node looks at a time (`OneLooks`), its pings are new to everybody (`PingsAreNew`), and a ping without answer means that nobody has the address (`UnansweredIsFree`). Hypotheses: nodes start one at a time, late enough that pings are forgotten, and no frame is lost (`Orderly`); no node guesses 0 or the broadcast address |
| | `MulticastTypeCorrect`, `FloodsExact` | `MulticastInv`, for each number by itself: while a frame is routed it is the only one and nobody else has it (`RoutedOK`); each frame that floods came over a way the radii allow, and its radii are what the rows of members and of others at the end of that way leave (`FloodingOK`); who got it got it over such a way, and if nothing was lost and the radii allow one node more, its copy is still to be sent or all in reach have it (`ReachedOK`). The last part of the property follows along a way, node by node, since the way a node got it is the only one. A row with a node more is `RowLonger` |
| `MeshProofs` | `OneRequestAlways`, `SleepIsIdle`, `TypeCorrect` | `txBusy <=> requests = 1`, for every depth of nesting; nothing but `wakeup` is possible with the radio off and an empty stack |
| | `ReceivesInOrder`, `SendsInOrder` | simulation of `Fifo`, with what each frame of the stack says of the buffers (`Owned`, `Confirming`). The receiving half for every depth; the sending half where no callback enters `Mesh.loop` (`MaxLoops = 1`) |
| | `DriverIsRadio` | `PhyInv` relates `phyState`, the transceiver's state, its flags and the halves of the frame buffer; then each statement of `phy.c` is a step of `Transceiver` or a stutter |
| | `SecuredExact` | `SecurityInv`: between two blocks the vector of the engine is the one the next block begins with (`Before`), the words before the offset are done and the rest untouched, in both directions, for every key all blocks so far were processed under (`Matters`). That deciphering is the inverse takes the blocks one after another: the cipher is a recursive function over the words, of which existence and each word are proved with `NatInductionSet` |
| `ServicesProofs` | `TypeCorrect`, `CallbacksAreOver`, `AnswersAsAsked` | `AskedInv`: what is kept is awaited, has not returned, and was called at most once for each callback that runs, not at all if none does (`CallbackKept`), so that with `MaxDepth` as the depth no callback is called oftener; an answer under way comes from an entry of the name asked (`AnswersServed`), since the tables hold what was registered (`Registered`) |
| `AquilaProtocolProofs` | `EventsRunWhatIsStored` | `EventsInv`: whatever prefix of the bytes still to be written gets to the EEPROM, each slot whose bit is set holds an entry that may be stored there (`SoundAlways`), and with all of them no other (`EndOK`), so that a reset at any byte keeps it; only the top of the stack writes. For the second half, entries are numbered by the used slots before them (`Rank`, which leaves no number out), and a lookup that nothing disturbed has collected the matching slots with smaller numbers than its own, with the iterator no further (`Look`) |
| | `TableIsList` | `ListInv`: whatever prefix of the bytes still to be written gets to the EEPROM, the list it leaves is one `EntryList` allows a reset to leave, and all of them leave the operation done (`Promising`). The list is the entries of the used slots by their numbers (`Shown`); one slot more is `InsertAt` its number, one less `RemoveAt` (`ShownMore`), another entry in a used slot `ReplaceAt` (`ShownOther`). `EntryBytes` of a slot that is not used changes nothing, and a header half written either leaves the list or breaks it |
| `BuffersTimersProofs` | `RingAgrees`, `RingIsQueue` | `TypeOK /\ Agreement`: `InsertPublish` is `Put`, `RemoveRelease` is `Get`, other statements leave the packets held as they are |
| | `TimersExactAlways` | `TimerInv`: `prev_millis` of a slot stands for a moment in the past less than a wrap ago; runs still allowed and runs made add up (`RunsCounted`), and between the passes of `run` the caller's marks agree with both (`CallerStays`) |
| | `BytesExact`, `ReadsExact` | the bytes between tail and head of a ring are consecutive ones of the stream (`Follows`, by lemmas about `Ring` and `Distance` on a circle); for `SoftwareSerial` also that `recv` is at the bit the line is at (`InStep`) |
| | `TimersKeepTime` | a timer's time is the sum of the timeouts up to its place (`Sum`, a recursive function), less what of the current tick is past: what `placeTimer` inserts and `Removed` takes out, with what they add to the next timeout, leaves the sums of all others as they are |
| `LinksProofs` | `LearnedTableIsSound` | `RouteInv`: free entries have a rank of at most 1, others of 2 or more and a score from 1 to the default, and one entry is not fixed, so that the search for the lowest rank always finds one and a lost frame never lowers a score past 0. Hypothesis: the build that learns routes, and not every entry fixed |
| | `TransfersExact` | `WireInv`: each status code of the hardware belongs to a phase of the bus, the bus is held just while `twi_inRepStart`, and while the handler of a STOP is between its two steps the sketch stands still (`Control`, `Stopped`); from that what twi.c has taken is a prefix of what was sent (`Hears`), what it serves is the reply unless the request went unseen (`Serves`), and what holds at each place of a call that is `Alone` (`Master`) |
| | `ModulesComeBack` | `NamedIsOff`: during a sleep exactly the modules named in the call are off that were on. `ClockKept`: timer 2 has the clock `ClockLeft` gives after the call, and during it what its test has noted |

Only model-checked, and why:

* Liveness and fairness: `FallsSilent`, `EachGetsThrough`, `RadioAnswers`, `AllAssigned`, `AlwaysCalled`,
  `AlwaysAnswered`, `WaitersServed`, `EveryCallReturns` but for `ModulesComeBack`, `WritesAreSent`, and the live
  half of `ServiceSpec`. They need `ENABLED`.
* `ReadsWhatWasPrinted`: the printer and the parser are recursive operators over values that nest.
* `NoPairLoop` and, in the build with route discovery, `TableIsSound`: all nodes in reach handle a
  frame in one step, which is a fold over them.
* `CarriesOutSent`, `AnsweredAgain`: the CRC of the link takes exclusive-or from `Bitwise`, whose operators are
  recursive.

## 7. Not modelled

The parts the last line of section 1 leaves aside, and of those modelled: registers for transmission power, band and
channel; the XTEA build of the cipher; the contents and sizes of packets of Mesh; a restart of a node of the
network layer (none of its state survives one; the effect on its neighbours is described above); several regions of
halPersist; floats, String copies and the conversions of ArduinoJson; the delays of `SoftwareSerial`, which are
exact; the brown-out detector of `LowPower`; drift of `sysTimer` when more than 255 ticks pass at once
(`sysTimer.c:125`); addresses of nodes that change while packets are under way.
