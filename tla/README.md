# A TLA+ model of iDMA

iDMA is a modular DMA engine in SystemVerilog. A *front end* receives work from
software, *midends* rearrange transfers, and a *backend* moves bytes between two
bus protocols. A Linux driver sits on top of one front end. The hardware of a
concrete backend is generated in Python from templates and a database of protocols,
and the CI deploys what was generated. This directory holds TLA+ modules for the
parts whose control is hard to test, TLC configurations that check them on small
instances, and TLAPS proofs of what matters most.

## 1. The system

| part | source | state it keeps | operations | talks to |
|---|---|---|---|---|
| transfer legalizer | `src/backend/idma_legalizer_rw_axi_rw_axis.sv`, `idma_legalizer_page_splitter.sv` | read and write half of one transfer (length left, next address, valid), its options | take a transfer, emit a read and/or a write burst, be killed | request from the midend; bursts to the queues of the backend |
| backend | `src/backend/idma_backend_rw_axi_rw_axis.sv` | request queues, AR register, AW queue, queue of last flags | pass bursts on, reject transfers of length zero, answer transfers | legalizer, transport layer, error handler |
| transport layer, ports, byte lanes | `idma_transport_layer_rw_axi_rw_axis.sv`, `idma_axi_{read,write}.sv`, `idma_axis_{read,write}.sv`, `idma_dataflow_element.sv` | byte FIFOs, beat counters, forked flags, response queue and register | take a read beat, shift, buffer, send a write beat, take a response | bus, backend |
| R-AW coupler | `idma_channel_coupler.sv` | store of AWs, grant counter, output register | hold an AW until the first data of its read is there | between the queues and the bus |
| error handler | `idma_error_handler.sv` | FSM, number of transfers in flight, two address FIFOs | report an error, wait for the decision, continue, or flush and kill | response path of the backend, front end |
| n-dimensional midend | `src/midend/idma_nd_midend.sv` | repetition counters, stride selector, addresses | send the bursts of nested loops, merge their responses | front end, backend |
| split / distribution midends | `idma_mp_split_midend.sv`, `idma_mp_dist_midend.sv` | FSM and rest of the request; completion flag per port | cut at region boundaries, hand the pieces to ports, join completions | front end, several backends |
| real-time midend | `idma_rt_midend.sv` | event counters, routing queue | issue a transfer when a counter runs out, arbitrate with a bypass | front end, nd midend |
| descriptor front end | `src/frontend/desc64/*` | queues of descriptor addresses, speculation state, write-back and interrupt state | walk a chain of descriptors with prefetch, write back, interrupt | memory, backend, software |
| register front end, id generator | `src/frontend/reg/tpl/idma_reg.sv.tpl`, `idma_transfer_id_gen.sv` | configuration registers, next id, completed id | launch a transfer by reading `next_id`, count completions | software, midend |
| Snitch front end | `src/frontend/inst64/*` | shadow registers of one transfer | decode core instructions | core, nd midend |
| Linux driver and client | `src/sw/linux/*` | pending, running and done job lists | queue jobs, feed the descriptor queue, handle interrupts, terminate | descriptor front end |
| generator | `util/gen_idma.py`, `util/mario/*.py`, `src/db/*.yml` | the database, whose texts the renderers change in place | parse IDs, render one entity for a list of IDs | `idma.mk`; the hardware above is its output |
| trace tools | `util/mario/tracer.py`, `util/trace_idma.py` | the log of a simulation | log the handshakes of the ports each cycle, evaluate the log | simulation of a generated backend |
| deploy script | `util/deploy.py`, `.github/workflows/deploy.yml` | a clone: branches, index, ignore file; the deploy branches of the origin | check the generated files in on a branch of their own and push it | git, other runs of the workflow |
| scripts | `util/lint-*.py`, `util/list-*.py`, `util/reprotocol.py`, `doc/src/conf.py` | — | check or list files, edit job files, build the documentation | CI |

(Paths above are relative to the repository or to its directory `src/` that holds the
hardware; in `PROJECT.json` they are complete.)

Work flows down as requests with valid/ready handshakes and comes back as
responses with the same handshake; every queue between two parts has a depth of
its own. Nothing else is shared, except the descriptor memory that software, the
driver and the descriptor front end share.

### What is hard here

* **Independent queues.** A burst is one entry in up to five queues (read
  request, AR, write request, AW, last flag) that drain at different speeds. All
  must have room at once and be popped exactly once.
* **Bytes on two shifters.** Source and destination are misaligned independently,
  so a byte's lane, the mask of the first and last beat and the number of beats
  differ on both sides.
* **Two halves of one transfer.** Decoupled halves finish in different cycles;
  coupled ones must not come apart under any stall.
* **Responses from different ports** must come back in the order of the bursts,
  and a response must not be given before the data has left.
* **Errors.** The error handler stops the datapath in the middle of everything
  above, and has to resume or drain it while further responses are on their way; the
  report of an error may meet a front end that is not ready for it.
* **Queues at their limit.** Several queues are sized for what a neighbour is said to
  hold, and push without looking at ready; counters have as many bits as that number
  needs.
* **State of the previous cycle.** The midend computes an address from what
  happened one cycle earlier, so a stall or a gap in the wrong cycle matters.
* **Shared texts.** The generator's renderers write into the one database, so an ID
  meets what was done for the one before it; ports, traced signals and
  registers are joined by name alone, in files nobody elaborates together.
* **Commands nobody waits for.** The deploy script starts git commands, sleeps, and
  goes on without asking whether they ended or failed.
* **Software against hardware.** Coalesced interrupts, timeouts and termination
  while the hardware walks the same descriptors.

What makes each component correct, in a sentence: the legalizer's bursts tile the
transfer and obey the bus; the backend is an in-order copy that answers when the
copy is done; the coupler never lets a coupled AW pass its read and never keeps
one for ever; the error handler counts and answers each transfer once and comes
back to idle; the nd midend walks the nested loops and answers once; splitting
and distribution preserve the bytes and join the answers; the real-time midend
returns a response to who asked; the descriptor front end executes each
descriptor of a chain once, in order, and drops no interrupt; ids complete in
the order they were given; the driver completes each job once and never frees
what hardware still uses; the generator accepts the documented IDs, prints
everything or nothing, and its outputs for an ID fit together; the trace evaluation
reports what passed the ports; a deploy job that was not disturbed has deployed,
and nothing deployed is taken back.

## 2. Plan

Done, in this order, the most important behaviour first:

1. `Legalizer` + `LegalizerProofs`
2. `ChannelCoupler` + `ChannelCouplerProofs`
3. `ErrorHandler` + `ErrorHandlerProofs`
4. `InOrderCopy` (abstract) and `Backend`, which instantiates `Legalizer` and
   refines `InOrderCopy`; `BackendProofs`, which instantiates `LegalizerProofs`
5. `NdMidend` + `NdMidendProofs`
6. `DescFrontend`, on a 64-bit bus with prefetching, + `DescFrontendProofs`
7. the generator: `IdParser`, `ProtocolDb`, `RegMap`, `GenIdma`; on top of it
   `TraceIdma`: generated tracer, simulation and evaluation
8. `Deploy` + `DeployProofs`

`Queues` has what the models of the hardware do with queues, `CommonLemmas` the lemmas
the proofs share.

Next:

9. `MultiPort`: split and distribution midends, alone and composed; abstract
   specification: a transfer is a set of bytes, each moved by the port of its
   region, one answer when all ports are done.
10. `LinuxDriver`, composed with an abstract descriptor front end: job lists,
   interrupt handler, tasklet, timeout and termination.
11. `RegFrontend` with the id generator; `RtMidend`.
12. The other ports (AXI lite, OBI, INIT, TileLink) as parameters of `Backend`.

Theorems to add: that the pieces of `MultiPort` tile the transfer.

## 3. The modules

In the modules of the hardware a step is one clock cycle: everything the hardware does in a cycle
happens in one action, with the inputs of that cycle chosen by `\E`. Signals are
operators named after the signal, registers are variables named after the
register. Variables commented *history* or fields marked *ghost* are not in the
hardware; guards never read them, except for the bound on issued transfers.
An operator introduced by "Mutant:" is a variant of the definition after it with
a plausible bug; nothing uses it, it documents that the properties of the run can
tell the difference.

| module | models | state | actions |
|---|---|---|---|
| `Legalizer` | legalizer with page splitters | `r_tf`, `w_tf`, `opt_tf`: the registers of the same name; `job`: history of what was emitted | `Refill` (request taken in), `Advance` (bursts of a cycle), `Kill`, combined in `Next` with all stalls |
| `ChannelCoupler` | coupler with the AW queue before it and the reads it watches | `aw_store`, `reads`, `aw_to_send`, `aw_granted` | `Cycle(push, beat, aw_ready)` |
| `ErrorHandler` | FSM of the error handler with the legalizer, queues and ports as far as they decide which burst is answered when | `state`, `num_outst`, `leg`, `w_last`, `reads`, `writes`, both response channels; the front end, which may be ready or not in every cycle; history `missed`: errors reported while it was not | `Cycle` over all inputs |
| `Queues` | counting, popping and pushing, as all queues of the hardware do it | none | — |
| `InOrderCopy` | abstract: what a backend promises | `pending`, the transfers not answered and how far each is written | copy, answer, accept |
| `Backend` | backend for AXI and AXI stream with transport layer, ports, byte lanes, shifters and responses; instantiates `Legalizer` | request queues, byte lanes, beat counters, fork, response queue and register, last flags; `mem`: what the memory has to answer | `Cycle(i)` = `ReadSide`, `WriteSide`, `ResponseSide` and `Accept` or `Proceed` |
| `DescFrontend` | descriptor front end on a 64-bit bus with prefetching: address generator, gater, reader, five queues, write-backs, interrupts | the registers and queues under their names; `ars`, `beat`, `due`: the memory; `backend`; `owed`: history of descriptors submitted and not reported; `lost`, `repeated`: history of entries a full FIFO dropped and of flags offered twice | `Cycle(e)` = `Fetch`, `Read`, `Report`, with `e` the channels willing in the cycle |
| `NdMidend` | nd midend with its counters | `counter`, `stride_sel`, `addr`, `burst_sent`; `backend`: last flags of bursts not answered | `Cycle(i, offers, next)` |
| `IdParser` | `prepare_ids` and `prepare_fids` | none: pure operators; an ID is a sequence of words | — |
| `ProtocolDb` | the six database files and `read_database` | none | — |
| `RegMap` | the register map of a front end: registers, skips, fields, addresses | none | — |
| `GenIdma` | `gen_idma.py` and the renderers of its entities | `request`: the command line; `todo`: IDs still to render; `texts`: the template texts of the database, which the renderers change; `rendered`, `status`: output and exit | `Prepare` (parse), one `Render...` per entity, for one ID at a time, `Finish` |
| `TraceIdma` | extends `GenIdma`: a tracer just generated is simulated, its log evaluated | `traced`, `log`, `moved` (history: bytes that passed), `report` | `Simulate`, `Log`, `Analyse` |
| `Deploy` | runs of the deploy workflow, each with a fresh clone, and the origin | per job `pc`, `running` (commands not ended), `head`, `tip`, `staged`, `ignored`, `sending`; `origin`; history `late`, `raced` | `Script` (start a command, patch the ignore file), `Checkout`, `Add`, `Commit`, `Push`, `Send` (a command ends), `FindLocked`, `EndJob` |

Data is abstracted to what the properties tell apart. In `Backend` a byte is the
pair (transfer, index in the transfer), so the model says which byte is strobed
into which lane at which address, and not what value it has. AXI attributes, ids
and user signals are copied through by the code and left out. In `DescFrontend` a
request, an address to write back and an interrupt flag are named by the descriptor
they belong to, so that a mix-up between queues shows. `ErrorHandler` counts
bursts and leaves out the address FIFOs, which fill in a field of the report only.

A text of the database is the record of what happened to it: whether it is still
whole, and how far it is indented. A deploy branch belongs to one commit, so its
content is told by who made it: nobody (the bare commit) or a job.

Memory and requester are environments: they accept, stall and answer in any cycle
in which the protocol lets them, in any interleaving of the channels.

## 4. The runs

| run | instance and bounds | shows |
|---|---|---|
| `legalizer` | 2-byte bus, bursts of 8 beats, pages of 8 bytes, 16 addresses; lengths up to 11, aligned and misaligned, wrapping addresses, all mixes of coupling, stream and reduced bursts | bursts tile the transfer without gap or overlap (`BurstsTile`, `BurstsContiguous`), never cross a page or exceed the reduced length (`BurstsLegal`), coupled halves stay equal (`CoupledLockstep`), one write burst is last (`OneLast`), nothing is overwritten (`RefillAfterAll`), every transfer ends (`TransferFinishes`) |
| `coupler` | 16 AWs in flight, counter of 4 bits, coupled only | grants match AWs, no coupled AW before its data, the store drains |
| `coupler_mixed` | 4 AWs in flight, coupled and decoupled mixed | violation of `StoreDrains`, see findings |
| `eh` | counter of two bits; a front end that continues with 3 transfers of 1 or 2 bursts or 4 of one burst, which wrap the counter, and one read or write error, or with one transfer and two errors; and one that aborts or continues, with one transfer of 1 or 3 bursts and two errors; all stall responses, once also in the cycle of an error | the counter is the number of transfers in flight modulo its width (`CountExact`) and no completion is too many (`NoSpuriousCompletion`), both as long as errors are continued and seen; every error waited for has been delivered unless it met a front end that was not ready (`ErrorDelivered`); everything completes when errors are continued, unless a read and a write error meet (`ContinuedComplete`), an abort ends (`AbortEnds`) |
| `eh_wrap` | 4 transfers of one burst, counter of two bits, one read error, abort | violation of `TransferWhileWaiting` |
| `eh_abort_twice` | a transfer of 2 bursts, one read error, abort | violation of `CompletedOnce` |
| `backend` | 2-byte bus, bursts of 2 beats, 4-byte pages, queues of 2, lanes of 2, last-flag queue of 4, up to 3 transfers between memories, misaligned against each other | right bytes in right lanes (`BeatRight`), one last flag per transfer, nothing left behind (`CleanWhenIdle`), refinement of `InOrderCopy`, and every transfer is answered |
| `nd_midend` | 4 dimensions, 2-bit counters, repetitions 0 to 4, strides that differ everywhere, 16 addresses, backend of 2 bursts, 3 transfers | addresses of the nested loops, last flag on the final burst only, one answer per transfer, completion (`RequestsComplete`) |
| `desc64` | prefetch of 2, request FIFO of 3, `BackendDepth` 1 but a backend that holds 2, a write-back unanswered, eight descriptors in four chains; beats of a descriptor do not pause | queues in lockstep (`Lockstep`), each descriptor once and in order (`InOrder`), the busy bit right (`IdleIsDone`) and everything reported in the end (`Completes`), as long as no FIFO lost an entry; what explains the first entry lost (`DropsExplained`); the guess is well defined (`SpeculationUnambiguous`) |
| `desc64_pause` | `BackendDepth` 2, three descriptors, beats may pause | violation of `FifosInLockstep` |
| `generator` | the database of the repository; as IDs, every sequence of up to 2 words of eleven, and up to 6 of fewer words; the six IDs of `idma.mk`, four others, and pairs of them, for every entity; registers of 16, 32 and 64 bits with 0 to 9 dimensions; simulations of 2 cycles on a bus of 2 bytes, up to two handshakes in a cycle | `ParserAcceptsGrammar`, `AllOrNothing` (all IDs in order, or no output; of transport layers the first), `TextsIntact`, `TracedPortsExist`, `RegistersSound`, `UtilizationRight` |
| `ci` | 3 runs of the workflow; an ordinary commit, one that holds the generated files, one whose message ends the shell's quotes | `DeployedWhenOver`, `DeployedStays` |

Several passing properties are conditional on a history or name an exception. That the condition
is needed is shown by the runs above or by a further configuration, in which TLC finds the
property named violated within seconds:

| configuration | module | violated | what happens |
|---|---|---|---|
| `MCEhMissed.cfg` | `MCErrorHandler` | `WaitsForAnswer` | an error meets a front end that is not ready and is lost |
| `MCEhBothLivelock.cfg` | `MCErrorHandler` | `AllComplete` | a read and a write error meet |
| `MCBackendInflight.cfg` | `MCBackend` | `InFlightFits` | with the depths of the descriptor wrapper the backend holds one transfer more than `MetaFifoDepth` |
| `MCDescIrqOverflow.cfg` | `MCDescFrontend` | `NoIrqDropped` | a backend of `BackendDepth` transfers and one write-back unanswered: a flag is lost |
| `MCDescAddrOverflow.cfg` | `MCDescFrontend` | `NoAddrDropped` | a backend of `BackendDepth` + 1 transfers: an address is lost |
| `MCDescWWrap.cfg` | `MCDescFrontend` | `DataOffered` | four write-back addresses are taken before their data |

`MCDescSlowMemory.cfg`, in contrast, passes: `Lockstep`, `InOrder` and `DropsExplained` with six
descriptors and a memory that pauses between beats (a million states).

`CountExact` and `NoSpuriousCompletion` end with
an abort, which may complete a transfer twice (`eh_abort_twice`), and with an error
that met a front end that was not ready; `Lockstep`,
`InOrder`, `IdleIsDone` and `Completes` of `DescFrontend` end when a FIFO has lost an entry,
and the part of `Lockstep` about interrupt flags when one was offered twice (`desc64_pause`).
Of `ChannelCoupler`, `ErrorHandler`, `Backend` and `DescFrontend` the type invariants are
in the modules for the proofs; their runs check stronger invariants instead.

### Why these bounds are enough

* The legalizer's behaviour depends on addresses modulo the page and on lengths
  relative to it. Two bytes per beat, eight-byte pages and lengths up to eleven
  give zero, one and two page crossings on either side, first and last bursts that
  are partial, both, or the whole transfer, and a wrap of the address. The page cap
  is reached before the longest burst, as on a wide bus.
* The coupler runs with 16 AWs in flight (the code's defaults are 2 and 3): the counter
  takes all its values, and the proof covers every other depth.
* In `backend` every queue fills (checked by asking TLC for a state in which each is
  full): requests, AW, responses, the lanes and the AR register, and a full lane
  passes a byte through. The fork is seen in both orders. Three transfers are one
  more than any request queue holds.
* In `nd_midend` three counters let a middle dimension be bypassed between two that
  count; repetitions of 4 do not fit the 2-bit counters. The midend keeps no state
  of a transfer that is done, so a third one only adds overlap with the backend's
  answers.
* `eh*`: queues of two requests, last flags of four. The error is in the only, the
  first, the last or a middle burst of a transfer, with and without other transfers
  behind it, and a second error may arrive before or after the first is answered. Four
  transfers are as many as the counter has values, so it wraps. The bound `misses`
  only limits how often an error meets a front end that stalls; other responses are
  stalled without bound.
* In `desc64` the chains contain right guesses, jumps, a chain that starts right behind
  the end of another one (the guess is right across chains), and one whose
  successor is submitted too late. The queues of interrupts and of addresses overflow, a
  guess is wrong while the read FIFO is occupied and while no slot is free, and it is
  judged in the very cycle in which the first prefetch is sent. The speculation
  queue cannot hold more than one entry less than its depth, as the read under way
  counts as well.
* `generator`: what the parser does with a word depends on its class and on the
  words beside it, and six words are more than the longest ID of the repository. The
  renderers treat a side with one port and a side with several apart, and a third ID
  meets texts in the same state as the second.
* `ci`: three jobs are one that left a bare commit behind, one that pushes late, and
  one that is in time. The proof covers any number. Jobs are alike, hence the symmetry.
* `desc64` puts one transfer more into the backend than
  `BackendDepth`, as the backend of the repository does (`MCBackendInflight.cfg`), and a
  write-back into the memory: enough for each FIFO to overflow. In the proofs
  both numbers are unbounded.

### Fairness

The clock runs, so weak fairness of the whole step is never in question; what is
assumed is about the environments, and only weakly:

* each channel of the memory is served again and again while it has something to
  serve (one WF per channel, never all channels in the same cycle), which is what
  AXI asks of a subordinate;
* the requester takes responses again and again;
  the front end answers errors it has seen, and in `eh` an error met while it stalls
  is the end of what is promised;
* in `desc64` software submits, the backend accepts and answers, and the memory
  serves each channel again and again;
* for the backend, requests of length zero are not offered in *every* cycle in which
  a response could be taken, as each of them blocks the response path for a cycle.

No fairness is assumed for the unit under test itself beyond being clocked. The
generator is sequential and ends; of the deploy script only safety is stated.

## 5. Proofs

All theorems hold for every value of the constants that satisfies the named
assumptions, which TLC evaluates for the instances. Seven modules hold the proofs of one
component each; `CommonLemmas` holds what they share.

| module | theorems | assumptions |
|---|---|---|
| `LegalizerProofs` | `Invariance`, `TypeCorrect`, `Tiling` (`BurstsTile`), `Lockstep` (`CoupledLockstep`), `LastOnce` (`OneLast`), `BurstLegality` (`BurstsLegal`), `Contiguity` (`BurstsContiguous`), `NothingOverwritten` (`RefillAfterAll`) | `LegalizerAssumption`, `PowersOfTwo` |
| `ChannelCouplerProofs` | `Invariance`, `AwNeverAhead` (`AwAfterR`), `CounterNeverWraps`, `GrantsExact` (`GrantsMatchAws`) | `CouplerAssumption`; `GrantsExact` only for coupled traffic (`DecoupleAw = {FALSE}`) |
| `ErrorHandlerProofs` | `TypeCorrect`, `Invariance`, `ErrorsAreSeen` (`ErrorDelivered`), `CountIsExact` (`CountExact`), `NothingSpurious` (`NoSpuriousCompletion`), `CounterRange` | `ErrorHandlerAssumption` |
| `BackendProofs` | `Control`, `ResponsePerTransfer` (`LastFlagPerTransfer`), `StreamLaidOut`, `BytesRight` (`BeatRight`), `CleanIdle` (`CleanWhenIdle`), `CopiesInOrder` (`ImplementsInOrderCopy`) | `BackendAssumption`, `LegalizerFits`; the last two: `ToMemory` |
| `NdMidendProofs` | `NdInvariance`, `NdTypeCorrect`, `NdAnsweredOnce` (`OneAnswerPerTransfer`), `NdCounts`, `NdAddresses` (`BurstAddress`), `NdLastFlag` (`LastOnFinal`) | `NdMidendAssumption`, `CountersHoldOne` |
| `DescFrontendProofs` | `DfInvariance`, `LockstepHolds` (`Lockstep`), `DropsAreExplained` (`DropsExplained`), `SpeculationSettles` (`SpeculationUnambiguous`), `OrderInvariance`, `DfTypeCorrect`, `HandedInOrder` (`InOrder`), `IdleMeansDone` (`IdleIsDone`) | `DescFrontendAssumption`; only `OrderInvariance`, `HandedInOrder` and `IdleMeansDone`: `ChainsInMemory` |
| `DeployProofs` | `InTimeDeploys` (`DeployedWhenOver`), `NothingUndeployed` (`DeployedStays`) | `DeployAssumption` |

* **`LegalizerProofs`.** The inductive invariant says that each half matches the
  history (`emitted + left = length`, a valid half has bytes left, addresses and
  lengths of the right type), that the halves of a coupled transfer are identical, and
  that the address of a half is the address of the request advanced by what was emitted,
  modulo the address space. `BurstsTile` and `OneLast` are not inductive by themselves:
  that a burst takes at least one and at most all bytes left comes from the type of the
  page, and that coupled halves finish in the same cycle from their equality. A burst
  stays in its page because pages and the address space are powers of two, so that the
  page divides the address space and a wrapped address has the same offset in its page.
* **`ChannelCouplerProofs`.** For any mix of traffic the AWs stored, less the reads to
  begin, less the counter, less the register is never negative: grants are only made of
  beats, so an AW in the register has seen its data, and the counter stays below what the
  store can hold and cannot wrap. With coupled transfers only the difference is zero, which is
  `GrantsMatchAws`. `coupler_mixed` shows that the latter fails for mixed traffic.
* **`ErrorHandlerProofs`.** Front ends may stall responses in any cycle, as those of the
  repository do (`tpl/idma_backend.sv.tpl:398`, `idma_nd_midend.sv:214`,
  `idma_desc64_top.sv:466`), and may have any number of transfers to issue. What the buses
  offer, what answers are due and the types hold in any case (`BaseInv`). The FSM
  leaves its idle state for an error whether the front end is ready or not, so what
  the handler knows of the front end holds only until an error meets one that is not: this is a
  hypothesis on the history (`NoneMissed`) in the statements, and not an assumption about
  the environment; `MCEhMissed.cfg` shows what happens then. In that history the handler waits
  only for an answer that is due (`ErrorDelivered`). If the front end also continues, what is
  in the pipeline is what is owed (`Counted`): the transfer in the legalizer, a last flag for each
  that has left it, and the one whose extra response is being sent. The counter is their
  number modulo its width, which is inductive without a bound on the number of transfers.
  A completion takes a transfer that is owed, since it takes one of these.
  `CounterRange` says how far off the counter can be: the pipeline holds at most two transfers more than
  `MetaFifoDepth`, and below the counter's limit the counter is exact (`eh_wrap` is the case beyond).
* **`BackendProofs`, control.** The theorems about the legalizer are taken over by `INSTANCE`. Every burst
  is one entry in the queue of last flags until it is answered, so the
  flags are as many as the responses due, in the ports or in the queues, and the write
  requests not begun (`FlagPerBurst`). The fork, which passes a write request to port and
  response queue in different cycles, makes two of these counts differ by one at a time; the
  invariant names both. Then the number of TRUE flags is the number of transfers
  whose last burst was emitted and that are not answered.
* **`BackendProofs`, data.** The bytes of all transfers, in the order of the transfers, are
  one stream. A transfer begins at some position of the stream (`start`), and each
  queue, counter and lane is described by the positions it stands for: the requests
  queued for reading and for writing are adjacent intervals (`Chain`); a byte of the stream belongs in the
  lane given by its destination address; a lane holds, in order, the bytes of that lane
  between what was written and what was read. The positions are not in the model: the
  invariant says that a layout `start` exists, and each step either keeps it or extends it by the
  transfer accepted. That a beat has the right bytes follows from the order in the lanes, the
  mask from the interval of the beat. Shifts are sums modulo the bus width, so
  the powers of two matter here as well.
* **`BackendProofs`, refinement.** The refinement of `InOrderCopy`, step by step. What the
  abstract copy calls the transfer being written is, in the stream, the transfer in which
  the next position to write lies: `copied` of each transfer that is not answered is the part of it
  before that position (`Copied`). A beat never reaches past the transfer of its
  burst, and the position lies in it (`WriteSpan`), so exactly one entry of `pending`
  grows. That a transfer answered is written needs a history of the last flags: each
  is a mark that names the transfer of its burst (`Marked`); a mark whose burst
  is still queued is set exactly if burst and transfer end at the same position, and
  one whose burst is gone, if set, is of a transfer written to its end. The response in
  turn waits for the memory, which answers only bursts whose data it has (`Balanced`:
  the AWs and write bursts it owes are counted by the queues). This is where
  **`ToMemory`** is needed (every transfer of `Requests` goes to AXI): the response of a stream
  burst is valid without waiting, so a transfer to a stream can be answered before its
  last byte is sent (section 6), and then neither theorem holds. The runs that check
  the two properties have only such transfers for the same reason.
* **`NdMidendProofs`.** A counter counts only when all below it are done and it is not
  itself, so it is below its limit; all are set back together when the request is
  taken. Each transfer begun has one last flag in the backend's queue or is still
  being sent; this needs that nothing was sent of a request that has no
  repetitions. For the addresses the counters are the digits of the number of the burst in
  a mixed radix, and the selected stride is what the address changes by when the carry stops at that
  digit; both the reference and the carry are recursive functions over the dimensions, for which the
  proofs use the induction of `CommonLemmas`. Any number of dimensions.
* **`DescFrontendProofs`, queues.** The reads sent and not yet answered are, oldest first, the one
  whose last beat is awaited (what follows it is decided), those a flush has condemned, and the
  live ones. The live ones and then those in `pending` lie in a row from the base address
  (`RunInv`), and everything else is told by them: the guesses are the addresses after the
  base (`GuessInv`), the write-backs are what the backend holds, what waits for it, the
  descriptor whose last beat is awaited, and the base address once its read was sent (`WbInv`,
  until an address is lost), each descriptor that awaits its report has at least one interrupt flag
  (`FlagsInv`, until an entry is lost), and every read in flight has a slot of the request FIFO kept
  for it (`SlotInv`). A memory that pauses can hold the reader at any beat, so the
  invariant goes by whether what follows the descriptor is decided
  (`Decided`), which a pause leaves alone, and not by the beat. Until a flag is offered twice the
  flags are exactly those of the descriptors that await their report and of the one being read
  (`IrqInv`). The lockstep of the three queues rests on it, and so does `DropsExplained`: the
  first flag lost met a FIFO whose entries are the requests queued, the write-backs waiting,
  the transfers in the backend and the write-backs the memory owes, so the last two together are more
  than `BackendDepth`; for the first address lost the backend alone holds more. Both happen
  (`MCDescIrqOverflow.cfg`, `MCDescAddrOverflow.cfg`), so neither is assumed away: the backend
  and the memory may hold any number, and what an entry lost destroys is conditional on the
  history `lost`.
  `Lockstep` alone is far from inductive: a flush in the cycle in which a prefetch is sent, or while
  a descriptor is half read, changes which reads are condemned, and this must come out right in the
  gater, in `pending` and in the queue of guesses at once. Any number of descriptors and chains, all depths.
* **`DescFrontendProofs`, order.** What was handed on and is not reported is a prefix of
  what software owes, position by position. The next base address stands in `owed` right behind what
  was handed on, or a chain is finished and the next one submitted begins there
  (`OrderInv`).
* **What `DescFrontendProofs` assumes of the environment.** Only `ChainsInMemory`, and only for the
  order: a descriptor in memory names the one that software put behind it, and the last one names
  none. All chains of the runs satisfy it. How much backend and memory hold and how the memory
  pauses is arbitrary; what a pause disturbs is the interrupt flags, and not what is handed on, its
  order or the busy bit.
* **`DeployProofs`.** The invariant says where a job that was never late may be: at
  most the last command it started still runs, the deploy branch is checked out
  without a commit until the commit has ended, and what is pushed from then on has
  the generated files. It needs two facts about the others: a push sends only what is
  ahead of what it saw, and the origin takes it only if it still sees the same; so a
  deployed branch stays. Any number of jobs and commits.
* **`CommonLemmas`.** Integer division and remainder (Z3 knows little of either), powers of two, the
  length and the elements of a queue that is popped and pushed in the same cycle,
  the number of TRUE flags in such a queue (`Occurrences`), and induction over natural numbers without
  a theorem that takes an operator: a function into the naturals that does not fall, or one
  that satisfies a recursion, is handled through the smallest number at which a finite
  set of counterexamples begins (`Climb`, `ClimbAll`, `Recursion`).

Only model-checked:

* liveness (`TransferFinishes`, `StoreDrains`, `ContinuedComplete`, `AbortEnds`, `AllAnswered`,
  `RequestsComplete`, `Completes`): the prover has no rules for fairness or `ENABLED`;
* the generator and the trace tools (`GenIdma`, `TraceIdma`): their operators are folds over sequences
  of words and of log entries, so that what they compute needs induction over data.

## 6. Findings

Each is the violation of the run named:

* `coupler_mixed`: with coupled and decoupled AWs in the same store, a decoupled AW
  uses up the grant of a coupled one, which then stays in the store.
* `eh_wrap`: with as many transfers in flight as the queue of last flags holds the counter has
  wrapped to zero; an abort then waits for ever, in a state the code calls impossible.
* `eh_abort_twice`: the flush after an abort ends when the datapath is idle, while
  write responses may still be outstanding; one of them completes the aborted
  transfer a second time.
* `desc64_pause`: the interrupt flag of a descriptor is offered as long as the reader
  holds one beat, so a memory that pauses there queues it several times.

The details and the lines are in `PROJECT.json`. The configurations listed in section 4 show
five more:

* `MCEhMissed.cfg`: an error moves the error handler to its waiting state whether the front
  end takes the report or not (`idma_error_handler.sv:253,273`); if not, the report is
  gone, and the handler waits for an answer to an error nobody has seen.
* `MCEhBothLivelock.cfg`: a read and a write error in the same cycle block each other's
  response (`idma_error_handler.sv:251,271`), so continuing leads back to the same two errors.
* `MCBackendInflight.cfg`: the backend takes in one transfer more than `MetaFifoDepth`,
  which `idma_backend_rw_axi_rw_axis.sv:125` calls "the maximum number of transfers that can be in-flight
  under any circumstances": the last place of the queue of last flags is filled in a cycle in
  which the legalizer takes the next transfer. `idma_desc64fe_axisbe_wrap.sv:30` hands the
  number on as `BackendDepth`, so the FIFO of addresses to write back loses an
  entry (`MCDescAddrOverflow.cfg`), which `idma_desc64_top.sv:474` asserts it does not.
* `MCDescIrqOverflow.cfg`: the FIFO of interrupt flags keeps a flag until the memory answers the
  write-back, and write-backs under way are not counted in its depth (`idma_desc64_top.sv:429`); one
  is enough to lose a flag, which `idma_desc64_top.sv:473` asserts does not happen.
* `MCDescWWrap.cfg`: write-back addresses are sent without regard to the counter of data still to
  send (`idma_desc64_top.sv:160,195`), which wraps to zero; the data is then no longer offered.

Exceptions that the properties of `generator` name:

* `render_transport_layer` returns inside its loop (`transport_layer.py:198`), so only the first
  of several IDs is rendered, and the exit status is 0 (`AllOrNothing`).
* `render_legalizer` writes the formatted text back into the database without its last newline
  (`legalizer.py:46,52`); for the next ID with the protocol its last line is cut off (`TextsIntact`).
  `idma.mk` passes one ID at a time to both.
* AXI lite's traced signals are listed under another prefix than its ports have
  (`idma_axi_lite.yml:164`, `TracedPortsExist`). No backend of `idma.mk` uses it.
* `trace_idma.py:69` looks up a strobe for every write beat; INIT has none in its traced
  signals, so the evaluation ends with a `KeyError` (`UtilizationRight`). A backend with INIT on both sides
  has two traced signals of one name and is left out as well.

Seen while modelling, and not the subject of a property:

* A transfer to AXI stream is answered when its last burst enters the response queue,
  before its bytes were sent (`idma_axis_write.sv:160`).
* A front-end ID that does not start with `reg` is dropped without a message.
* The deploy job is green when no generated file was deployed: a late command, a lost
  lock or a message with a double quote leave the bare commit on the deploy branch.
  A run that is repeated and in time repairs it.

## 7. What is not modelled, and why

* The descriptor front end on buses of other widths, without prefetching, and its
  register file, which delays a submission by a cycle: planned.
* The backend without the hardware legalizer, and the other protocols: planned, the
  datapath is the same. Transfers that write to a stream are left out of the runs of
  `Backend`, so the order of responses of ports that answer at different speeds is not checked.
* Of the generated transport layer, the names of the internal nets and the enumeration
  by which it selects a port: `GenIdma` has the ports and what is traced of them.
* Values of bytes, AXI attributes, ids, error payloads: nothing depends on them.
* The generated register files, the wording of the templates, the synthesis wrappers,
  the debug output and the testbenches.
* The lint and listing scripts, the job file converter and the documentation settings:
  stateless text processing, in which only the patterns themselves could be wrong.
* Reset in the middle of operation: the code resets all registers at once.
* The Snitch front end: it needs a model of the core's accelerator port.
* Everything in section 2 under "Next".
