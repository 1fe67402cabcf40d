# libcamac in TLA+

libcamac is a C++ library for CAMAC crates: a small server layer over a device
driver, a compatibility layer that gives a family of module drivers the
interface they were written against, and the drivers. This directory models
the parts of it that are hard to test: what its threads do to each other, what
a wait with a deadline answers, what a driver makes of a device that is slow,
silent, in alarm, or goes on measuring while it is read. TLC checks the models
on small instances; TLAPS proves, for every value of the constants, every safety
property that TLC checks.

Paths below are relative to the repository: `src/base.cpp` is the library's
`src` directory, `camac/` abbreviates `FedorovClient/camac/`.

Contents: [the system](#the-system) - [modules](#modules) -
[runs](#runs) - [fairness](#fairness) - [proofs](#proofs) -
[findings](#findings) - [what is not modelled](#what-is-not-modelled) -
[races](#races-that-are-shown-and-not-guarded) - [plan](#plan).

## The system

    module drivers      LeCroy, ADC333, HVS_B0307/8, Counter_S0301, ...
        |  AF, WaitLAM, Bind, Init, Verify, Test
    dfCamacModuleBase   one module at one station         LAMHandler (a thread)
        |  Module::AFR/AFW/AFC/waitLAM, Crate::C/Z             |  WaitLAM
    Camac::Server > Interface > Crate > Module    (abstract, CamacServer.h)
        |
    Mamkin::*  over the lsi6 library      Fedorov::*  over the camac kernel driver

### Inventory

| Component | State it keeps | Operations | Hard behaviour | What makes it correct |
|---|---|---|---|---|
| Result word, `include/CamacServer.h`, `src/CamacServer.cpp` | none | `ResultBits`, `AF::isRead...`, `getModule`, `printResult` | one word carries errors, answers (no Q) and the truth value BOOL; a negated or raw error code read as a result changes meaning | errors are never taken for BOOL |
| Module base, `src/base.cpp`, `camac/dfmodule/base.h` | `_module`, `_station`, `_lcm`, `_onCloseAfList` (always empty) | `Bind`, `Unbind`, `AF` (3), `ListAF`, `C`, `Z`, `WaitLAM` | a wait of many rounds with one budget, a LAM shared by stations, deadlines, errors in the middle | BOOL only for a confirmed LAM; a fault is reported; time is kept |
| `LAMHandler`, `src/base.cpp`, `base.h` | `exitFlag`, `_cb`, `_data`, a thread | constructor, destructor, `staticCallback` | a thread against its owner, nothing locked | no callback after destruction, no null module, the destructor returns |
| Mamkin server, `src/MamkinServer.cpp` | `_fd` of each crate | `fd`, `getCrate`, `AFR`, `AFW`, `AFC`, `C`, `Z`, `waitLAM` | lazily opened descriptor shared by threads, devices that fail to open | one descriptor, no result that does not come from the device |
| Fedorov server, `src/FedorovServer.cpp` | `_fd` of each module | `bind`, `findFd`, `dfcamac_wait_events`, `C`, `Z` | an events mask saved and restored around a wait; descriptor shared through the crate | the mask is restored; a failed bind can be retried |
| LeCroy 2132 driver, `camac/dfmodule/LeCroy*` | `VoltCode` and the interface's buffer and LAMs | `Set/Get(True)(All)Voltage`, `TurnOnOff`, `CheckTurnOn`, `Init`, `Test`, `Verify` | request and answer with loss, delay and alarms; retries | answers belong to the call, alarms are reported, CC_OK means done |
| ADC333 driver | `_parameters`, `_buffer` | `StartCycle`, `StartSingleRun`, `Stop`, `Trigger`, `Read`, `EnableChannels`, ticks, `IsBusy`, `CheckLAM` | a buffer filled under one set of parameters and decoded under another; a memory gone round; a start that races the module | samples go to the channel they came from, all of them; the LAM tells the end of a run |
| High voltage supplies HVS_B0307/B0308, attenuators, coincidence units, CAS, delay units, discriminators, ZIF, LIZA, IV_C0309, U0302 | a shadow copy of the registers they write | `Set...`, `Get...`, `Turn`, `Init`, `Verify`, `Test` | the shadow must follow the device through failures; dozens of accesses in one answer | a failure is told; `Verify` and the shadow are honest; `Test` restores |
| Counters S0301, QDC_C0312, TDC_C0301, TDC_C0309 | lists of accesses, static in QDC and TDC_C0309 | reads of a channel, of a pair, of a list, with and without clearing; `CZReset`, `Init`, `Test` | two-word reads while pulses are counted; lists that instances share; C and Z that reach every module | no count is lost; data is the instance's own |
| LeCroy 2249, `src/lecroy2249.cpp` | `_ignoreQ` (uninitialised) | `read`, `reset`, `checkLAM`, `ignoreQ` | a result narrowed to `bool` | what is answered without an error was measured |
| Address parser, ModuleMap, error printers, test codes | none, a map | pure functions | parsing | totality, round trips |
| Python binding `src/pycamac.cpp`, `benchmark/`, C tools | none | glue, measurement | - | - |

### How they interact

* Drivers reach the crate through `dfCamacModuleBase::AF` and `WaitLAM`, which
  call the abstract `Camac::Module` the base was bound to.
* A `LAMHandler` shares its `dfCamacModuleBase` by reference: two threads read
  `_module`, one writes it.
* Every module of a crate shares the crate's descriptor through `Crate::fd()`.
* The device calls nobody: it raises a line (LAM) that is polled or waited for.

The hazards this leads to are listed one by one in `PROJECT.json`.

## Modules

| Module | Models | Uses |
|---|---|---|
| `CamacResult` | the result word, `txqToResultBits` | - |
| `WaitLam` | `dfCamacModuleBase::WaitLAM` over `Mamkin::Module::waitLAM` | `CamacResult` |
| `HandlerLife` | what a LAMHandler promises (abstract) | - |
| `LamHandler` | `LAMHandler` and the owner of its module | implements `HandlerLife` |
| `MamkinCrate` | `Mamkin::Crate::fd` and the operations through it | `CamacResult` |
| `LeCroyHV` | the operations of the LeCroy driver | `CamacResult` |
| `RegisterDrivers` | the twelve drivers with a shadow of their registers | `CamacResult` |
| `Adc333` | the ADC333 driver and the module that samples | - |
| `Readout` | counters and converters, two modules of a crate | `CamacResult` |
| `FedorovServer` | `Fedorov::Module`, `Crate::findFd` over the kernel driver | `CamacResult` |
| `MC*` | instances for TLC | |
| `WaitLamProofs`, `LamHandlerProofs`, `MamkinCrateProofs`, `RegisterProofs`, `FedorovProofs`, `LeCroyProofs`, `Adc333Proofs`, `ReadoutProofs` | theorems | TLAPS |

`PROJECT.json` maps every definition to the lines it models. Conventions:

* A definition whose name ends in `_` is not the code's. It is the mistake some
  property guards against, and stands before the definition it would replace.
* A result is the set of its flags, so `CC_OK` is `{}` and `|` is union.
* History variables (`heard`, `faults`, `late`, `taken`, `failed`, `raced`...)
  record what happened for the properties. A guard reads one only to bound the
  exploration, and says so.
* A property that holds only as long as the callers keep some order has that
  order as a history in its premise (`~pulled`, `~raced`, `~crossed`, `~late`,
  `~early`, `~overlapped`...). No action is forbidden: the runs also walk through
  what comes of it when the order is not kept. Such a property does not guard
  against the race its premise names, it shows that nothing but that race breaks
  it; see [races that are shown and not guarded](#races-that-are-shown-and-not-guarded).
* An operation that is a straight line of accesses is written as that line: a
  sequence of steps in `todo`, with one action per kind of step. Everything
  else, the module's own life included, interleaves between them.
* `TypeOK` is in every module. The runs check it, or a theorem states it, where
  proofs build on it; in the others it describes the variables.
* The bounds of the models are constants named `Max...`, `Rounds`, `Size`; the
  code's own limits keep the code's names (`Limit`, `PollingLimit`).

### WaitLam

A call is `Call(t)`, then `Loop`, `Issue`, `ServerReturns`, `Served` and
`Probe` for each round of the loop at `base.cpp:197-252`, then `Done`. `Call`
also covers the two early returns (not bound, nothing to wait for, the latter
through `PollReturns`). Time is a counter of ticks and moves on between any two
steps; `Centi` ticks make the unit of `CAM_LWAIT`, and `LWaitTime` truncates to
it as `int(timeout*100)` does. `DF_TIMEOUT_INF` is a model value. `left` is
`*timeout`. The line is shared by the stations of a crate, so it goes up and
down by itself; the probe's answer is any `xq` and any data, of which only the
test against the bitmask matters. Failures are of two kinds: on the bus (no
descriptor, the probe) and of `CAM_LWAIT`, which the code cannot tell from a
timeout. The lsi6 library is external: `CAM_LWAIT` returns a LAM while the line
is up, nothing when its time is up, or fails at any time.

The caller binds and unbinds between its own calls here; what it may do to
another thread's call is `LamHandler`.

### LamHandler

Every read of `_module` and `exitFlag` is a step. A thread is at `pc[h]`: the
test of the loop, inside `WaitLAM` before or after one of its accesses to
`_module`, before the second test, in the callback. `Bind` is two steps, as it
clears `_module` before it looks the new one up. A use of `_module` after it
was cleared is a data race: the build has either kept the pointer (the call is
made) or reads null (`"crashed"`). The rounds of `WaitLAM` within its second
are bounded by `Rounds`. What `WaitLAM` answers is left open, because
`staticCallback` drops it. The owner may bind and unbind whenever it likes;
`pulled` records that it did so under a living handler, which `base.h:138`
(bind first) has it avoid.

The abstract `HandlerLife` has three phases and the set of handlers that are
in a callback. `LamHandler` maps `phase` to `object` and `exitFlag`, `calling`
to the threads at `"callback"`, `spent` to the handlers with a late callback.

### MamkinCrate

`Crate::fd()` is cut where it reads and writes `_fd`: `Look`, `Access`, `Open`,
`Store`, `Settle`, `Unbind`, `Reread`. The operations run through it and then, in `Bus`,
through the library; the 16 bit write calls `fd()` twice. A module can be had
only from a crate that `getCrate` has answered with, so all other operations
need `ready`. `raced` records that two `getCrate` calls overlapped, `refused`
that `open()` failed on a device that was there. `open()` gives a descriptor
that is not in use; nothing closes one. With both histories up a second, failing
`open()` overwrites a good descriptor, and a raw -1 read by `GETFD` becomes
result 1, which is BOOL (`MamkinServer.cpp:30`, `:117`).

### LeCroyHV

All eight operations are the same loop with other decisions at each point:
which errors end the call and which only the round, whether the result of
`GetLAM` is looked at, what a foreign tag means, whether `rc` is shadowed in
the round. A record per operation holds these decisions, read off the code, and
the actions `Before`, `ClearInBuff`, `ClearLAM2`, `Command`, `DataWord`, `Poll`,
`Heard`, `ReadWord`, `ReadNothing` make one AF each. Points of the code kept on
purpose:

* `rc<0` after `GetLAM` is never true (results are positive), so an error of
  `GetLAM` goes unnoticed (`deaf`) and `type_lam` is what it was before: at
  first any value, in SetVoltage and SetAllVoltage in every round.
* `GetAllVoltage` leaves `flag` up when an answer has another length than the
  caller's array, so that it answers 0 with `data` untouched after such a last
  round (`LeCroy_public.cpp:367-381`), although `LeCroy.h:111` has it as "read
  voltage codes in all channels". `SettingIsRead` says that this is the only way
  it answers CC_OK without a reading; `OkIsRead` is violated by it as it is by
  GetTrueVoltage (finding 3).
* The loops that read words never look at `size` (362, 494). What bounds them is
  the answer: `WordsKeepToAnswer` says that a round reads no more than one, as
  long as none came late. A caller with fewer places than the mainframe has
  channels is overrun by a prompt answer.
* `GetVoltage` and `GetAllVoltage` declare a second `rc`, and read on after a
  failed write (`refused |-> "poll"`) only to return the collected error.
* `CheckTurnOn` makes all its rounds whatever it has read.
* The operands of `|` are evaluated from left to right, as GCC does; the
  language leaves the order open.

The mainframe is external: to each command it puts one answer under way or
none, and the answer may be full, a word short or garbled; it arrives whole,
raises LAM2, and what the buffer cannot hold is lost. Words carry no mark of the
command they answer; `mine` is history, as is `late`: an answer was still under
way when the driver began another round.

### RegisterDrivers

A driver is the tuple of its registers. A register is a record of what its
setter and getter decide: whether a word with foreign bits is refused and with
what, when the shadow takes a word (`keeps`), how many of its bits it has room
for (`width`), what a read makes of a word with foreign bits (`reads`), and
whether Q matters (`lax`). An operation is the sequence of the steps the class's
code makes, `Program(class, op, channel)`. A word is the set of its bits, so
masks are intersections; the bit `"x"` is one no register holds, which a module
in overload answers with. A write that fails may have been done all the same, a
read that fails brings any word. Between the calls nothing touches the device:
the drivers have no threads of their own.

The shadow is compared with the device by `InSync`; the properties leave out, by
name, the classes whose code does otherwise:

* `HVS_B0307`, `HVS_B0308` (`HVS_B0308.cpp:167`): `Code &= ~VoltageMask|v` only
  clears bits, so that the shadow is right again only after `Update`; `Init`
  with words and `Test` write beside the shadow; `HVS_B0307::Init()` drops what
  it has read.
* `Coincide_C0308::SetMaskAND` (`:147`) stores the word when the write failed.
* `LIZA_B0608` never stores what `SetDelay` wrote (`!rc&...`), and its `Init`
  takes an overload for a word.
* `DelayPulseShaper_L0323::Init` writes back the 0xFFFF its getter made of an
  overload. `ZIF_L0323::Test` (`:53`) answers BROKEN whatever it finds.
* `IV_C0309::SetControl` answers 1, which is BOOL, when the word read back
  differs; `U0302` writes all its channels in every operation.

### Adc333

The module is the second process: `Take` puts a sample of the next channel of the
scan into the memory and counts the address down, and a single run ends with
the LAM when the memory is full. The driver's operations are the sequences of
accesses that `Reset`, `Readout` and the starts make, each of which may throw and
end the operation there. `decode` is `Read`'s loop over the buffer. A sample
remembers its gain and its channel (`of`) beside the bits the module gives it, so
that what is put out can be compared with what was measured.

Three histories say when nothing is promised. `torn`: an access of a start or a
readout has thrown, and a partial buffer is taken for a whole one afterwards.
`early`: the module ran while a start was still preparing it, as `WriteStatus`
lets it go before the address is written (`ADC333.cpp:147`). `retuned`:
`EnableChannels` came between the readout and the decoding of its buffer. The
properties speak of channels that exist: a channel beyond the last is not refused
but divided by (`ADC333.cpp:77`), and `Read` may answer for it with an overload of
another channel. Seen on the way: three enabled channels of a memory gone round always end
in VERIFICATION_ERROR, because three does not divide 65536.

### Readout

Instances of `Counter_S0301`, `QDC_C0312`, `TDC_C0301`, `TDC_C0309` and
`LeCroy2249`, each with a thread, over modules that count pulses and convert
events between any two accesses. `list` is the data in the static lists of a
class: `ListAF` writes into it entry by entry, and `copy` takes it out. `C` and
`Z` of one module reach all modules of the crate; `Lock` and `LockCZ` of
`base.h:53-63` do nothing, so nobody is spared. `ignoreQ` of a `LeCroy2249` starts
with any value, as its constructor leaves it.

`due` counts the pulses a caller has not been told of; `spoiled` says that a
carry, a fault or a C or Z came between the accesses of a `Read2clear`, which it
cannot survive; `wiped` that a C or Z came during the operation; `overlapped` that
the list was in another instance's hands as well. `QDC_C0312` hands `ListAF`
the size of a pointer for that of its list: `PointerEntries` entries, one with
pointers of 64 bits and none with 32, so it reads only channel 0 and its
`ReadClearLAM` never clears the LAM. `DataIsMine` asks of a QDC's list only the
entries it does pass (`Meant`).

`TDC_C0301::CZReset` is the code of the other drivers, and is commented "doesn't
work" (`TDC_C0301.cpp:62`, `TDC_C0301.h:52`). Nothing in it can fail to work but the module, so the
model lets a TDC_C0301 be deaf to a C or Z (`MaybeDeaf`). The call answers the same
whether the module has heard it or not; `ResetIsReal` leaves the class out.

### FedorovServer

Each read of `_fd` that decides something, and each call of the kernel driver, is
a step. `bind` (`FedorovServer.cpp:50`) opens a descriptor straight into `_fd`,
initialises it, and closes and forgets it when that fails. `WaitLAM` reads the events mask,
sets it, waits in `select`, takes the events, restores the mask and reads the
errors, each of which may fail. `findFd`, for C and Z, takes the descriptor of the
first module that has one, or binds module 0. The driver's header, `camac/kernel.h`, is
not in the repository: what its calls do is taken from how they are used.

`raced`: a thread has read an `_fd` that another was binding; after that the
model follows no new calls. `crossed`: two threads waited on one descriptor at
once. `masked`: a call that sets or restores the mask has failed. The class
overrides nothing of the interface's `waitLAM` (it spells it `WaitLAM`), so it is
abstract as it stands and only `fedorov.make` compiles it; the model is of the
functions as they are written. A timeout is answered with -1, all bits of a
result, and events of other kinds are returned as they are.

## Runs

| Run | Instance | Shows | States |
|---|---|---|---|
| `wait_checked` | every check method, timeouts 0, 1, 3, Inf ticks, fair | types; BOOL is confirmed or late; faults are returned; CC_OK is due; rounds share the budget; `*timeout` falls; finite waits return; a LAM that stays up ends a wait without a check method | 410 830 |
| `wait_timeout` | method BY_Q | finding 1 | |
| `wait_by_notq` | method BY_NOTQ | finding 2 | |
| `handler` | 2 handlers, any owner, fair | types; null calls only of a module pulled from under a handler; no use after destruction; implements `HandlerLife`; destructors return; handlers call back | 7 159 |
| `crate` | 2 threads, device may fail to open, any order | one descriptor, kept, and results that are the device's, until getCrate calls overlap; what is leaked when they do | 1 125 828 |
| `hv` | all operations, answers at any time | alarms are kept and real; no fault is covered when settings are read, and GetVoltage answers CC_OK with a reading only; prompt answers belong to the call, and no round reads more than one | 3 625 727 |
| `hv_returns` | one operation of each shape of loop, fair | a call returns | 194 877 |
| `hv_true_voltage` | GetTrueVoltage | finding 3 | |
| `registers` | twelve classes, one data bit | failures are told; Verify is honest; Test restores; Init adopts; shadow and device agree while calls succeed | 2 475 460 |
| `adc333` | 3 channels, memory of 4 words | a Read is right and whole; the LAM tells the end of a run | 2 276 950 |
| `readout` | 2 modules of 2 channels, 2 pulses, 2 events, 3 calls | no count is lost; a pair is read within a low word; data is the instance's own; CZReset resets, TDC_C0301's excepted | 2 858 805 |
| `fedorov` | 2 threads, 2 modules, 2 descriptors | descriptors are ready and none leaks; C and Z reach the crate; the mask is restored; BOOL is a LAM | 2 386 767 |

Bounds, and why they are enough:

* `Centi = 2`, `MaxClock = 5`: a wait of one tick is truncated to a poll, one
  of three ticks to two with a remainder, and the clock leaves room for
  a call with a deadline after another. `Call` does not take a deadline beyond the bound.
* Two handlers: they interact only through `_module` and the owner.
  `Rounds = 1`: a second round of `WaitLAM` differs from the first only in
  that `_module` is not tested again, which one extra round shows.
* Two threads and three descriptors: two threads can each leak one and a third
  is free. The functions are one of each class (read, write, control) and -1,
  the function of `AF()`.
* `Limit = 2`: a first round, a last round. `Size = Channels = 2`: a full
  answer, one a word short. `PollingLimit` 0 or 1 instead of 100: the count
  only delays. `MaxBuffer = 3`, more than an answer, so that an answer on top
  of a stale word shows. `MaxPending = 1`: a late answer and a new command.

* `registers`: bits are independent, so one data bit, the foreign bit and the
  switch show what a mask keeps, drops or lets in; two registers show what a
  loop over channels makes of the first and the last.
* `Size = 4` words and `ChanCount = 3`: the memory is filled, and gone round by
  a cycle; two channels divide it, three do not. `MayOverload`, `Followed` and
  `MayFail` keep to one overload in a run, to runs a property speaks of, and to
  one failure until the next start.
* `Words = 2`: the second pulse (`MaxPulses = 2`) carries from one word of a
  counter into the other. `MaxEvents = 2`: an old event and a new one.
  `MaxCalls = 3`: an operation against an operation of the other module, and one
  after them.
* Two modules and a descriptor for each: a module that is bound, and one
  `findFd` passes over. `MaxPending = 1` event at a time: one of two waits
  takes it, and another may come.

`handler` and `fedorov` do not check for deadlock, as a null call and a failed
assertion end the process there, and `readout` does not because callers stop.
`SYMMETRY` is used in runs without liveness properties only.

## Fairness

* `WaitLam!FairSpec`: the clock runs (`Tick`) and the thread is scheduled. A
  `CAM_LWAIT` is owed a return when its time is up or its line is raised, which
  is what the library promises; a failure is never owed, so fairness covers the
  thread's steps that add no fault.
* `LamHandler!FairSpec`: each thread is scheduled; the callback returns and a
  slice of `WaitLAM` ends (its timeout is finite, see `FiniteWaitReturns`); the
  owner finishes a `Bind` or a destructor it began, once it can. The owner owes
  no other step.
* `LeCroyHV!FairSpec`: the thread is scheduled and answers under way arrive.
  The mainframe owes no answer and no alarm.

## Proofs

What TLAPS proves holds for every value of the constants the named assumptions
admit. Each proof module states a type invariant, an inductive invariant
`IInv`, and the results as consequences of it.

`WaitLamProofs` (`WaitAssumption`). `TimeInv` is the account of time: what
`*timeout` holds is at least what is left, `until` is less than a unit short of
`target`, and a result CC_OK that is on its way to the caller is due. `FaultInv`
says that a bus fault occurs only in the last operation of a call; `HeardInv`
that a LAM on its way to the check method has been heard in this round. They
are needed because the properties speak about the moment of return only, while
the facts they rest on are established several steps before. Results:
`AnswersAreHonest`, `BusFaultsAreReturned`, `TimeIsKept`, `TimeoutsAreDue`,
`LeftShrinks`. The truncation to units is a lemma (`Truncation`) on integer
division.

`LamHandlerProofs` (`HandlerAssumption`, any set of handlers). `ObjectInv` ties
thread, object, `exitFlag` and owner together: exitFlag is up exactly while the
owner joins. `LateInv` says where a thread can be after a late callback.
`BoundInv` says that the module is bound while a handler lives and it was not
pulled. Results: `NoCallbackAfterDestroy` and the refinement `ImplementsLife`
for any owner, `NoNullCall` for one that has not pulled the module. The refinement is proved step by step: each
step of `LamHandler` is one of `HandlerLife` or leaves the mapped variables
alone.

`MamkinCrateProofs` (`CrateAssumption`, any set of threads). Types are kept with
and without order among the getCrate calls. Unless `raced`, `CrateInv`
says that one thread at most is in getCrate and that a crate that was handed
out has its descriptor; `ThreadInv` that only that thread can be in the opening
branch of `fd()` and that every value of `_fd` another thread has in hand is the
crate's. `LeakInv` is about the races: as long as `open()` has not failed on a
device that was there, a descriptor that `_fd` does not have yet is in the hands
of the thread that opened it, and each thread that has still to open leaves room
for one more; so there are never more than threads. It counts threads, which is
why `Threads` is a finite set. Results: `OneOpenDescriptor`,
`SuccessComesFromDevice`, `LeaksAreBounded`.

`RegisterProofs` (`RegisterAssumption`: any set of the twelve drivers, any finite
set of data bits; finite, as `Test` walks through the bits one by one). What an
operation does is a sequence, so most of the work is about sequences: `Decisions`
reads the registers' decisions off their records, and `Programs` says of every
program of every class of which kinds its steps are (`StepsOf`) and in what
order they stand. `ReadsThenUses`: what is compared or adopted has been read.
`Restored` and `Saved`: what is tried is put back, and from a word saved before
it. `Follows`: where the shadow changes on its own, a step that is sure to bring
shadow and register together is still to come. The state invariants follow what is
left of the program:
`FailureKept` (from the first failed access on, `rc` holds an error, whatever is
still to be done), `Types`, `ReadInv` (until something is amiss, what is used is
the register's word, and a channel whose shadow disagrees has its use to come),
`RestoreInv` (from its saving to its restoring, the word saved is the channel's,
and a channel that has been written has its restoring to come), `SyncInv` (a
channel agrees, or a sure step for it is to come). Results: `FailuresAreTold`,
`TypeCorrect`, `VerifiesAreHonest`, `InitsAdopt`, `TestsRestore`,
`DriversStayInSync`.

`FedorovProofs` (`FedorovAssumption`, any set of threads, any number of modules,
any set of descriptors). Types, and which operation can be where (`TaskInv`),
hold through races; the rest is promised as long as there was none. `BindInv` is
about binding: a module has one binder at most (`OneBinder`), how far it has got
says what is open (`BinderInv`), a module nobody binds has a descriptor that is
ready or none open (`Settled`), and a thread that has passed `bind` uses a ready
one (`UserInv`). `MaskInv` says that a mask is never wider than chosen and that,
while it is narrower, some wait that will restore it is under way (`Restorers`):
overlapping waits make that one thread among several, so it cannot be said of the
thread that narrowed it. `ReachInv` and `LamInv` are about answers: `LamInv`
needs that one thread at most waits on a descriptor (`OneWaiter`) to conclude
that what woke it is no maskable event. Results: `DescriptorsReady`,
`NothingIsLeaked`, `CratesReached`, `MasksRestored`, `LamsAreReal`.

`LeCroyProofs` (`HVAssumption`, any set of the operations, any number of rounds,
polls, channels and words). An alarm stays up during a call, so `KeptInv` follows
it from the poll that sees it to the answer, and `RealInv` says that `type_lam`
tells of one that is up unless a poll failed, which is when it is the
uninitialised or outdated value. `SettingInv` is that a failure on the bus stays
in `rc` at every point of the two getters until it is returned, and so that no
later round starts with one, and that CC_OK comes with a reading or, from
GetAllVoltage, with a last answer of another length than the array; it needs
`MessageInv`, as a word whose tag is unknown would end the round elsewhere. `MineInv` is about words: unless an answer
was late, those under way in a round are the call's, and so are those in the
buffer unless clearing it has failed. Then the error is in `rc` and stops the
round before it reads, except in the operations that are deaf to errors of
`GetLAM` and reset `rc` there: these end the round before they poll. `FitInv` counts: what a
round has read and what it has still to read are together no more than one full
answer (`Full`), because what is under way answers the call and nothing was left in
the buffer before. It needs nothing of the array or of the number of channels. Results: `TypeCorrect`,
`AlarmsAreKept`, `AlarmsAreReal`, `SettingsAreRead`, `AnswersAreMine`,
`WordsAreBounded`.

`Adc333Proofs` (`AdcAssumption`: any number of channels, any memory of two words or
more, any settings). An operation is a script and `At` the place in it
(`TodoInv`), so that an invariant can say what holds between two accesses.
`BusyInv` is about the module: it runs unhalted, with channels to scan, and not
while a start prepares it. `RunInv` says what the memory holds: the samples of the
run from its highest word downwards, in the order of the scan, until it has gone
round, from where on every word is of this run; and when the module has come to
rest, the LAM says so. `BufferInv` and `FetchInv` carry this over the readout to the
buffer, word by word. It all holds while the driver is `Sound`: no start has
been overtaken by a run, and none that failed has left the state behind, where the
status written by a new start mends an old failure. `ReadInv` is about `Read`'s
loop: it puts out every `ChanCounted`th word from `ChanIdx` on. That these are the
samples of the channel, and all of them, is arithmetic: the lemmas on division
(`Division` to `NextRemainder`), on the place of a channel among the enabled ones
(`Ranks`) and on the places where a sequence shows one remainder (`ChosenWords`,
`ReadFinds`). Results: `TypeCorrect`, `LamTellsTheEnd`, `ReadsAreRight`,
`ReadsAreWhole`, and `AssertionHolds`: the position that `Rewind` verifies is the
one it expects, unless a failure or a race came first.

`ReadoutProofs` (`ReadoutAssumption`: any number of instances, of channels in pairs,
of calls and of pulses a word pair has room for). `State` is the types, what the
rest of each program can be (`TodoInv`), and that the results and the words of an
operation are as many as its accesses so far (`WordsInv`). Each further invariant
is about one instance and has two lemmas: what a step of the instance does to it,
and that a step of another (`Others`) leaves it alone or wipes it. `ResetInv`: an
answer of `CZReset` without an error comes from a C or a Z that was done, after which
nothing is fresh and no LAM is up until another event comes, instances of TDC_C0301
excepted. `CountInv` is a balance: the
pulses due are those in the counter plus those `Owed`, which `Read2clear` has taken
off and not yet returned. `CloseInv`: the high word that was read is between the
one at the call and the one there. `OwnInv`, `ListInv` and `SharedInv` are about
data: words read one by one are the instance's own, words in a list are up to the
access that is due, and two instances in one list know of each other. Results:
`ResetsAreReal`, `CountsKept`, `ReadsAreClose`, `DataAreMine`.

Only model-checked: liveness (`FiniteWaitReturns`, `HeldLamEndsWait`,
`DestructorReturns`, `CallsBack`, `CallReturns`). Proofs under fairness and with
ENABLED are out of the prover's reach. Proved and not run: `AtMostOneLateCallback`,
which `KeepsLife` contains, `AssertionHolds`, and the types of the modules whose
runs do not list `TypeOK`. Recursive operators and induction over data are out of
its reach as well; no module uses them.

## Findings

1. `wait_timeout`: `WaitLAM` whose deadline passes between two rounds, or ahead
   of the first, returns CC_BOOL (`base.cpp:253`), the answer for a LAM. The code takes the absence of
   BOOL for a timeout (`base.cpp:204`, `// timeout`).
2. `wait_by_notq`: with CAMAC_LAM_CHECK_BY_NOTQ, a probe without Q is returned
   as an error (`base.cpp:227`), as CC_NOT_Q is one of CAMAC_CC_ERRORS; the test
   at 236 is never true. `defs.h:420` defines the method as "NotQ on LAM".
3. `hv_true_voltage`: `GetTrueVoltage` returns 0 with `*voltage` untouched when
   the mainframe did not answer, or did not take the command, in any round
   (`LeCroy_public.cpp:433`). `LeCroy.h:113` has it as "read real voltage in one
   channel".

## What is not modelled

* The wall clock: `now()` is gettimeofday, and a clock that is set back
  stretches a wait. The models' clock only moves on.
* Destroying a handler from its own callback (a thread that joins itself).
* The failure of pthread_create (the constructor throws, nothing is shared yet).
* Values: voltages, channel numbers and the encoding of words. `ch[stat_chan]`
  (`LeCroy_public.cpp:632`) takes an index of six bits from the wire into an
  array of 32; `LeCroyHV` has tags only.
* The prologue of SetVoltage (`LeCroy_public.cpp:134`) is part of `LeCroyHV`,
  but that a retry should have to repeat it is a fact about the mainframe.
* `LeCroy::Init` and `Verify` with `VoltCode`: they compare values, of which the
  words of `LeCroyHV` have none; see the plan.
* The scalers and `SetTime` of ZIF_L0323, the measurement of IV_C0309, GTP_B0609
  and Lock_U0301: they keep no shadow and make one access a call.
* The tick of ADC333, `IsBusy` and `CheckLAM`: a conversion and two queries.
* The address parser and `ModuleMap`: work on strings and a map by type name.
* Float conversions between milliseconds and seconds (`base.cpp:28-53`): exact in
  ticks here, so that `LeftNeverGrows` does not speak of timeouts beyond the
  precision of a float.
* The hardware signal STOP of ADC333 (`ADC333.h:36`); `Stop` and the end of a run
  are modelled, a signal from outside is not.
* The access IV_C0309's Test still makes after SetControl has failed
  (`IntegralVoltmeter_C0309.cpp:47`): it starts a measurement, which is not
  modelled, and the test state is no success either way.
* A mainframe that goes on answering into a read loop: one finite answer follows
  a command, and `CallReturns` rests on that.
* The order in which the operands of `|` are evaluated, which the language leaves
  open: all models take it from left to right, as GCC does.
* A second process on the same crate.
* Python binding, benchmarks, printing: input and output only.

## Races that are shown and not guarded

These are in the models, and a history in the premises of the properties excuses
them, because the code does nothing against them and leaves the order to its callers:

* the owner takes the module away from under a handler (`pulled`; `base.cpp:116`,
  `:198`): a null call;
* two getCrate calls overlap (`raced`; `MamkinServer.cpp:117`, `:122`): a raw -1 is
  taken for BOOL, descriptors are lost, of which `LeakBounded` says how many;
* two threads bind a module of the Fedorov server at once (`raced`;
  `FedorovServer.cpp:64`, `:281-283`): a descriptor that is not ready or is gone is
  used, and findFd answers 1;
* two waits on one descriptor (`crossed`; `FedorovServer.cpp:196`): maskable
  events are answered as bits of a result (`MaskIsRestored` holds all the same);
* a poll of GetLAM that fails (`"failed"` in `polled`; `LeCroy_private.cpp:58`): an
  outdated `type_lam` is gone by;
* an answer that comes after its round (`late`): it is taken for the next one;
* the run that a start lets go before it is prepared (`early`; `ADC333.cpp:147`):
  samples at the wrong place;
* a carry within `Read2clear` (`spoiled`; `Counter_S0301.cpp:113`): a low word's
  worth is lost or counted twice;
* two instances in one static list (`overlapped`; `TDC_C0309.cc:80`): data of
  another module.

## Plan

Done: the result word, `WaitLam`, `LamHandler` with `HandlerLife`, `MamkinCrate`,
`LeCroyHV`, `RegisterDrivers`, `Adc333`, `Readout`, `FedorovServer`; the proofs
named above. Next, in this order:

1. `LeCroyHV`: `Init`, `Verify` and `VoltCode`, with words that carry values.
2. `TimedWait`, an abstract wait (an answer BOOL, timeout or error; time that
   only falls), implemented by `WaitLam`, and used by `LamHandler` in place of
   its open answer.
3. Pure functions: the address parser and `ModuleMap`, checked against reference
   definitions over bounded inputs.
4. A composition of driver, base and server on one crate.

Theorem to state next: `WaitLam` implements `TimedWait`.
