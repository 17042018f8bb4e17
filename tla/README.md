# Formal specification of dwm3001c_uci

TLA+ modules, TLC configurations and TLAPS proofs for the Python host tool in
`src/src/dwm3001c_uci`: a client of the binary UCI protocol for a DWM3001C
board on a serial port, a text-shell client for a second board behind a BLE
bridge, an orchestrator that ranges with the two, and a validation suite.
Paths below are relative to `src/src/dwm3001c_uci` unless they start with
`src/`. `PROJECT.json` maps every definition to the lines it models.

- [1. The system](#1-the-system)
- [2. The modules](#2-the-modules)
- [3. What is checked](#3-what-is-checked)
- [4. Disagreements between the code and its documentation](#4-disagreements-between-the-code-and-its-documentation)
- [5. Fairness](#5-fairness)
- [6. What is proved](#6-what-is-proved)
- [7. Abstractions and limits](#7-abstractions-and-limits)
- [8. Plan](#8-plan)

Run a model with `tlc -config X.cfg M` and a proof with `tlapm M_proofs.tla`;
the module of every configuration is in `PROJECT.json`, "runs".

## 1. The system

```
 mixed_ranging ──┬── core/client (UciClient) ── uci/framing (StreamDecoder)
                 │        │  core/models           │
                 │        │  uci/app_config        └── transport/serial_link ══ local board
                 │
                 └── cli_bridge/client ── cli_bridge/ble_transport ~~BLE~~ bridge ══ remote board
 validation/runner ── validation/spec ── core/client
```

Everything but the BLE transport is synchronous and runs on one thread. The
BLE transport owns an asyncio loop on a second thread. The boards and the
bridge run beside both.

| component | state | operations | hard behaviour | what makes it correct |
|---|---|---|---|---|
| UCI framing, `uci/framing.py` | `StreamDecoder._buffer`, `_pending`, and the local list of a call of `feed` | `encode_packet`, `decode_packet`, `try_decode_packet`, `split_into_packets`, `feed` | reads cut the stream anywhere; messages of several packets; the length field is one byte or two; `feed` raises half way | each message returned once, whole, in order; the buffer never loses its alignment |
| AppConfig codec, `uci/app_config.py` | none | `encode_app_config` | a length byte computed from a table of widths; more addresses than it can say; blocks of two packets | the board reads what the caller passed, or nothing is sent |
| UCI client, `core/client.py` | `notifications`, the decoder, the local variables of the call | `_send_command_and_wait_response` and 11 methods on it, `poll_notifications` | the response is picked out of a stream with notifications in it; deadlines; responses that come late; the port raises | each call returns the response to its own command; no notification is lost; every call ends |
| Payload models, `core/models.py` | none | dataclasses and their parsers | codes outside the enums, short payloads | an answer or a notification is not misread |
| Serial link, `transport/serial_link.py` | the port | `open`, `close`, `read`, `write`, context manager | closed whatever raises | closed at the end of every run |
| BLE shell transport, `cli_bridge/ble_transport.py` | `_client`, `_last_target`, `_prompt_event`, `_buffer`, the loop | `connect`, `send_line`, `disconnect`, `close`, `_handle_notify` | coroutines of calls that gave up run on beside the next call; the bridge drops idle links; notifications cut the prompt | `send_line` returns the answer to its line; `close` leaves no link |
| CLI bridge client, `cli_bridge/client.py` | none of its own | `power_on`, `power_off`, `send_qorvo_command`, `stat`, `stop`, `respf` | errors come as text | a refused command is not taken for a success |
| Mixed ranging, `mixed_ranging.py` | the handle, both links, the count of rounds | `run_mixed_ranging` | any of 15 calls raises, with or without effect; the cleanup raises too; rounds share the stream with the responses, and an earlier session may report as well | both boards are left idle; each measured round of this run is counted once, and no other |
| Validation suite, `validation/` | the context with the handle, the outcomes | `run_checks` over `DEFAULT_SPECS` | one check fails and the rest go on | a failure means something; every check is reported |
| Enums, discovery, report, exports | none | | | |

Interactions. `UciClient` reads the link and feeds the decoder; both of its
calls share decoder and list of notifications, so what one reads the other does
not see. `CliBridgeClient` turns calls into lines of `BleShellTransport`.
`run_mixed_ranging` calls both one after the other, so a coroutine that outlived
its call on the BLE loop can act on the remote board while the local one is
being configured. The validation suite uses only the UCI client.

What is hard to test is listed with its line under "hazards" in `PROJECT.json`,
with the properties that cover it.

## 2. The modules

```
 Framing ─┬─ FrameArrival
          ├─ AppConfig ── Payloads ── CommandCall
          └─ StreamDecoder ────────┐
                                   ├─ implements FifoChannel
 UciClient ────────────────────────┤
                                   └─ implements CommandService
                                            │ used by
 BleShell     MixedRanging     RangingRounds    ValidationRun
      └── Selection ────────────────────┘
```

`M_proofs` holds the theorems about `M`; where they need an inductive invariant
it is in `MInvariant`, so that TLC can check it too. The theorems about
`FrameArrival` are in `StreamDecoder_proofs`, which needs them. `Framing_proofs`
has the lemmas about the packet codec and `SequenceFacts` those about sequences
that the other proofs share; `Selection` has one operator on sequences that two
models use and both are proved about.

Each layer is modelled over what the layer below it is shown to promise.
`StreamDecoder` works on bytes and shows that `feed` is an ordered channel of
messages. `UciClient` takes that channel as its input, as one sequence, and
shows whose response a call returns: it implements `CommandService`. The calls
of `ValidationRun` are the actions of `CommandService`. `run_mixed_ranging`
sends each command once, so a call of its either returns its own response or
raises; `MixedRanging` has these outcomes for all its calls, `RangingRounds`
the order in which one stream gives responses and rounds to the local ones.
`BleShell` does for the lines that `MixedRanging` sends what `UciClient` does
for the commands. `CommandCall` is about what is in the messages.

**Framing** — `encode_packet`, `decode_packet`, `try_decode_packet`,
`split_into_packets` and the merging rule of `_accumulate` as operators on
sequences of bytes, exceptions as values (`Malformed`, `Incomplete`). Header
fields keep their widths: 3-bit type, boundary flag, 4-bit group, one- or
two-byte length. `FrameArrival` lets one frame and what follows it arrive a byte
at a time.

**FifoChannel** — the abstract specification of a stream: items arrive in the
order sent, each once, none invented, each in the end. The reader may be given
several items in one step, as `feed` gives them.

**StreamDecoder** — `buffer`, `pending` and `messages` are `_buffer`, `_pending`
and the local list of `feed`. `Feed` is a read and the start of the call;
`DecodeNext` one turn of its loop; `Return`, `RaiseInterrupted` and
`RaiseUnknown` its three ends. The device writes packets onto the line between
any two of these steps, and with faults gives messages up half way. `sent`,
`givenUp` and `returned` are history.

**CommandService** — the abstract specification of the commands of one client:
a call is made, and it ends with a failure or with one response, to itself or,
late, to an earlier command of the same kind that got none; never with one older
than what was returned before. Every call ends.

**UciClient** — `pc` walks through the two loops. For a command:
`awaitDeadline` (the `while` condition), `awaitRead` (read and feed),
`awaitBatch` (the `for` loop over the messages). For a poll: `pollRead`,
`pollBatch`, `pollDeadline`, in that order, because the deadline is looked at
after the read. `wire` is everything sent and not dealt with; its first
`decoded` items are in the list that `feed` returned. When `feed` raises, those
items go with it. Responses carry the number of the command they answer, which
no action of the client looks at: it is there for the properties. A read of the
port may raise, with some of the packets on their way lost (`AwaitReadRaises`,
`PollReadRaises`), and a write may raise though the device has got the command
(`SendCommandRaises`). `commands` and `outcomes` are the two variables of
`CommandService`.

**AppConfig**, **Payloads**, **CommandCall** — the TVS block for all 26
parameters, in the order the client sends them, with the widths of the table
and both exceptions; the payloads of the other ten commands; the parsers of all
responses and of the two notifications. Integers are their little-endian
digits. `CommandCall` is one call end to end: encode, split into packets, the
device's reassembly and its reading of the block (external, from the layout in
`src/docs/protocolo-uci.md`), what it means to answer, its bytes cut short
anywhere, and the parser. A notification is the second half of that. The
constants `Requests` and `Answers` say which calls are made and what may be
answered; `Answer` is all that the documented layout has room for.

**BleShell** — one step of a coroutine is what it does between two awaits; its
`at` names the await (`scan`, `link`, `subscribe`, `write`, `wait`,
`disconnect`). `Connect`, `SendLine*`, `Disconnect` and `Close` are the calls of
the synchronous thread up to `future.result`; `Return` and `CallOverruns` are
the two ways `_call` ends. After `CallOverruns` the coroutine stays in `task` and
runs on. `_client`, `_prompt_event` and `_buffer` are shared by all of them.
`Deliver` is `_handle_notify` with a notification that ends anywhere. A prompt
is two tokens, so that it can be cut; `Answers` takes whole prompts out of the
text and leaves halves in it, as `re.sub` does.

**MixedRanging** — `pc` names the call to come. Each call returns, returns
though the device did not obey (where the code does not look at the answer), or
raises with one of two kinds of exception, those the cleanup catches and the
others, with its effect on the boards or without. Lines of calls that gave up
may still be sent while the loop runs (`SendLate`).

**RangingRounds** — the local half of `run_mixed_ranging` again, this time with
the stream: `wire` holds responses and rounds in the order the device sends
them, a call reads up to the batch with its response (`Return`), a turn of the
loop any part (`PollRounds`). `counted` is what made `successful_rounds`, `kept`
is `UciClient.notifications`. The device may have a session of an earlier run
that still ranges, and may refuse or leave unanswered any command.

**ValidationRun** — a turn of the loop over `DEFAULT_SPECS` is a command, which
the device answers, refuses or loses, and the end of the call as `CommandService`
has it (`Returns`, `CallGivesUp`); a missing handle is a turn without a command.
The lengths and statuses at which the methods raise are those of
`core/client.py` and `core/models.py`.

Definitions marked *Variant* are forms of the definition after them with a
plausible mistake in it; nothing uses them but the mutants of `PROJECT.json`,
each of which makes one property of one run fail.

## 3. What is checked

Passing runs; sizes are distinct states.

| run | states | bounds | what it shows |
|---|---|---|---|
| `frame_arrival` | 15 865 | payloads of 0, 1, 255 bytes, data packets of 0, 255, 256, 300; three trailers | `try_decode_packet` waits for every proper prefix and yields the frame from its last byte on, whatever follows (`DecodedOnceComplete`); `decode_packet` accepts the whole frame only (`DelimitedFrameOnly`) |
| `stream_decoder` | 4 548 | three messages of one or two packets, reads of 1 to 7 bytes, no faults | the inductive invariant `SafeInv`; the decoder implements `FifoChannel` with fairness (`ImplementsChannel`) |
| `stream_decoder_faults` | 634 649 | four messages, two of them left unfinished or replaced by unknown packets | the buffer starts at a packet whatever raises (`FrameAligned`); nothing raises without a fault (`RaiseNeedsFault`); each unfinished message spoils at most one other, of its own type, group and opcode (`SpoiledOnlyByGivenUp`) |
| `uci_client` | 57 432 | two commands, two notifications, no faults, a polling caller | the list of notifications implements `FifoChannel` with fairness; no gap (`NoGapInv`); a response waited for is not thrown away (`ResponseStillComing`); what a poll hands out is what it added (`PollReturnsTheNew`) |
| `uci_client_faults` | 1.68 M | two commands, two notifications, a fault of the device or the port | the inductive invariant `SafeInv`; `OwnResponseUnlessGaveUp`; `NoResponseReturnedTwice`; what is lost leaves the rest in order (`NotificationsInOrder`); `CallsEnd` whatever raises; the client implements `CommandService` with fairness (`ImplementsService`) |
| `command_calls` | 225 136 | 0, 1, 2, 60, 76, 77, 78, 127, 128 and 256 destinations; every value zero and one byte too long; handles of 0 to 5 bytes; for every method and both notifications known and unknown codes, numbers with zeros at either end, 0 to 2 rejections or measurements; every cut | the inductive invariant `SafeInv`; the device has a command whole at its last packet and not before (`BoundaryFlagEndsMessage`) and reads what the caller passed (`DeviceReadsConfig`); what is returned is what the device meant, in every field, or the call raises (`NeverMisread`) |
| `ble_shell` | 41 769 | three calls, one dropped link, notifications of 1 to 3 tokens | `SafeInv`; an answer to another line only after a line that gave up (`OwnAnswerUnlessGaveUp`); lines out of order only after `CallOverruns` (`LateLineOnlyFromOverrun`); a link left after `close` is that of a call that failed, or `close` itself failed (`ClosedCleanly`); a whole prompt ends the wait of the call in progress (`WholePromptEndsWait`) |
| `mixed_ranging` | 418 429 | none: the program has one run | what is left behind at the end and why (`LeftOnOnlyByBridge`, `ResponderLeftOnlyByBoth`, `SessionLeftOnlyByDevice`, `SerialClosedAtEnd`); order across the two boards (`RangesWithResponder`, `RemoteOutlivesRanging`); `Terminates` |
| `ranging_rounds` | 6.39 M | three notifications of the device, whichever session they are of | `SafeInv`; no round is counted twice, and none of another session unless the reset was refused (`CountsOwnMeasurements`); a run that returns has kept every round and counted every success it met in the loop (`EveryRoundAccountedFor`) |
| `validation_run` | 776 971 | faults at three of the eleven checks, or fewer | `SafeInv`; a check fails only because of a fault at it or at one it depends on (`FailuresExplained`); `NoSessionIfLastPasses`; `AllReported` |

Why these bounds are enough for the cases that matter. A late response needs two
commands to be misattributed; that the shift persists over more of them, and
that no response is returned twice then, is proved for any number. Losing a
notification and keeping the order of the rest needs two. A decoder error needs
a message before it, to be lost, and one after it, to be joined wrongly: three
messages; with a fourth, and a second fault, stale fragments meet others of
their kind, packets that interrupt them and a message that completes them. Reads
of seven bytes hold one packet and part of the next; reads of one byte cut
everywhere. In `BleShell`, the shift needs a call that connects, one that gives
up and one that is answered in its place; a dropped link a call before it and
one that reconnects: three calls; for any number the properties are proved. 128
addresses of two bytes are the first that do not fit a length byte of 255; 127
are the last, and already take two packets; with 77 of them the payload has
exactly the 255 bytes of a packet, with 78 it is the first of two. No command of
the client takes more than two packets, and no caller passes another limit.

A shortened list of rounds that hides a gap needs one counted, one skipped and
one counted: three notifications, which also make an old round before the
reset and two of the run. A check of the validation run is spoilt by what
became of at most two others (SESSION_INIT, and the first of the two
SESSION_GET_COUNT), so three faults hold each of these cases and one fault that
should not matter; with four the properties hold as well (8.5 M states, five
minutes); for any number they are proved.

`CHECK_DEADLOCK FALSE` stands where the modelled run ends: the frame has
arrived, the call has returned, the transport is closed, the messages are used
up. `UciClient` can always poll again, and deadlock is checked there. The type
invariant `TypeOK` of a module with a `SafeInv` is a part of it.

## 4. Disagreements between the code and its documentation

Two runs check a statement of the documentation each and find it violated:

| run | the statement | what the code does |
|---|---|---|
| `uci_client_correlated` | the client "correlaciona la Response con el Command que la origino" (`core/client.py:46`) | a response that comes after its call timed out is returned to the next command with the same group and opcode. `OwnResponse` proves that this is the only way |
| `ble_shell_prompt` | the timeout means that no prompt came (`cli_bridge/errors.py:13`) | a prompt cut in two by the notifications is in the buffer and never seen |

The properties that hold name the other exceptions to what the documentation
says. They were met while modelling, and each can be seen by strengthening the
property to the plain statement:

- notifications "no se descartan" (`core/client.py:3-5`): those decoded in a call
  of `feed` that then raises are lost with its local list. `NoGapInv` holds
  without faults only; with faults there is `NotificationsInOrder`.
- `feed` returns "mensajes UCI completos" (`uci/framing.py:150`): fragments of a
  message the device gave up are put before a later message with the same
  header. `SpoiledOnlyByGivenUp` bounds the damage: one message for each, and of
  no other kind.
- `send_line` returns "la respuesta" (`cli_bridge/ble_transport.py:160`): the late
  prompt of a line that timed out ends the wait for the next one
  (the exception in `OwnAnswerUnlessGaveUp`).
- `close` disconnects if need be (`cli_bridge/ble_transport.py:152`): a link whose
  `start_notify` failed, or whose call gave up before it, belongs to no
  client and stays up, and so does one whose disconnection fails in `close` (the
  two exceptions in `ClosedCleanly`, which allows no others).
- the module is always switched off (`src/docs/ranging-mixto-cli-uci.md:57`): not
  when `bridge.stop` raises what is not caught (the exception
  `<< "finalStop", "other" >>` in `LeftOnOnlyByBridge`).
- ranging is always stopped (the same line): `ranging_stop` is not part of the
  cleanup, and an error while rounds are counted skips it; `session_deinit`
  then removes a session that ranges.
- the local board comes first (`src/docs/ranging-mixto-cli-uci.md:54-55`): only its
  reset comes before the BLE connection.
- KO raises `CliBridgeError` (`cli_bridge/errors.py:20-21`): only answers that
  begin with "Error" do (the `refused` in `RangesWithResponder`).

## 5. Fairness

- `StreamDecoder`: `WF(Read)` and `WF(InFeed)`. `feed` has no wait in it and its
  callers read again and again. The device owes nothing.
- `UciClient`, `CallFairness`: `WF` of the steps of a call under way and of
  `DeadlinePasses`. A read returns after its own timeout at the latest, and the
  clock goes on. The device owes nothing, not even an answer. It is enough for
  the fairness of `CommandService`, whose calls end.
- `UciClient`, `PollingFairness`, in the run `uci_client` only: a caller that
  polls in a loop, as `run_mixed_ranging` does (`mixed_ranging.py:133-141`).
  `SF(PollDecode)` because a read of the port returns at least a byte when there
  is one, so a caller that reads again and again completes what has been sent;
  a single read may return too little, so weak fairness would not do and
  fairness of each read would be too much.
- `BleShell`: `WF(CallEnds)`. `future.result(timeout)` returns. No fairness of
  any coroutine, of the bridge or of the radio. That calls end is thereby assumed
  and no property of the module; its four properties and the one of
  `ble_shell_prompt` are about what may happen before, and hold or fail without
  fairness.
- `MixedRanging`: `WF(Program)`. Every call has a timeout, the loop a deadline.
- `RangingRounds` has safety properties only; that the run ends is checked in
  `MixedRanging`.
- `ValidationRun`: `WF(Next)`. Every command ends, in an answer or a timeout.

## 6. What is proved

For every value of the constants, under the named assumptions of the modules.

**FrameArrival**, in StreamDecoder_proofs. `DecodesWhatWasEncoded` and
`AcceptsDelimitedFrames` state the two properties of `frame_arrival` for every
packet whose payload is shorter than 2^16 (`LengthsAssumption`; only data
packets can be longer, and no caller makes one) and for everything that may
follow it. The argument: a lemma on each byte of the header says that encoding
and decoding its fields are inverse to each other; the length read from the
first four bytes is that of the payload; hence four arrived bytes decide how
many are to come, a shorter prefix is incomplete and a longer sequence gives the
same packet.

The messages of a command are cut by `split_into_packets`, of which `SplitParts`
in **Framing_proofs** says, for every message and packet size, that the parts lie
side by side from the first byte to the last, that none is too long, and that
all but the last carry the flag.

**StreamDecoder_proofs.** For every set of messages, fragment and chunk size, and
all bounds:

| theorem | statement |
|---|---|
| `SafeInvariant` | the inductive invariant `SafeInv` |
| `TypeCorrect` | `TypeOK` |
| `Aligned` | `FrameAligned`: whatever raised, the buffer begins with the first byte of a packet |
| `RaisesOnlyOnFault` | `RaiseNeedsFault` |
| `NothingLost` | `NothingLostInv`: without faults, what was returned, gathered, read and not read is what the device began, cut in one place |
| `ImplementsChannelSafety` | without faults, the decoder implements the safety part of `FifoChannel` |

`FrameAligned` relates `buffer` and the line to the packets on it, and is
inductive once their types are: the packet at the head of the buffer decodes to
what was encoded (`WholePacketDecodes`), a part of it waits
(`PartOfPacketWaits`), and the rest begins with the next. That messages come
whole and in order needs `NothingLostInv`, a part of `SafeInv`. It says that the
packets pending on the line are those of the messages to come without the first
ones, and that these are in `_pending` (`Splits`). Each step of the device or of
`feed` moves the place of the cut over one packet. That `Interrupts` is false at
every such place is `RaisesOnlyOnFault`.

**UciClient_proofs.** For every set of keys and all bounds:

| theorem | statement |
|---|---|
| `SafeInvariant` | the inductive invariant `SafeInv` |
| `TypeCorrect` | `TypeOK` |
| `OwnResponse` | a call returns the response to its own command, unless an earlier command with its key gave up |
| `ReturnedOnce` | no response is returned by two calls |
| `KeptInOrder` | the notifications kept are in the device's order, each once, whatever was lost |
| `NoGap` | without faults, the list and what is on its way are together what was sent |
| `PollReturnsNew` | `PollReturnsTheNew`: a poll hands out what it added to the list, though the list is shared with the calls |
| `StillComing` | `ResponseStillComing`: until there is a fault, the response that a call waits for is not thrown away |
| `ImplementsChannelSafety` | without faults, the client implements the safety part of `FifoChannel` |
| `ImplementsServiceSafety` | whatever the device sends and whichever reads and writes raise (a read with the loss of whole packets), the client implements the safety part of `CommandService` |

`OwnResponseUnlessGaveUp` speaks of what calls returned; nothing in it says why
the response on the wire could not be an old one. The invariant adds this.
Responses are on the wire in the order of their numbers (`ResponsesInOrder`),
before those still owed (`WireBeforeOwed`) and behind all that were returned or
are held (`ReturnedBeforeWire`, `HeldBeforeWire`). And every response still to
come for a call that is over is excused by a call with the same key that gave up
(`ExcusedIfLate`). A call that ends with a response passes this on: if its own
response is still to come, it returned an older one, and that one was already
excused. The same order on notifications gives `KeptInOrder`. `NoGapInv` needs
`SafeInv` and that nothing on the wire is broken; it says that the next
notification on the wire is the next one missing in the list, from which each
step is a `Send`, a `Deliver` or a stutter of the channel. For
`ImplementsServiceSafety` the invariant gives what `CommandService` demands of
the response a call ends with: its key (`Holding`), that it is newer than all
returned (`HeldBeforeWire` and the order on the wire), and the excuse if it is
an older one; every other step leaves `commands` and `outcomes` alone or is a
`Call` or a failure. `StepSafe` has one lemma per action and, under it, one step
per part of the invariant that the action can disturb.

**BleShell_proofs.** For any number of calls, of dropped links and of tokens in a
notification:

| theorem | statement |
|---|---|
| `SafeInvariant` | the inductive invariant `SafeInv` |
| `TypeCorrect` | `TypeOK` |
| `LateLines` | `LateLineOnlyFromOverrun` |
| `Closed` | `ClosedCleanly` |
| `OwnAnswers` | `OwnAnswerUnlessGaveUp` |
| `PromptsEndWaits` | `WholePromptEndsWait` |

Everything rests on `CallInv`: only the timeout of `_call` leaves a coroutine
behind, so a coroutine that runs and is not of the call in progress has
`overrun` as the outcome of its call, and the event that the coroutine of the
call in progress waits for is the one `_handle_notify` sets: a left coroutine
makes a new one only in its first step, which lies before the next call.
`WrittenInv` and `LinkInv` follow step by step; `LinkInv` names the moments at
which a link that works is not yet, or no longer going to be, `_client`, and the
call whose failure is to blame when it stays that way. For the answers the invariant follows a line
from the bridge's input (`PipeInv`) over the text received (`TextInv`) to the
result of the coroutine and of the call (`ToldInv`): at each of these places it
is the line of the call in progress or one that a give-up excuses. That alone
would allow the wrong text from the first call on. `CleanInv` says what is
stronger until then: as long as no `send_line` has ended without an answer,
nothing is on its way but the line in progress and the rest of its answer.

**RangingRounds_proofs.** For any number of notifications: `SafeInvariant`,
`TypeCorrect`, `CountsOwn` (`CountsOwnMeasurements`) and `EveryRound`
(`EveryRoundAccountedFor`). `StreamInv` says that what was kept and what is on
the wire are together what the device has sent, until a call raises; `CountInv`
that what was counted are the successes of one contiguous part of it. Whose
rounds they are depends on what is *behind* a response on the wire: `SessionInv`
says of each call that when its response says OK, no round of the session it
ended follows that response. The response is read with all before it, hence
after the reset there is no round of an earlier session left to count, though no
code looks at the session of a notification.

**ValidationRun_proofs.** For any number of faults: `SafeInvariant`,
`TypeCorrect`, `FailureMeans` (`FailuresExplained`) and `PassMeans`
(`NoSessionIfLastPasses`). Checks that need a handle send nothing without one,
so the n-th command is not that of the n-th check; `PlaceInv` says which it is.
With it a late response can only be that to the first SESSION_GET_COUNT,
returned to the second, and the first has then given up, which is a fault that
reaches the last check. `SessionInv` says what the faults so far leave one know
of the session on the device, `ReplyInv` that the reply on its way passes a
check no fault has reached, and `CountInv` that the device has no session any
more once it has said so.

**CommandCall_proofs.** For any number of destinations, integers of any size, and
every answer that the documentation has room for, with codes the client knows or
does not know, cut short anywhere:

| theorem | statement |
|---|---|
| `SafeInvariant` | the inductive invariant `SafeInv` |
| `TypeCorrect` | `TypeOK`: what is on the line are packets, what reaches the client are bytes |
| `FlagEndsMessage` | `BoundaryFlagEndsMessage`: a command is whole at its last packet, not before and not one packet later |
| `ReadsWhatWasPassed` | `DeviceReadsConfig`: the board reads each of the 26 parameters as the caller passed it |
| `ReadsWhatWasMeant` | `NeverMisread`: a method or a parser returns what the device meant or raises |

`RequestsAssumption` is the type of the arguments. `AnswersAssumption` is what
makes an answer meaningful: numbers that fit their fields, rejections only with
a refusal, a count only with a success, an address as long as the header says.
Any number of measurements from 0 to 255 and of rejections up to 255 is allowed,
and the run's answers are an instance.

`WireInv` says that the packets on the line and what the device has put together
are the two sides of one cut of the command; `GatherStep` moves the cut over a
packet, and once the line is empty the device has the whole payload
(`GatheredWhole`), however many packets it took. The rest of
`ReadsWhatWasPassed` is about bytes: when nothing was raised each length byte is
the number of bytes that follow it (`AllFit`), so each turn of the device's
reading takes exactly one entry off the block (`ReadNext`), and by induction
over the entries (`ReadsAll`) nothing is left after the last; within an entry
the i-th value is at its place because all are equally wide (`FlattenUniform`).

`AnswerInv` says that the payload is the beginning of an answer in writing. What
each parser needs from there is a length: a field that ends before the cut is
what was written at its place (`FieldAt`), and a number whose bytes are all
there is read back whatever zeros it has (`NumberBack`). The length checks of
the methods are shown to reach the end of every field they return, except the
three of `Truncated`; the list of rejections is compared with the count before
it (`ConfigRefused`).

**SequenceFacts.** The models cut, join and select from sequences with
`FlattenSeq`. The induction over their length is done once: `Induction` and
`SequenceInduction` take the *set* of the numbers or sequences for which a
statement holds, in place of the operator that the theorems of the library take
and no prover here can instantiate. From them come the facts about
`FlattenSeq` and `Selected` (of an empty sequence, of one more item, of two
sequences joined) that the other modules cite.

Constants are assumed to be what the modules' named assumptions say: natural
bounds, keys and messages of the right type, no payload of 2^16 bytes, arguments
of the right type and answers as the documentation lays them out. No theorem has
another hypothesis, except `MaxFaults = 0` where the statement is about a device
without faults.

Only model-checked:

- all liveness (`CallsEnd`, `Terminates`, `AllReported`, the fair parts of
  `ImplementsChannel` and `ImplementsService`), which is about fairness and
  `ENABLED`;
- `SpoiledOnlyByGivenUp`, which needs for each stale fragment the message it came
  from;
- `MixedRanging`. It has no constants and no bounds, so that its run visits every
  state it has and there is no larger instance for a proof to add.

## 7. Abstractions and limits

- In `UciClient` a message is its type, key and number. Corrupted payloads, the
  result of stale fragments, appear only in `StreamDecoder`; in `UciClient`
  fragments that are pending are dropped into the message they are joined to.
- An unknown packet at the head of the buffer makes every later `feed` raise. The
  model lets `feed` be called again without new bytes, so it raises at least as
  often as the code.
- A read that raises takes whole packets with it, or nothing. pyserial may raise
  with a part of a packet taken from the port (`transport/serial_link.py:76-79`);
  what follows is then decoded from the middle of a packet, and nothing here says
  what becomes of it. This also holds for the calls of `ValidationRun` and
  `RangingRounds` after a read has raised.
- `BleShell` has one kind of target: that of a name, whose scan may find nothing.
  An address is not scanned for (`cli_bridge/ble_transport.py:106-107`), so that
  step cannot fail then. What bleak raises is of one kind; a `TimeoutError` of
  its own, which Python 3.11 and later cannot tell from that of `future.result`,
  reaches the caller as `BleShellTimeoutError`, and no property asks which it is.
- A write to the serial port is atomic: without a write timeout pyserial returns
  when all is written.
- The bridge of `BleShell` advertises only while nobody is connected, serves one
  link and sends no prompt on its own. A prompt and a timeout in the same turn of
  the event loop are taken one after the other.
- The devices are external in all modules: what they may do is chosen from how
  the code uses them and from the protocol description in `src/docs`.
  `ValidationRun` has one session on the device, as the suite uses no more.
- In `AppConfig` integers are sequences of bytes, so the overflow of
  `to_bytes` is a length comparison. Negative numbers, which it rejects as well,
  are left out.
- What a method does with the rest of a payload longer than it needs is not
  checked in `CommandCall`: the device writes exactly what it means, or less.
- `get_ranging_count` reads its number from the bytes there are, and a
  measurement of a type other than two-way ranging is read as if it were of
  that type (`core/models.py:251-258` leaves the type to the caller,
  `mixed_ranging.py:146` does not look at it): the two exceptions in
  `NeverMisread`.
- In `RangingRounds` the device reports only rounds of sessions it has, and the
  port is opened with nothing owed to an earlier program: a response left over
  is the subject of `UciClient`. What a round says is one of five readings;
  the bytes behind them are those of `CommandCall`.
- In `MixedRanging` the rounds are left out: the loop ends or raises.
- `ValidationRun` has the failures of its calls as one kind: every exception is
  caught and reported alike.
- Not modelled: port discovery, one filter over a list, without state; the text
  of the validation report, argument parsing and printing; the symbolic names
  of codes (`uci/enums.py:285-320`), which are only printed; `initf`, which
  nothing calls. `UciClient.notifications` is never emptied; memory is no part
  of the models.

## 8. Plan

Order of the modules, most important first, and where they stand.

1. `Framing`, `FrameArrival`: done, proved for every frame.
2. `FifoChannel`, `StreamDecoder`: done, safety proved.
3. `UciClient`, `UciClientInvariant`: done, safety proved.
4. `CommandService`: done, and shown to be implemented by `UciClient`.
5. `AppConfig`, `Payloads`, `CommandCall`: done, proved for every call and answer.
6. `BleShell`: done, safety proved.
7. `MixedRanging`: done, checked in full.
8. `RangingRounds`: done, safety proved.
9. `ValidationRun`: done, safety proved.
10. `UciClient` over `StreamDecoder`: the composition on bytes, to check the
    sequence `wire` against the decoder that it stands for.
