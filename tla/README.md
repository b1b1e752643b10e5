# ESP8266-WebRadio in TLA+

TLA+ models of the firmware of a web radio (`src/ESP8266-Firmware/app`): an
ESP8266 receives an internet radio station over WiFi, keeps a few seconds of it
in a serial RAM and feeds a VS1053 decoder chip; a web page, websockets and a
serial console say what is to be played. The firmware is C on FreeRTOS 7.5
and lwIP, with one core, preemptive priorities and next to no locks. The models
are about what such a program is hardest to test for: task switches at the wrong
place, streams cut at the wrong byte, power lost at the wrong moment, a browser
that goes away, memory that is short.

Line numbers are those of `app/user/*.c` unless another file is named.

| Run | Module | Question |
|---|---|---|
| `buffer` | `AudioBuffer`, `AudioPipe` | Does the decoder get the stream, in order and always? |
| `control_safety` | `ClientControl`, `Player` | Does the radio play what it was last told to? |
| `control_live` | `ClientControl` | Do stops, plays and commands come to an end? |
| `cli_stop` (violation) | `ClientControl` | Does cli.stop stop, as its documentation says? |
| `icy` | `IcyDemux` | Is exactly the metadata taken out of the stream? |
| `chunked` | `ChunkedDemux` | Is exactly the framing taken out of a chunked stream? |
| `header` | `HeaderText` | Are the texts the station's, and do the pages show them? |
| `sound` | `Sound` | Is the chip set as the settings say? |
| `eeprom` | `Eeprom` | Is what was saved in the flash? |
| `http` | `WebRequest` | Is a request handed over as it was sent? |
| `web` | `WebServer` | Does a connection get a task, and each socket one owner? |
| `stations` | `Console`, `Stations` | Is a typed line run, and does it select the right station? |

A run is `tlc -config <cfg> MC<module>.tla`; `PROJECT.json` names cfg, module
and properties of each. A proof is `tlapm <module>.tla`, for the modules of
section 4.

## 1. The system

### Tasks

| Task | Priority | Blocks on | Source |
|---|---|---|---|
| `clientTask` | 5 | `sConnect`, `connect`, `recv`, name lookup, `vTaskDelay`, SPI bus, sending | webclient.c:640 |
| `vsTask` | 4 | `vTaskDelay`, SPI bus | webclient.c:601 |
| `serverTask`, `websocketTask`s | 4 | `accept`, `read`, permits | webserver.c:670, websocket.c:364 |
| `serverclientTask`s | 3 | `read`, `vTaskDelay`, semaphores, sending | webserver.c:556 |
| `uartInterfaceTask` (boot, then console) | 2 | receive queue, `vTaskDelay` | user_main.c:46 |

Only one runs at a time; the one of the highest priority that is not blocked
does. `clientTask` therefore does everything between two blocking calls without
interruption, and every other task may lose the processor between any two
accesses to a shared variable. All models use that: an action of `clientTask`
goes from one blocking point to the next, an action of another task is one access
to shared state. Where a lower task can only run while a higher one is blocked,
and that matters, the guard says so (`Prio`, `Runs`, `WebRuns`).

### Components, their state, and what makes each of them correct

**Audio buffer** (`buffer.c`, `extram.c`). State: `wptr`, `rptr`, `bempty`, the
RAM. Operations: `bufferWrite` (clientTask), `bufferRead` (vsTask),
`bufferReset` (clientTask), `getBufferFree`. No lock; only the SPI transfer
inside is protected, by `sSPI`. Correct when it is a bounded FIFO: bytes leave it
in the order they came, none twice, none from another connection; and when writer
and reader do not wait for each other for ever.

**Stream client, control** (`webclient.c`). State: binary semaphores `sConnect`,
`sDisconnect`, `sConnected`; `cstatus`; `server`; `clientURL`, `clientPath`,
`clientPort`; `playing`. Operations: `clientConnect`, `clientDisconnect`,
`clientIsConnected`, `clientSet*` (called by web server, console, and clientTask
itself for playlists, redirections and reconnects); the session loop of
`clientTask`. Correct when the radio plays what it was last asked for, and
nothing after a stop.

**Stream client, ICY metadata** (`clientReceiveCallback`, state `C_DATA`). State:
the static `metad`, `rest`, and the header's `metaint`. Correct when exactly the
audio bytes reach the buffer however TCP cuts the stream.

**Stream client, chunked transfer encoding** (498-559). State: static `chunked`,
`cchunk`. Correct when it passes on the payload, whatever the cut.

**Stream client, header and metadata text** (`clientParseHeader`,
`clientSaveOneHeader`, `clientSaveMetadata`, `clearHeaders`, `wsHeaders`, `/icy`).
State: the strings on the heap; `sHeader`, which only clientTask takes. Correct
when they are the current station's and the web pages show them.

**Station selection** (`wsStationNext`, `wsStationPrev`, `playStation`).
State: `currentStation`. Correct when it ends at a station that exists and is the
one that plays. `/instant_play` and `cli.url`, `cli.path`, `cli.port`, `cli.start` go
past it.

**Decoder and SPI bus** (`vs1053.c`, `spi.c`). State: `sSPI`, the chip's
registers. Correct when no transfer is interleaved with another, no change of the
sound is undone by another one, and a restart would not change it either.

**Settings and stations in flash** (`eeprom.c`). State: 13 flash sectors; `eebuf`
on the heap. Operations: `eeSetData` (read sector, erase, write),
`eeEraseStations`, `eeEraseAll`, `saveStation`, `getStation`,
`saveDeviceSettings`, `getDeviceSettings`. Called by all tasks but clientTask.
Correct when what was saved is there, after a reset as well.

**Boot and WiFi** (`user_main.c`). Reads the settings, lets the SDK join the
network, saves the settings twice.

**Web server** (`webserver.c`). State: the counting semaphore `semclient` of two
permits, one per `serverclientTask`; the request each assembles in its buffer.
Correct when each permit taken is given back, a request is handled as it was sent,
and a client that goes away does not keep a task.

**WebSockets** (`websocket.c`). State: the four slots `webserverclients`, without
a lock. Correct when each slot belongs to one live socket.

**Serial console** (`interface.c`, `el_uart.c`, `user_main.c`). State: the
interrupt routine's queue, the line. Correct when each line typed is run, once.

**Helpers, SDK**: flash-resident pages, GPIO, base64; lwIP and FreeRTOS (C sources in
`third_party/`), the SDK's binary libraries. Third-party or stateless; modelled only by
what the rest needs of them: what `gethostbyname`, `read` and `malloc` answer, from
`netdb.c`, `sockets.c` and `heap_4.c`.

### How they interact

    web server ──┐ clientSet*, clientConnect, clientDisconnect     ClientControl
    console   ───┤──────────────► sConnect / sDisconnect ──► clientTask
    websocket ───┘ ◄────────────── sConnected ◄──────────────── │ recv
        │    ▲  ▲                                               ▼
        │    │  └─── titles, header (HeaderText) ◄──── ChunkedDemux, IcyDemux
        │    │                                                  │ bufferWrite
        │    └─ requests, permits, sockets                      ▼
        │       (WebRequest, WebServer)                ring in the RAM (sSPI)
        │ eeSetData (Eeprom)                                    │ bufferRead
        ▼                                                       ▼
      flash ◄── boot     tone, volume (Sound) ──► VS1053 ◄── vsTask (AudioBuffer)

What is hard: the ring has two tasks and no lock, and is reset by a third state
machine; three binary semaphores carry commands, answers and clientTask's messages
to itself, so two messages merge into one; URL, path and port are written by one
task while another reads them; texts on the heap are freed by one task while
another formats them; `recv` has no timeout; static variables outlive a session; a
flash sector is rewritten by read-erase-write without a lock; settings and registers
are read, changed and written back in separate steps; a closed connection looks
like a slow one. Every one of these is listed with its line under `hazards` in
`PROJECT.json`.

## 2. Form of the models

The code has task switches it does not survive. A model that forbade them would
not be the code; an invariant that failed at once would say nothing. Each module
therefore has **history variables** that record when such a switch happens
(`slip`, `harm`, `clash`, `stale`, `spoilt`, `hurt`, `lost`, ...). The actions do not
depend on them. The invariants say: *as long as none of the named things has
happened, and again after the event that heals it, this holds.* The names are thus
the complete list of what can go wrong: on the instances checked and, where the
invariant is proved, for all sizes.

Data is abstracted to what the properties tell apart: a byte is its position in
the stream, a station is one value, the contents of a flash block are one value,
a text is the list of the sessions its pieces come from.

The components meet in shared variables, and each module that has a part of such a
meeting models it whole: `AudioBuffer` has clientTask's writes and vsTask's reads,
`ClientControl` clientTask and the commands of all tasks, `HeaderText` clientTask
and the tasks that stop it or answer `/icy`, `Sound` and `Eeprom` all tasks that
use chip and flash. `Console` composes the keyboard, the queue and the line editor
with the commands of `Stations`, which run while the queue fills.
`ChunkedDemux` hands what it passes on to `IcyDemux`, which is where `AudioBuffer`'s
`Receive` gets its bytes; these three are not composed, because each promises the
next no more than chunks of any length, and that is what the next assumes.

## 3. The modules

### `AudioPipe`, `AudioBuffer`: the ring and its two tasks

`AudioPipe` is what the buffer promises: `Put`, `Take`, `Reset` of a bounded pipe,
and `Break`, after which it promises nothing until the next reset.

`AudioBuffer` is the code, for the build with the external RAM
(`USE_EXTERNAL_SRAM`), together with `vsTask`, the sleeping loops of
`clientReceiveCallback` and the bus.

| Model | Code |
|---|---|
| `wptr`, `rptr`, `bempty`, `sram` | buffer.c:13-15, the RAM |
| `Receive`, `Poll`, `WriteWhenFree` | webclient.c:561-610, `bufferWrite` |
| `Disconnect` | webclient.c:714-716 |
| `Look` ... `Mark` | `vsTask`, webclient.c:601-638, and `bufferRead`, one action per access to a shared variable |
| `Send`, `Burst` | `VS1053_SendMusicBytes` |
| `OtherTake`, `OtherGive` | any other user of the bus |
| `sSPI` | spi.c |

`Store` leaves it open whether the compiler stores `rptr` once or twice: both are
legal C. `slip` names the five windows: a write of nothing into an empty ring
(`emptyWrite`); a write between the comparison of the indices and the load of
`bempty` (`writeBeforeTest`); one that wraps while `rptr` is not wrapped yet
(`writeBeforeWrap`); one that fills the ring while `bufferRead` decides to call it
empty (`fullBeforeMark`); a reset in a read (`resetInRead`).

Properties: `RingHoldsStream` (indices and flag tell how much is stored, and the
slots hold exactly the unread stream), `DecoderHearsStream` (no gap, no repetition,
nothing of the old connection after the new one), `WaitsOnlyWhilePlaying`
(clientTask never sleeps for room nobody would make), `PipeSpec` (the ring
implements the pipe), and, with fairness, `ChunkIsStored` and `BytesAreHeard`.

Bounds: a ring of 6, reads of 2, chunks of up to 2 (in two parts), bursts of 2,
connections of up to 8 bytes, any number of connections: the pointers pass the end
of the ring, reads and writes meet it in the middle, the ring is full, empty, and
reset in each of vsTask's states. `StreamLen` bounds the labels of the bytes; the
proofs do without it.

Fairness: `Poll` and `WriteWhenFree` weak (clientTask polls every tick, and takes a
bus that is given), `VsTask` strong (it runs whenever clientTask blocks, which it
does again and again, and other users of the bus make a few transfers per request),
`OtherGive` weak (a transfer is a loop over a fixed number of bytes). That the decoder's
DREQ comes is assumed: `ChunkIsStored` and `BytesAreHeard` are about the sharing of the bus,
not about a decoder that never gets ready, for which the code waits without a bound
(vs1053.c:215). Nothing obliges a station to send or other tasks to use
the bus.

### `Player`, `ClientControl`: who plays what

`Player` is what the control promises: a station is named (`Name`), as a whole or in pieces;
what is named is asked for, in silence (`Ask`); what is asked for, and nothing else, begins to
be heard (`Play`); after a stop (`Forget`) nothing does; what is heard ends (`Fade`), for a
while or for good. After `Break` it promises nothing until `Mend`. `ClientControl` implements
it: `asked` is `want`, `heard` is `sess` while clientTask is in the receive loop with `playing`
set, `named` is `named`, and the promise is `kept` until a hazard (`slip`). A target is a
record of address, path and port, so what is asked for may be put together of pieces.

`ClientControl` is the code.

| Model | Code |
|---|---|
| `Open`, `Connected`, `ConnectFails` | webclient.c:651-684 |
| `Playlist`, `PlaylistMore`, `Redirect`, `Header*`, `Data` | `clientReceiveCallback`'s states, then 695-697 |
| `Found`, `NotFound` | `clientParsePlaylist`, with the host `localhost`, which leaves the address as it is (111) |
| `Fail`, `EndOfStream`, `Reconnect` | 698-709 |
| `Close`, `PlaylistConnect` | 711-735 |
| `Reboot` | exception, or watchdog on a task that spins |
| `Set` | the early returns of `clientSetURL` and `clientSetPath` for 0xFF (393, 402) |
| `Begin` ... `Give` | `playStation`, `/instant_play`, `/stop`, `cli.play/start/stop`, `cli.url`, `cli.path`, `cli.port` (each by itself), and in them `clientConnect`, `clientDisconnect`, `clientIsConnected`, one action per access |

A station of the list is recorded, cleared (`None`: empty texts) or never written (`Blank`:
0xFF). `playStation` tests pointers to arrays, which are never NULL, so it plays all three: a
blank one sets port 0xFFFF and leaves address and path as they were.

`want` is the target there should be a session with; `sess` the one there is, piece by piece:
the address at `connect`, the path and the port as they were read; `named` what commands,
playlists and redirections have named: a play names a station as a whole, also when the
fields do not follow; a setter of the console its own piece. `slip` names ten situations the
handshake cannot cope with: a `clientIsConnected` that spans the opening of a session
(`probeSpansOpen`); a stop that meets a playlist (`stopMeetsPlaylist`), the end of a stream
(`stopMeetsEnd`), a reconnect (`stopWhileReconnecting`) or a connect not yet taken
(`stopBeforeOpen`); two tasks that set a station at the same time (`settersOverlap`); a target
or connect given without a stop (`startWhileBusy`); one given while an opening session passes
for none (`openingLooksIdle`) or after 100 polls (`gaveUp`); a station that was never written
(`blankStation`). The history starts afresh when the control is at rest (`Quiet`) and, after a
slip, the three fields are of one station.

Properties: `SessionIsWanted`, `TargetIsNamed` (address, path and port of a request are
those named last, together or one by one), `NothingUnwanted` (no connect is pending after a stop),
`NoFault` (no NULL server), `ConnectedIsTrue`, `PlayerSpec` (playback begins only of what
is asked for at that moment, and that was named then); with fairness `StopEndsSession`,
`AskedIsPlayed`, `CommandReturns`.

`cli_stop` shows what a document says and the code does not: a stop during a
playlist is swallowed (uartInterface.txt:59). Three more disagreements are in the
model and break no property: cli.start while a station plays does not start the
given one (`startWhileBusy`); the loop that is to collect a header that comes in
parts (comment at 435) never ends (`HeaderSpins`, which only a reboot leaves); after
a failed first `connect`, `bytes_read` is whatever the stack held (`ConnectFails`
leaves it open).

Bounds: `control_safety` has one web task and the console, two stations (symmetric), an empty
and a blank one; `control_live` one web task with a station and a playlist that leads to
either; `cli_stop` the console alone, with both. Two callers are needed for overlap, two
stations for a mixed target; the semaphores are binary, so a third message changes
nothing that a second one does not. A command may be given any number of times.
`control_safety` is checked under a view in which all slips are one: every guard, every
property and every later value of the history asks only whether `slip` is `"none"`.
9.4 million states.

Fairness: `ClientTask` weak; this includes that `recv` returns, since the station
sends or leaves, and that lookups and `connect` end. `recv` has no timeout in the
code, so this is an assumption about the network, and `StopEndsSession` fails
without it. Nor does that property notice the loop of `HeaderSpins`, whose end is the
watchdog's. Both hazards (687, 517) are therefore listed without a property. Each command strong while clientTask is blocked, its give-up after
100 rounds too. Nobody is obliged to give a command.

`gethostbyname`'s static result, which `clientConnect` frees (416), is taken as a value.

### `IcyDemux`: metadata out of the stream

The station sends `METAINT` audio bytes, a length byte, metadata, and so on;
`Receive` takes any chunk of up to `RECEIVE` bytes of it, wherever cut. `WriteFirst`,
`WriteRest`, `WritePlain` are the three writes to the ring, before each of which
clientTask may sleep; `Disconnect` is `clientDisconnect` of another task at such a
moment, which clears `metaint`; `NewSession` a new header (webclient.c:525, 561-610,
320).

`harm` names the chunks that go wrong: one that begins inside metadata (`split`), one
that is taken for such because `rest` survived a session (`staleRest`), one received
after the header was cleared (`cleared`). So the comment "Metadata processing // ok"
(436) is too hopeful: metadata cut by TCP is partly played.

Properties: `InSync` (the callback always knows where in the stream it is, even after
a harmed chunk), `OnlyAudio` (exactly the audio of an unharmed chunk is written),
`WaitCanEnd` (the endless wait for a negative length needs a harmed chunk). The type
invariant, which is proved, includes that each index is inside the chunk.

Bounds: `METAINT` 9, chunks up to 8, metadata of 0, 1, 4, 10: shorter and longer than
a chunk, and one that spans three. `RECEIVE <= METAINT` is an assumption
(`DemuxAssumption`): stations use 8192 and more, a chunk has 2000; smaller intervals
would put two metadata blocks into a chunk, of which the code takes one. Deadlock is
not checked: clientTask may really wait for ever for a negative length. The proofs
need no bound.

### `ChunkedDemux`: the chunks of HTTP

| Model | Code |
|---|---|
| `HeaderEnds` | webclient.c:496-513, the first size line |
| `ReceiveWithin` | a buffer without a size line (559), one that ends with the CR (534), with the LF alone (527) |
| `ReceiveLine`, `More`, `Short` | the inner loop that fills up the buffer until `SECURE` bytes follow the chunk (541) |
| `Parse`, `Kept`, `Len`, `Rest` | the size line and the move of the payload (542-556) |
| `SeeEnd` | `recv` returns 0 in clientTask's loop (685) |

`lost` records a chunk that began and ended in one buffer: one size line is looked for
in each, and the unsigned `cchunk` (modulo `WORD`) wraps. Properties: `InStep`,
`PayloadPassed` (but for a CR or CR LF at the end of a buffer, which is played),
`WaitsForLoneLf` (the wait for a length of -1 needs an LF that comes alone), and
`EndIsSeen`: the station's close is noticed, unless it comes in the `SECURE` bytes after
a chunk, where `recv` is called for ever (every regular end of such a stream).

Bounds: buffers of up to 9 bytes and `SECURE` 6, size lines of 3 and 4 bytes, chunks of 1,
2, 3, 7, 20 (less than a size line, less and more than a buffer), `WORD` 40, more than
any sum that does not wrap. Fairness: `Parse` and `SeeEnd` weak, steps of clientTask
that wait for nobody. Deadlock is not checked: the callback can stop in a NULL write or
an endless wait.

### `HeaderText`: what the station says of itself

| Model | Code |
|---|---|
| `Open`, `HeaderBegins`, `Parse`, `Told` | webclient.c:650-683, 463-521, `clientParseHeader`, `clientSaveOneHeader`, `wsHeaders` |
| `Chunk`, `NewTitle`, `RestOfTitle`, `NoTitle` | the callback in `C_DATA`; `clientSaveMetadata` (124-213), and its `strlen(NULL)` (166) |
| `Disconnect`, `Leave`, `Break` | the ends of a session, "Not Found" (710) |
| `Stop`, `Load`, `Zero`, `Metaint`, `Measure`, `Format`, `Sent`, `Fails` | `clientDisconnect` of another task: `clearHeaders`, `wsHeaders`, one action per text |
| `AskIcy` | `/icy` (webserver.c:352-404) |

History: what the station has `sent`, and how it can be lost: `hurt` (for want of
memory; by a stop that belongs to an earlier session and empties the texts only now;
a title of which a part belongs to the session before), `late` (a text saved after the
stop has been given), `untold` (no memory for the message, or the texts changed while it
was told), `astray` (`clearHeaders` stored its 0 into a block freed since: of the heap
nothing is said from then on).

Properties: `TextsAreStations` (while a station plays the texts and `metaint` are its own,
nothing of another, no half of a title; at rest they are empty or say that nothing was
found), `PagesKnow` (when nobody is about to tell the texts, the pages show them),
`MessageFits` (`json_length` is enough for `sprintf`, unless clientTask saved a text in
between), `TitleIsThere` (a title to be continued is not NULL, unless memory was short).

Bounds: one web task, 3 sessions (a text of the session before last, a stop of an earlier
one), 3 commands, memory short once; two pieces of text stand for eight. The proof needs
none of these bounds and any number of tasks. Deadlock is not checked: the bounds end
runs. Not modelled: which of two notices is told, the escaping of characters, and
`strlen` of a NULL notice at webclient.c:282 and webserver.c:367, where `&` stands for `&&`:
whether address 0 can be read is not in the source.

### `Sound`: tone, volume, and the chip that forgets them

| Model | Code |
|---|---|
| `Begin`, `Get`, `Note`, `Save`, `Saved` | `/sound`, `/soundvol`, `wsvol`, `cli.vol`: `setVolume`, webserver.c:124-153, 226-262; `/wifi` (410-435) and `wifi.con` (interface.c:172-177), which save a whole copy and set nothing |
| `AtBoot`, `Loaded`, `Dirty` | the boot, which saves at line 166 of user_main.c what it read at 65 |
| `Erase` | `sys.erase`: `eeEraseAll` |
| `Take`, `Read`, `Refuse`, `Write`, `Back` | the setters of vs1053.c: two accesses, each under `sSPI`, or one if the number is refused |
| `Field`, `Stored`, `Valid`, `Takes`, `AsSet` | the bytes of `device_settings`, and the ranges the setters check (vs1053.c:292, 305, 328, 343, 359) |
| `Booted` | vsTask's start, webclient.c:606-617, also from flash that was never written |
| `Flush` ... `Fill`, `Restart` | `VS1053_flush_cancel`, `VS1053_Start` (vs1053.c:192-209, 419-452) |
| `Prio`, `Ready`, `Runs` | the priorities, and who waits for `sSPI` |

Numbers come as the browser sends them. They are cut to the byte in which they are kept and
handed over; the setter of the bass makes 15 of more, the other four of the tone do nothing
with a number out of range. What is noted, and saved, is the number all the same, and a
parameter whose saved number is refused is, after a restart, as the chip's reset leaves it
(`Cold`): so `AsSet` is what a restart makes of a saved number.

Properties: `SettingsAgree` (at rest the chip is set as a restart would set it from the
settings, but for parameters in `spoilt`), `FlushUndisturbed` (nobody else is at the bus while
clientTask looks for CANCEL, by the priorities alone; `VS1053_Start`, which takes no
semaphore, breaks into no access), `FlushEnds` (with a chip that never cancels as well; that
DREQ comes is assumed).

A parameter is in `spoilt` when another command set it between the access and the save of the
one that saved last; when its setter refused the number; when it was set but not saved, for
want of memory or because it was the same in a copy out of date; when an old value came back
with a register or with a copy of the settings that was out of date, be it that of `/wifi`,
`wifi.con` or the boot; and all of them when the chip was restarted or the settings were
cleared (`sys.erase` does not touch the chip). It leaves `spoilt` when a command sets it by
itself to a number its setter takes, or at a restart of the radio.

Bounds: two web tasks, one websocket, the console; settings that were saved, or flash never
written; the volume to 100 or to 300, which a byte cuts; `/sound` with a bass too large and a
space effect, with a treble that a byte cuts, with a refused frequency; 3 commands or
streams; the chip looked at once (513 times in the code; the number is a constant). 941 000
states. The proof has every number. Fairness: weak for each command and for the flush; no task
waits for ever for a semaphore that is held for one access.

The register of the volume holds a function of it (a logarithm), in which equal volumes are
equal: here it is the volume itself. Reading and writing the settings are one step each: what
can happen within is in `Eeprom`.

### `Eeprom`: settings and stations in flash

| Model | Code |
|---|---|
| `ReadSector`, `EraseSector`, `WriteSector`, `NoHeap` | `eeSetData`, eeprom.c:45-79 |
| `Clear`, `Wake`, `EraseAll` | `eeEraseStations`, `eeEraseAll` |
| `SetStation` | `/setStation`, `saveStation` |
| `GetSettings`, `Change` | `setVolume`, `/sound`, `/wifi`, `wifi.con` |
| `Boot`, `WifiUp` | user_main.c:46-172 |
| `Reset` | power, crash, or restart after `/wifi` |

Erasing makes a sector 0xFF; writing can only clear bits, so two writes after one erase
leave `Mixed`. Priorities decide who may interrupt whom. `meant` is what was last saved
to a cell on purpose, or `Lost`.

Property `FlashIsMeant`: whatever the interleaving and whenever power goes, each cell that
is not in a sector under rewrite has its meant value, but for three named losses: the
sector that was erased when power went; a sector two tasks rewrote at once; the other
settings of a block saved from an out-of-date copy. So no station is ever lost through a
task that rewrites another sector, no erase reaches further than it says, and a reset
outside the erase-to-write gap loses nothing.

Bounds: two stations in two sectors, one sharing the settings' sector, and two erased
sectors: both erase loops go round, and all sharing and overlap there can be happens with
a web task and the console; one value, besides 0xFF and 0, tells the meant value from all
others. Calls of the flash driver are atomic. Safety only: nothing here has to happen.
A disagreement in the source itself needs no run: with 192 stations and a block of
settings the last station lies at 0xC000, in the sector the comment at eeprom.c:12
leaves to Espressif (compare line 102).

### `WebRequest`: a request in a buffer

The browser sends a request unit by unit (`Ask`, `SendMore`, `Close`); `serverclientTask`
reads until an end of a header is in the buffer (`Read`, `ReadHeader`, `Look`), of a POST once more for
the body (`ReadBody`, webserver.c:601-640), handles it and reads the next over it. `read` may
cut anywhere, time out after two seconds, or return 0 after the browser's FIN for ever.

Properties: `PostAsSent` (a POST that comes without a pause and is cut at most where its body
begins, or in its header if it is the first, is handed over as it was sent), `TaskEnds` (when
a connection keeps its task, and so its permit, for ever is named: an unfinished header, a
close within a request, a body that came in more than two parts). Bounds: bodies of up to 4
units, 3 requests (the first, one over a longer, one over a shorter). Fairness: weak for the
task; it never waits longer than the timeout of `read`.

### `WebServer`: permits, sockets, websockets

| Model | Code |
|---|---|
| `Accept`, `LowMemory`, `Take`, `Create` | `serverTask`, webserver.c:670-754 |
| `Served`, `Part`, `Rest`, `Upgrade`, `BadName`, `CloseWeb`, `Give` | `serverclientTask`; `BadName` is the `return;` of a bool function (522), whose result is a leftover |
| `WsFind`, `WsStore`, `WsNoRoom`, `WsNoMemory`, `WsPart`, `WsRest`, `WsEnd`, `WsLost`, `WsClose` | `websocketTask`, `websocketnewclient`, `websocketparsedata` |
| `Away`, `Bye` | a browser that closes, with or without a close frame |

Properties: `PermitsAdd`, `OneOwner` (every open socket has one task that will close it, no task
has a closed one, whose number may be another connection's by now), `EntriesAreWebsockets`
(but for an entry another task took between test and store), and with fairness
`ConnectionIsTaken` (unless both permits are with tasks that wait for the rest of a request,
or a websocketTask spins at priority 4 in half a frame) and `WebsocketEnds` (after a close
frame or a reset; not after a bare close, which `read` reports as nothing to read).

Bounds: three socket numbers, used again; two permits as in the code, two entries: a third
websocket finds none. Fairness: weak for serverTask, the websocket tasks, closing and giving
(nothing they wait for), strong for answering (a web task is pre-empted again and again by
priority 4, but not for ever).

### `Stations`, `Console`: what is typed and what is played

`Stations` has `currentStation` with its 16 bits, `getStation`'s 8, `wsStationNext` and
`wsStationPrev` step by step, and `/play` and `/instant_play` of web tasks between their
steps. `Retarget` stands for what plays something that is no station of the list:
`/instant_play`, and of the console `cli.url`, `cli.path`, `cli.port` and `cli.start`. A
station is recorded or not; a `blank` one, never written, counts as recorded, and what
clientTask is told to play for it is `Other`, put together of what was there before
(webclient.c:393, 402). The list itself is fixed here: what changes it is in `Eeprom`.
`Console` has `uart_isr` with its queue (el_uart.c:15-45), the line editor that wraps at 64
characters (user_main.c:185) and `checkCommand`, during which nobody reads the queue.

Properties: `CurrentIsPlayed` (at rest clientTask was told the current station; or something
else, if that one is blank; unless what was played last went past the list, commands
overlapped or memory was short), `NeighbourSelected` (a reference definition of next and
previous in a list with gaps; next onto an unrecorded station 0 goes to 65535, which
uartInterface.txt:64 does not say), `LinesAreRun` (a line that fits, of which nothing was
dropped, is run once). Bounds: 2 stations of which any are recorded, and any of these blank,
bytes of 2 and words of 3 bits, play numbers 3 and 5 (beyond the list, within and without a
byte), one `/play` or `/instant_play`, a queue of 2, lines up to 2 and one longer, 3 lines.
With two stations next and previous meet both ends of the list and a gap at either; the
proof has any number. The run has a view (`Relevant`) without what nothing depends on any
more: the text of a line of which no character is left, and the history of a command that is
over. 11.9 million states. Deadlock is not checked: when all that may be typed is typed, the
console waits.

## 4. What is proved

For every value of the constants that satisfies the modules' assumptions, by
TLAPS, as theorems about `Spec`:

| Module | Theorems |
|---|---|
| `AudioBuffer_proofs` | `TypeCorrect`; `RingCorrect`, `DecoderCorrect`, `NoStoppedWait`; `PipeImplemented`, the refinement `Spec => PipeSpec` |
| `ClientControl_proofs` | `TypeCorrect`; `SessionCorrect`, `TargetNamed`, `NoneUnwanted`, `FaultFree`, `ConnectedTrue`; `PlayerImplemented`, the refinement `Spec => PlayerSpec` |
| `Demux_proofs` | `IcyDemux`: `InBounds` (`TypeOK`); `SyncKept`, `AudioStored`, `WaitsEnd`. `ChunkedDemux`: `ChunkTypeCorrect`; `StaysInStep`, `PayloadCorrect`, `WaitCorrect` |
| `HeaderText_proofs` | `TypeCorrect`; `TextsCorrect`, `PagesCorrect`, `RoomCorrect`, `TitleCorrect` |
| `Sound_proofs` | `TypeCorrect`; `SettingsCorrect`, `FlushCorrect` |
| `Eeprom_proofs` | `TypeCorrect`; `FlashCorrect` |
| `Web_proofs` | `WebServer`: `TypeCorrect`; `PermitsCorrect`, `OwnersCorrect`, `EntriesCorrect`. `WebRequest`: `RequestTypeCorrect`; `PostCorrect` |
| `Console_proofs` | `Stations` and `Console`: `TypeCorrect`; `StationCorrect`, `NeighbourCorrect`, `LinesCorrect` |

Every invariant of a run is among them. Two pairs of modules share a module of proofs,
which extends both; `ChunkedDemux` and `WebRequest` therefore name their own specification
`ChunkSpec` and `RequestSpec`. The type invariants are proved and in no run.

Assumptions, each at its module's CONSTANTS and evaluated by TLC: sizes positive, and of
`BufferAssumption` a chunk at most a third of the ring and a read at most the ring (2000 and
1000 against 131072), of `DemuxAssumption` a chunk at most an interval (2000 against 8192),
of `ChunkedAssumption` a size line within `SECURE` bytes and sizes that do not overflow 32
bits, of `ServerAssumption` finitely many socket numbers, of `StationsAssumption` that a
word is a number of bytes and that a byte can number the stations (192). The others only
keep model values apart.

*Ring.* `RingHoldsStream` is not inductive: it does not say what vsTask's registers mean
between two of its accesses. `IInv` adds, for all states, the types, that an unwrapped
`rptr` is the value in the register or 0 after a reset (`WrapInv`), `ChunkInv`, `EmptyInv`;
and until a slip, `IndexInv` (wptr is rptr plus the number of bytes held, round the ring;
the flag), `RegisterInv` (what the size and pointer registers still promise after the
writer has run), `ContentInv` (slot by slot), `LocalInv` (the local buffer between `rpos`
and `heard`), `RoomInv` (a write that waits for the bus still fits), `StartInv` (before
playback a third of the ring is free between chunks: why clientTask never sleeps in
vain). The argument for a write is that it only adds behind what is held; for each step
of vsTask, that the windows are exactly the writes and resets after which the registers
lie. The refinement needs `IInv` for one step: that `Store` takes at most what is held.

*Control.* Outside the hazards the handshake is `Calm`: at most one command is at work on
the station, and only while clientTask is at rest (`OneSetter`); the three fields are what was
named, but for those that a command has named and not yet set (`FieldsNamed`); whoever makes
clientTask connect has looked up the address that is wanted (`Wanted`, `Told`); a session is
with that target, or `sDisconnect` is given (`Session`). Each of the ten hazards is the step
on which one of these breaks. The refinement needs two facts more (`PlayerInv`): `playing` is set only
where audio is received, so that a playlist or a redirection is asked for in silence; and a
history that is lost is empty, so that it begins anew with nothing asked for.

*Metadata.* `IInv` says, for each place the callback can sleep, how `metad`, `rest` and the
written set relate to the station's own position (`left`, `mleft`): `IdleInv`, `FirstInv`,
`SecondInv`, `PlainInv`, `OverInv`, with `HeaderInv` for `metaint`.

*Chunks.* `cchunk` is what the station has left of the chunk (`togo`) whenever the callback
waits for bytes; a buffer that is being filled up reaches beyond the old chunk, which is
why the subtraction at 554 does not wrap before a chunk is lost.

*Texts.* For each task what its local variables are worth while the texts have not changed
(`Room`, `Fresh`); for each text that its page is right, or who is going to tell it
(`Known`); and what becomes of the texts from the moment they are emptied: they stay so
until the header is parsed (`Playing`, which needs that any stop still at work is an old
one), or a stop has still to empty them (`Cleared`). `Continued` carries `TitleIsThere`
from the chunk that begins a title to the one that ends it. The lemma `Bystander` is the
argument by which every other task's step keeps all this.

*Sound.* `FlushUndisturbed` is a matter of priorities (`Bus`): when another task runs,
clientTask is idle or waits for its first access. `SettingsAgree` needs, for each command,
what its copy of the settings (`Mine`, `Kept`) and of a register (`Copied`, `Owned`) is
worth. Lemma `Numbers` says that a number, once cut to its byte, stays as it is, so that
what was saved is what a restart will set; `Noted` is what `Write` and `Refuse` have in
common, the note of the change in the copy.

*Flash.* Two tasks that rewrite one sector know of each other (`AloneInv`: the clash is
recorded before harm is done); otherwise the copy of the sector is what is meant, and the
flash is blank while it is erased (`CopyInv`); a copy of the settings that is not stale
holds what is meant (`FreshInv`).

*Sockets.* `Owned` says of each socket where its one owner is; that the permits add up needs
it, since the task that `Create` starts must be a new one. `Listed` adds that an entry is
overrun only by a task that is not in the list yet.

*Requests.* `PostAsSent` looks at the buffer when it is handed over; `Progress` says what
is in it wherever the task waits within a POST that comes smoothly: nothing of it or all of
it, the first half of the header (`HalfHeader`, which needs that the buffer was empty, so
that no older line end is found behind it), the header (`HeaderOnly`), the whole. That a
wait is one of these follows from `Requests`: where a request stops before its end, it was
cut (`taken` is in `cuts`). `LookHeader` is the lemma on which it rests: the first line end
that strstr finds in such a buffer is the header's own.

*Stations.* `CurrentIsPlayed` and `NeighbourSelected` are about the end of a command.
`PlaceOf` says, for a command that is alone, what is known at each of its places: the number
that was read in "step" is `currentStation`, in "got" it is one further. `SureInv` carries
`Matches` through a command, `NeighbourInv` the neighbour; both need that a command that
is joined by another loses `alone` (`AloneInv`). The arithmetic of the two widths is in
lemmas: going back after a step past either end is where 65535 comes from.

*Lines.* `Coming` are the characters still to be read, those of the queue and the one that
is typed next. They come in the order of the keyboard (`OrderInv`), so that a line that was
run does not begin again (`OnceInv`); and before each character of a line of which nothing
was dropped comes the one typed before it, in `Coming` or at the end of `tmp`
(`FollowInv`), which is why at its end the line is whole.

Only model-checked: everything temporal (`ChunkIsStored`, `BytesAreHeard`,
`StopEndsSession`, `AskedIsPlayed`, `CommandReturns`, `EndIsSeen`, `FlushEnds`, `TaskEnds`,
`ConnectionIsTaken`, `WebsocketEnds`), since liveness under fairness is beyond the prover.

## 5. Not modelled

- The bytes of websocket frames, the handshake's key, and a broadcast socket by socket: two
  tasks that broadcast at once may mix their frames on one socket (websocket.c:234-238).
- The bit arithmetic inside the registers, the pins, the decoder's patches.
- What is sent to the browser: pages and their headers, the escaping of texts.
- The build with the RAM inside the ESP8266: a small ring in an array, the same code but
  for the transfers.
- Metadata intervals smaller than a chunk (see `IcyDemux`).
- Where a 0 written through a stale pointer lands (`astray`), and reads through NULL.
- Flash-resident pages, base64, GPIO, the LED timer, commands that only print: no state
  beyond a call.
- The insides of lwIP and FreeRTOS, whose C sources are in `third_party/`, and of the SDK's
  binary libraries; they carry no behaviour of this program. What the code relies on is in
  the models: priorities, blocking, semaphores, what `gethostbyname`, `read` and `malloc` may
  answer, flash.
- A decoder whose DREQ never comes, and a station that goes silent without leaving: the code
  waits for both without a bound, so that both are assumed not to happen (section 3).
- A request with a Content-Length beyond the buffer.

## 6. Plan

Done, in order of importance: `AudioPipe` and `AudioBuffer`, `Player` and `ClientControl`, `IcyDemux`,
`Eeprom`, `ChunkedDemux`, `WebServer`, `WebRequest`, `Sound`, `Stations` and `Console`,
`HeaderText`; the proofs of section 4.

Left: frames and broadcasts on one websocket.
