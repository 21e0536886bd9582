# Verification of neof5client

neof5client plays the card game Daifugo against a contest server: it opens a
WebSocket connection, gets a `ProcessTurn` message for each of its turns, lets
a player think, and answers with a `Put`. The repository carries the libraries it is
built with, libwebsockets 1.23 and the zlib beside it. This directory holds TLA+
models of the client and of the core of those libraries, the TLC configurations that
check them and TLAPS proofs of the main properties of the client, of the library's server and of the
mirror protocol. Paths below are
relative to `src/Neof5Client/jni/`; `lws` is `libwebsockets-1.23/lib` and `zlib`
`libwebsockets-1.23/win32port/zlib`.

## 1. Inventory

| Part | State | Operations | Talks to |
|---|---|---|---|
| Cards (`neof5/Cards.cpp`) | a card is an index 0..52, a card set a 64-bit mask | order, suit, number, set operations, text form | everyone |
| Rules (`neof5/DaifugoRule.cpp`) | `_isKakumei` | `canPut`, `canAgari`, `compareCards`, for rule A and rule B | players |
| PoorPlayer (`neof5/PoorPlayer.cpp`) | the rule object with its revolution | `think` | rules, context |
| SagePlayer, EvalNode | saved plan, cards not seen, search tree | `think`, the time-limited search, evaluation | rules, context, tweets |
| Context (`DaifugoContext`, `PlayerInfo`) | the data of a turn | getters, players left | players |
| Protocol (`neof5/Neof5Protocol.cpp`) | player, send function | `onMessage`, `putCard`, `tweet` | player, run loop |
| Run loop (`neof5/WsThread.cpp`) | `mSocket`, `was_closed`, `sendQueue`, `force_exit` | `run`, `sendText`, the callbacks, SIGINT, destructor | library, protocol |
| Client connection (`lws/client*.c`, `libwebsockets.c`) | mode and timeout of the connection, poll table | connect, service, write, close, destroy | kernel, callbacks |
| Frames (`lws/output.c`, `parsers.c`, `client-parser.c`) | parse state, mask, remaining length, receive buffer | write a frame, receive a byte | connection, callbacks |
| Headers (`lws/parsers.c`) | header table of fragments and characters | parse a byte, read a header back | handshakes |
| Server (`lws/server.c`, `handshake.c`, `output.c`) | poll table of all connections, per connection state, file position, kept rest of a send | accept, request, upgrade, serve a file, close | kernel, callbacks |
| Mirror (`test-server/test-server.c`) | ring of messages, a tail per session | receive into the ring, write from it, throttle | receive flow control of `lws` |
| gz files (`zlib/gz*.c`) | buffers, position, pending seek, error | read, gets, getc, ungetc, seek, rewind, write, putc, printf, flush, close | inflate, deflate, the file |
| Huffman codes (`zlib/trees.c`, `inftrees.c`) | heap, lengths, codes; decoding table | build, send, receive, look up | deflate, inflate |
| deflate, inflate | window, hash chains, held match, pending output; reader's mode and window | a call with any input, room and flush; parameters, dictionary, synchronisation | their callers |
| Entry points, Android activity | one session | choose rule and player, start a session | run loop |

How they interact: `run()` is one thread. It calls `libwebsocket_service`,
which polls, reads and writes the socket and calls `callback_func`; that calls
`onMessage`, the player thinks inside the callback and its tweets and its Put go
to `sendQueue`; the Put asks for a writeable callback, in which the queue is
written. The only concurrency is with the kernel, the server, the clock
and SIGINT, all of which can move between any two system calls. A libwebsockets
server is one thread too, with many peers that move by themselves; the ring of the
mirror protocol is shared by its sessions. zlib is called by one thread, in calls
that stop wherever input or room runs out.

What is hard, and what makes each part correct:

* *Rules*: `canPut` sees the last hand only, with jokers and revolutions; it must
  order a whole trick. Rule B adds the staircase (kaidan).
* *PoorPlayer*: arithmetic of the loop bound, which hands it misses, the order in
  a revolution; it must put only legal hands it holds, and never pass when leading.
* *SagePlayer*: a time limit in the middle of a search, and a plan kept over turns,
  tricks and games; what it puts must be legal then.
* *Run loop and connection*: the connection can be freed in the middle of a
  service call. The poll table must match what lives, no answer may be stranded
  in the queue, the answers must keep their order, nothing may happen after the
  end was reported, and every wait must end.
* *Frames and headers*: byte-driven state machines with fixed buffers; what was sent must
  come back whatever the fragments, control frames and alternating headers.
* *Server, mirror*: a close in the middle of the walk over the poll table; partial
  sends; a throttle that takes effect after the callback, with data already read.
* *zlib*: calls that end anywhere; a window that slides under its hash chains; code
  lengths that have to be cut; a reader whose window wraps; errors that are cleared.

## 2. Modules

| Module | Models | Extends |
|---|---|---|
| `Cards` | cards, card sets, text form | |
| `DaifugoRule` | both rules, as operators with the revolution as a parameter | `Cards` |
| `Trick` | the hands put on one field under `canPut`, and revolutions | `DaifugoRule` |
| `PoorPlayer` | `think`, one iteration a step, over the turns of a game | `DaifugoRule` |
| `SagePlayer` | search and saved plan, one level a step, over several games | `DaifugoRule` |
| `LwsClient` | one client connection of the library, the TCP connection and the server | |
| `Session` | the abstract specification: a session of turns and answers | |
| `WsThread` | run loop, service call, callbacks, reply to a turn | `LwsClient`, instance of `Session` |
| `LwsRx` | writing frames, receiving them byte by byte | |
| `LwsHeaders` | the header parser and its table | |
| `LwsServer` | poll table, service loop, requests, file fragments, several peers | |
| `Mirror` | the mirror protocol on receive flow control | |
| `Gz`, `GzRead`, `GzWrite`, `GzFile`, `MCGz` | the gz layer: file format, the two halves, their composition, TLC's files | each the one before |
| `HuffmanTree`, `InflateTable`, `Huffman` | the two sides of a Huffman code, and their composition | |
| `ZBase`, `Deflate`, `Inflate`, `ZStream`, `MCZStream` | compressed items, writer, reader, their composition, TLC's inputs | |
| `PlayProofs` | theorems on the trick and on the player that puts on it | `Trick`, `PoorPlayer` |
| `DaifugoRuleProofs`, `SagePlayerProofs`, `WsThreadProofs`, `LwsServerProofs`, `MirrorProofs` | theorems | the module of that name |
| `LwsParserProofs` | theorems on both of the library's parsers | `LwsHeaders`, `LwsRx` |
| `GzProofs` | theorems on gz files, written and read | `GzFile` |

**Cards and rules.** A card is its index in `_cards`; a card set is a set, so that
`|=`, `&~` and `&` are union, difference and intersection. The text form is a list
of pairs of letters. The rule object's one bit is a parameter of the operators;
`PoorPlayer` has it as a variable (`rule_kakumei`), set before each question (`SetKakumei`). The texts of the error constants are left out (those of
`ERR_INVALID_BA` and `ERR_NOT_STRONG` are exchanged in the source).

**Trick.** (Its names differ from `PoorPlayer`'s, so that one module proves about both.) `Put` appends any legal hand of the cards left, `Clear` empties the field.
Four cards or more turn the order round, as in `EvalNode::createChild`.

**PoorPlayer.** `ProcessTurn` gives the deck, the field and the revolution; `Try` is an
iteration of the loop, `Pass` its end. The loop bound is computed modulo
`SizeModulus`. A read past the end of the vector yields any cards (`garbage`), or
faults (`Fault`), at the latest at iteration `FaultIndex`. `PutDone` is the server taking
the cards off. The field is any set of the other cards: the protocol does not look at what the
server reports.

**SagePlayer.** `UsePlan` is the reply from a saved plan; `StartSearch` makes the root;
`Deepen` is one call of `_think_recursive`, which expands all nodes of a level; `Found`,
`BestOrFault`, `TimeUp`, `NoResult` and `Exhausted` are its ends. A node is the path of
hands to it. `hasNumOf` is asked for `st % 13` as in the source. The points of a hand
decide whether it is strong and are exact fractions; the points of a node only choose
among the root's children, which is left open. `NewGame` deals again and the
plan stays, as the member variable does.

**LwsClient.** `wsi` is the mode of the connection, or `none` before and `freed` after;
`fds` is its entry in the poll table, `pollout` that entry's POLLOUT, `timer` the
pending timeout, `was_closed` the flag the callbacks set. Both passes of
`libwebsocket_client_connect_2` are there, with the name resolved in each; the
handshake's answer is good, bad, or cut into two packets.
`close_and_free_session` reports the end by the mode it finds. The network
and the server (`Network`) are external: they connect, refuse, send in any order and
number up to the bounds, close, reset.

**Session and WsThread.** `Session` promises: a turn is answered by its tweets and one
Put, the messages leave in the order of the answers, and nothing happens after the end.
In `WsThread` `pc` is where the thread is: `loop`, `poll`, `event` (in `service_fd`), `drain`
(WRITEABLE callback), `recv`, `rx` (parsing what was read), `connect`, `exited`
(`run()` has returned), `destroyed`, and `crashed`. A step reaches from one system call
to the next. What `poll()` reported is kept in `revents` while the network moves on.
`wire` and `handled` record what was sent and handled, `cut` that a message was
sent in part. The refinement maps the mode, `was_closed` and the thread's end to the session's
phase (`Phase`), the message in hand and the queue to the messages waiting.

**LwsRx.** `Write` is `libwebsocket_write` for a frame of any kind; the actions `RxNew`,
`RxHdrLen`, `RxLen`, `RxKey`, `RxPayload` are the cases of `libwebsocket_rx_sm` (server) and
`libwebsocket_client_rx_sm` (client), whose differences are conditions on `role`. `Spill` is
the label of that name: control frames are served, data goes to the callback. Lengths are
written in base `Base` with the short form below `Small`, so that all three forms occur with
small numbers; a byte carries its frame and place, and whether it is masked. A length's top bit is
cleared by the writer (`lws/output.c:496`), so lengths stay below half of `SizeMod`; the reader's check of that
bit and the close behind it are there (`TopBitSet`), for a writer that keeps to this never used.

**LwsHeaders.** One step per character. `frags` and `data` are the two arrays of
`allocated_headers`; a name is one symbol, for the recogniser is a fixed automaton.
`Store` also has the case where the table is full.

**LwsServer.** A packet stands for what one `recv` returns and what it completes. The loop
of `libwebsocket_service` walks the slots (`slot`); a close moves the last entry into the
slot, and the loop goes on behind it. The file is a sequence of byte numbers; `Issued` is
`lws_issue_raw`, with the kept rest of a partial send. Use of a header table after it was
given back sets `crashed`. `insert_wsi_socket_into_fds` always finds room: its table has `getdtablesize()`
entries (`lws/libwebsockets.c:1836`), so `accept()` runs out of descriptors before it does.

**Mirror.** `Poll` takes a connection and what poll reported; then the writeable
callback (`WriteOne`, `WriteEnd`), then `_libwebsocket_rx_flow_control`, then the input, kept or new,
frame by frame (`RxStored`, `RxDropped`, `RxStopped`, `RxEnd`). A change of flow is noted in
`rxflow_change_to` and applied by `ApplyFlow`. A send may take a part of a message only (`part`, for the sessions in
`Partial`): the message counts as written, as in `lws/output.c:184-193`, and the session as `cut`. Left out are the test
option `close_testing` (`test-server.c:479`), and the branch of `lws_handle_POLLOUT_event` for a kept rest
(`lws/libwebsockets.c:666`), as in this mode the library keeps none.

**gz files.** A file is a sequence of symbols: header bytes, content, the end of a
deflate stream, its trailer. The device may return less than asked, fail for a while, and
the file may grow. One action per entry function, and one per iteration of the loops the
function runs (`Goes`, `Skip`, `Read`, `Gets`; `Zero`, `Comp`, `WriteSmall`, `WriteLarge`...). `given` is what the program has
asked to be written, zeros for every gap. `marred` records what happened that keeps the file from being that: a
write that failed (`write`), a call that went on after an error (`resumed`), a gap for which `gz_zero` compressed memory it had not
set (`gap`: `Fills` chooses what is there when no buffer has been allocated yet), and held bytes that
`deflateParams` lost because the output buffer was full (`params`). `Params` has all three ends of that call: nothing
to flush, flushed, and cut short with or without a loss.

**Huffman codes.** `Planted`, `Merge` are the two halves of `build_tree`; `FirstPass`,
`Relieved`, `Redealt` the three passes of `gen_bitlen`; `Send` `scan_tree`/`send_tree`. On the other
side `Receive` reads the lengths, `Start`, `Fill`, `Rest` are `inflate_table`, `Lookup` the
two-step table access of `inflate`. The reader is also given lengths that no writer made.

**deflate and inflate.** The writer's and the reader's state are records named as in
`deflate_state` and `inflate_state`. A bit string is a sequence of items (a header, a block's
head, a literal, a match, an end of block, a check value); what can be cut at the end of the
output buffer is the item. Which of stored, fixed and dynamic a block becomes is a choice,
since it depends on bit counts only. Since `inflateSync` looks for an item that is a flush mark, a mark that spans
two calls or lies in the bit buffer, and data that only looks like one, do not occur. All five match functions, `fill_window` with its slide,
hash insertion, `longest_match`, the pending buffer, the four flushes, `deflateParams`,
`deflateSetDictionary`; `inflate`'s modes, `updatewindow`, `inflate_fast`'s copying, `inflateSync`.
The hash is of the last two bytes; an array element nobody wrote is `Unset`.

## 3. Runs

| Run | Bounds | Shows |
|---|---|---|
| `trick` | 8 cards: three 3s, two 10s, a J, a Q, the joker; rule B | `TrickMonotone`, `CodecRoundTrip` |
| `poor_player` | 7 cards: three 3s, two 4s, a 2 (club), the joker; `SizeModulus` 128, `FaultIndex` 2 | legal puts, passes, weakest single |
| `sage_player` | 6 cards: three 3s, two aces, the joker; two deals; up to 2 other players with cards | legal puts, nodes, enumeration, plan |
| `ws_thread` | 2 turns, 2 other frames, 1 tweet | poll table, queue, session, silence, liveness |
| `lws_rx` | 3 frames of 0, 2, 3 or 5 bytes, buffer of 2, keys with and without zero bytes | data and description of the pieces |
| `lws_headers` | 3 lines with values of up to 2 characters, 5 fragments, 7 characters | table, values |
| `lws_server` | 2 peers with 2 packets each and 2 connections each, a file of 5 in chunks of 2 | poll table, file, safety, liveness |
| `mirror` | 2 sessions, ring of 4, read again at a backlog of 1, 5 messages, partial sends to one of them | flow control, order, no loss, liveness |
| `gz` | 7 sample files; 4 bytes given to a file of up to 5 units; buffers of 2 | content, short reads, flushes, failed writes, calls end |
| `huffman` | 5 symbols, 4 frequencies, length limit 3, root widths 1 and 2; all match lengths; runs up to 139 | optimal code, table, transmission |
| `zstream` | inputs of 30 bytes, window of 16, `MAX_MATCH` 4, 7 jobs, small and large room | decoding, flushes, window, read-back, end |

The bounds hold the cases that differ. Cards: one number three times, so that there are
pairs and triples and four cards with the joker (a revolution); the ten, whose
letter is special; neighbouring numbers of one suit; the joker; hands
smaller than the field, so that the bound wraps. `SizeModulus` only has to exceed twice
the number of cards for a wrapped bound to be distinguishable; the proofs have it
as a parameter. Connection: two turns can be read in one `recv`, the second
behind the first's unsent answer; two other frames allow a close frame with a
turn behind it and a ping between turns. Frames: three frames make a fragment, a control frame
and a continuation; a payload longer than twice the buffer spills in the middle. Headers: the
same header around another one, and both arrays run full. Server: the listener and two
peers, so that the entry that moves is another connection's; a second connection on a
closed socket's number. Mirror: a ring that two sessions wrap and lap. Huffman: with five
symbols and limit 3 lengths must be cut; `RunLengths` and `Dists` are the edges of every code.
zstream: 30 bytes slide a window of 16 twice, with matches across the slide; an output of 5
items stops inside blocks and flush marks, and a flush that was stopped so is called again with more room
(`Interrupted`, as `zlib.h:313-318` asks), which does not count as one of `MaxExtras`. Deadlock is not checked: a trick ends when
nothing can be put, a game when the cards are gone or the process died, the client when it
is destroyed, and the others when their peers have nothing more to send.

Fairness. In `WsThread`, weak fairness of the client's thread as a whole, which
the scheduler gives (`poll()` returns after 500 ms at the latest), and of the clock
(`Expire`). Nothing is asked of the network, the server or SIGINT. In `LwsServer`, weak fairness of
the server's thread, and of a peer that reads what was sent to it: without that a
file is never finished, for the server has no timeout for it. In `Mirror`, the thread
finishes what it began, and a connection that poll() reports as writeable again and again is
served at some time (strong fairness, since the thread serves others in between: its loop
goes over all slots). In `GzFile` a call that has begun goes on, and in `ZStream` a caller that
has begun to finish calls on. The other modules state no fairness.

What the properties say:

* `TrickMonotone`: while no hand of it turned the order round, each hand of a trick
  beats all hands below it and none the other way. `CodecRoundTrip`: a hand survives its
  text form.
* `PutIsLegal` (PoorPlayer): while the bound does not wrap the player puts what it holds
  and what the rule allows. `PassOnlyWithoutChoice`, `WeakestSingle`: for singles and pairs
  without a revolution a pass means that there is no hand; a single put is the weakest possible.
* `PutIsLegal` (SagePlayer): from a search cut short or a plan of another game, the hand is
  held and legal, and a leader puts one. `NodesHoldTheRest`: a node holds the cards its path leaves.
  `EnumeratesUpToThree`: on a field of up to three cards no legal hand is missed. `PlanPlaysOut`: hand and plan are
  the player's cards, each once.
* `SocketTable`: until `run()` returns the poll table holds the connection exactly
  while it lives. `QueueScheduled`: a queued message has a writeable callback coming.
  `ImplementsSession`: the refinement of `Session`. `QuietAfterClose`: nothing is handled,
  queued or written after the end was reported. `ConnectEnds`, `ClientEnds`: an attempt to connect ends, and
  SIGINT and the loss of an established connection end the client.
* `Reassembled`: the pieces the user is given are the payloads sent. `PiecesDescribed`: with each
  piece the remaining length and the kind of the message are right, and the buffer is not overrun.
* `TableSound`: the header table stays inside its arrays, its chains run upwards, and no fragment or character is on the chains
  of two headers. `HeadersCollected`: a header sent several times is read back joined.
* `TableConsistent`: slots, positions and lookup agree through every close. `FileInOrder`: the bytes of a file leave in
  order. `WellBehavedIsSafe`: peers with one complete request each never make the server use a table it gave back.
  `FileServed`: a file begun is brought to an end.
* `KeptThenDeaf`: while input is kept nothing more is read. `MirroredInOrder`: a session is sent what entered the ring since it
  began, until it is lapped or a message of its own is cut. `NothingLost`: a session's messages enter the ring once, in order. `ReadAgain`: a throttled session is read again.
* `GotContent`: when no seek is pending, what was read is the content up to the position. `ShortReadAtEnd`: a short read means the
  end or an error. `FlushedIsGiven`: after a successful flush or close the file decodes to what was given, byte for byte, unless
  `marred`. `FileIsPrefix`: at every moment, also after a failed write, the file decodes to a beginning of what was given. `CallsEnd`: no call loops.
* `CodeIsOptimal`: the code is complete and no prefix code costs less unless lengths were cut. `TableDecodes`: the two-level
  table decodes every bit pattern. `SymbolsArrive`: lengths and matches come back.
* `Decodable`, `FlushPoints`, `WindowWritten`, `ReadBack`, `StreamEnds`: the output stands for the input; a flush makes all given readable
  and a full flush is a place to start from; no match is compared with bytes nobody wrote; inflate gives the input back; finishing ends.

### Disagreements between the code and what is said of it

`ws_timeout_reported` is a run: `README.coding:244` promises a callback when the connection attempt
times out; in the wait for the handshake's answer there is none, and `run()` never ends.
Further configurations, kept beside the runs, reproduce the others; in each TLC violates the one
property, which states the quoted text.

| Configuration (module) | Quoted text | What happens |
|---|---|---|
| `TrickKaidan.cfg` (`Trick`) | `DaifugoRule.cpp:109`, `:151`: a staircase may lead | gaps are measured in table indices, four to a rank; no hand is a staircase |
| `PoorPassMeansNoHand.cfg` (`PoorPlayer`) | `PoorPlayer.cpp:49`: no choice but to pass | only neighbours in the sorted hand are tried |
| `PoorPassWhenTooFew.cfg` (`PoorPlayer`) | the same | the unsigned bound wraps, and the vector is read past its end |
| `PoorWeakCardsFirst.cfg` (`PoorPlayer`) | `PoorPlayer.cpp:33`, `DaifugoRule.cpp:49` | in a revolution the joker goes first |
| `PoorFinishIsAllowed.cfg` (`PoorPlayer`) | `DaifugoRule.cpp:88` | `canAgari` is never asked |
| `SageLastChildTaken.cfg` (`SagePlayer`) | `SagePlayer.cpp:207`: then the last child is taken | the time limit strikes before the root has a child; child -1 is taken |
| `WsSplitHandshakeWaits.cfg` (`WsThread`) | `lws/client.c:404` | EAGAIN between two packets ends the connection |
| `WsSentWhole.cfg` (`WsThread`) | `lws/libwebsockets.h:712`, `lws/output.c:284` | the rest of a partial send is lost |
| `WsTableEntriesLive.cfg` (`WsThread`) | `lws/client.c:56`, `lws/libwebsockets.c:1168` | a freed connection stays in the table |
| `LwsFileSentWhole.cfg` (`LwsServer`) | `lws/output.c:284` | a partial send is reported whole, and the next chunk of the file sent in its place |
| `GzGapsAreZeros.cfg` (`MCGz`) | `zlib/zlib.h:1344`: a sequence of zeroes | a seek before the first write and then `gzputc`, `gzflush`, `gzclose` or `gzsetparams`: `gz_zero` allocates the buffer in its first round, which sets no zeros, and compresses it as it is |
| `GzParamsKeepData.cfg` (`MCGz`) | `zlib/zlib.h:654`: the input so far is compressed with the old level | `deflateParams` has no room in the output buffer, changes the function all the same, and bytes held back are lost |
| `GzGetcAtTold.cfg` (`MCGz`) | `zlib/zlib.h:1338`, `:1364` | `gzgetc` after `gzseek` and `gzdirect` returns the byte at the old position (`zlib/gzread.c:469`) |

Met while modelling and described by the models' conditions rather than by a configuration: a
masked frame without payload makes the server's parser take the next header for payload
(`lws/parsers.c:851`; `Derailed` in `LwsRx`); a ping longer than the receive buffer, which a protocol with a small
`rx_buffer_size` (the test server's `test-server.c:590` has 10) may meet, is answered by one pong for every
buffer of it (`lws/parsers.c:888`; `PingFits` in `LwsRx`; the attempt to prove `Reassembled` without it showed this); a second request on an HTTP connection, and a handshake
without Host or key, use or free a header table twice (`WellBehaved` in `LwsServer`); a `gzseek` that is
refused has already dropped a pending skip; `gzclearerr` or `gzclose` after a failed write lets buffered data be lost or written
twice, so that `FlushedIsGiven` speaks of streams without a failure and `FileIsPrefix` of the time until then; `deflateParams` with little room loses the literal that `deflate_slow` holds
back (`zlib/zlib.h:658`), so `ParamOuts` gives it room; after `inflateSync` the final check fails.

## 4. Proofs

Every theorem holds for every value of the constants, under the named assumptions of
the modules (`UniverseAssumption`, `PackAssumption`, `RuleAssumption`, `SizeAssumption`, `DealsAssumption`, `BoundsAssumption`,
`TweetsAssumption`, `HeadersAssumption`, `RxAssumption`, `ServerAssumption`, `MirrorAssumption`, `GzWriteAssumption`, `GzReadAssumption`), which only give the constants their types, keep
`size_t` wider than the number of cards, the parser's states and the symbols of characters apart from the headers it knows, frame lengths within what the writer can encode, the ring's slack between
two slots and its size, and the sizes of gz buffers and reads above zero (`gzbuffer` refuses, and `gzread` and `gzgets` return at once on, anything else).

* `DaifugoRuleProofs`: two different cards of one suit are at least four indices apart,
  and the joker fills one gap at most; with three cards there are two in one suit, so
  no set is a kaidan (`KaidanNever`), every branch of rule B's `canPut` beyond rule A's is
  dead, and the rules agree (`RuleBIsRuleA`): what `TrickKaidan.cfg` shows of one deck holds of every hand, against the
  comments in `DaifugoRule.cpp`. The lemmas on the sorted vector (`VectorSorted`: by a smallest card that is not
  listed there would be none) give the two codecs, `CardCodec` and `CardSetCodec`.
* `PlayProofs`, the trick: `canPut` on non-empty hands of one size is a strict order given by the
  first cards; a trick is ordered by it because a hand is put on a hand that
  already beats those below (`TrickOrdered`). `CodecKeepsHands` follows from `CardSetCodec`.
* `PlayProofs`, the simple player: the sorted hand holds exactly the player's cards, and while the bound
  does not wrap every window lies within it (lemmas), so that what is returned is held
  and allowed. The invariant `PoorInv` adds to the types that `think` is asked with at least
  one card (`AskedWithCards`) and that a leader is still at its first window
  (`LeadAtStart`): a single card, which the rule accepts on an empty field
  (`PoorTypes`, `PoorPutsLegal`, `PoorLeaderPuts`). `SearchInv` says what the search has behind it: every window
  before the current one was refused. A single put is then the weakest (`PoorPutsWeakest`), and a pass means that no
  window was allowed; that no other hand is either needs that two cards of one number, or a card and the joker,
  have neighbours in the sorted hand that beat as much (`PairHasNeighbours`, `PoorPassesOnlyWithoutChoice`).
* `SagePlayerProofs`: `_genAllCombination` is a recursive function, and the first thing to show is that its equation has a
  solution: it unites values at larger sets, so that the smallest function closed under it is one (`FixedPoint`,
  `Combinations`). Arguments over the recursion look at a largest set that fails (`NoneGrows`): what is enumerated is
  legal (`OnlyLegal`), and since rule B never allows more than rule A, a subset of a leading hand leads too and
  nothing of up to three cards is missed (`NoneMissed`, `SageEnumeratesAll`). The invariant `SageInv` adds `SearchOK`: the nodes
  are all the root or all below it, a path's hands do not overlap, its first hand may be put on the field as it is now and only
  the first can be a pass, and what has points may be put. Without the last two neither a search cut short nor
  the saved plan could be said to be legal (`SagePutsLegal`, `SageNodesHoldTheRest`, `SagePlansPlayOut`).
* `WsThreadProofs`: `SocketTable` and `QueueScheduled` are not inductive alone. `WsInv` adds
  `Phases` (the thread writes and parses on an established connection only; before
  one there is nothing queued; it connects once) and `FramesFollow` (what is in the socket:
  the answer to the handshake first, frames behind it), without which the type
  of what `recv` hands to the parser could not be kept. One lemma per action or
  group of like actions; then `WsTypes`, `SocketTableAgrees`, `NoMessageStranded` and, for steps,
  `SilentAfterClose`: the steps that handle or write need an established
  connection, which is in the table, and a reported one is not.
* The session that the thread implements, also there: `AnswersInOrder` is inductive with its types, because
  an answer is appended behind messages of earlier turns only (`SessionAnswers`).
* The refinement (`ThreadIsSession`): the initial states map to the session's, and under `WsInv` every action of
  the thread and of the network is one of the session's steps or leaves its variables alone. With
  `SessionAnswers` it gives `TurnsAnswered`: the order of the answers on the wire, for any number of turns and tweets.
* `LwsParserProofs`, the headers: `TableSound` is inductive with the types of the two arrays, but for one thing: the fragment that
  `start_fragment` links is the one its loop ends at, and must have no link yet, or two fragments would lead to one. `Chain`
  is a recursive function; since links lead upwards its equation has a solution, built from the last
  place downwards (`SolvesAll`), and by a last place that fails there is none (`ChainEnds`). Then `HeaderTableSound`.
* `LwsParserProofs`, the values. `HeadersCollected` speaks of a finished parse; `CollectInv` says it of every moment before. As
  long as nothing was dropped there are lines already dealt with and, per header, a list of fragments such that the links follow
  the list and no fragment is on two (`Linked`), each such line has its fragment and the one being read one more (`Counts`), and
  the fragments hold what those lines gave (`Collected`); and the parser is at one place of the line after them (`Placed`:
  before it, at its name, in its value after `j` characters, skipping an unknown one, at the empty line, done). It needs the types
  and `TableSound`: appending a character touches no other header's fragment because theirs end below. That the
  list is what `Chain` computes, and what the fragments of it joined are, are least counterexamples again. Then `HeadersReadBack`.
* `LwsParserProofs`, the frames. `RxInv` says where the reader is (`RxOrdered`, until the peer derails a server): idle with
  all that was sent taken; busy at place `p` of the current frame, when the wire holds what remains of it and the parse
  state, the remaining length, the key index and the buffer are those of `p`, and the user has what was sent before and
  `m` bytes of this frame; or closed, with a prefix. The lemmas under it: the digits of a length come back
  (`ShiftsBack`), masking twice is the identity (`MaskTwice`), runs of bytes join (`RunJoin`, `RunMore`), what `FlattenSeq` gives for
  one piece more (`FlattenMore`, by a least counterexample), and where the last message starts (`BinaryNext`). The bound of the
  buffer holds derailed or not. Then `RxInvariant`, `RxReassembles` (the pieces of a message, joined, are the message, and a pong
  carries its ping) and `RxDescribes` (first, last and remaining length tell the truth of each piece).
* `LwsServerProofs`: `ServerInv` is about the table (every live connection has the slot it says, no two share one, the
  slot being served is a live one), about each connection's send (what the kernel has, the kept rest and the file
  position follow each other, `FileInOrder`) and about what a well-behaved peer has still to send. A close moves the last entry
  into the slot, so that consistency of the table needs the whole of it (`TableStaysConsistent`, `FileLeavesInOrder`,
  `WellBehavedPeersAreSafe`, `ServerTypes`).
* `MirrorProofs`, in layers. `FlowInv`: kept input and a noted change of flow go together with not polling, wherever the
  thread is between the note and `ApplyFlow` (`KeptIsNotOvertaken`). `LogInv`: head and tails are the positions in the whole
  log modulo the ring, and the ring's slots hold the last of the log as long as a session is not lapped
  (`MirrorKeepsOrder`); the lemmas on `%` say when two positions share a slot. `AloneOK`: as long as only one session's messages
  are in the log it is throttled before it reaches its own tail, so that a drop takes another one's messages.
  `LostOK`: the numbers of a session's messages run on from the log through what is kept and in work to the socket
  (`MirrorLosesNothing`).
* `GzProofs`, writing. `WritesInv`: as long as nothing but a failed write has happened, what the file decodes to is a beginning of
  what was given (`WFell`); until a write fails, what the file decodes to and then what the output buffer, `deflate`,
  the input buffer and the zeros of a gap have still to add is what was given (`WOK`), and a call that ends with a flush leaves the
  buffers empty. `marred` only grows (`MarredStays`), so that each step has to be looked at in unmarred states only, and the step
  in which a write fails leaves a beginning (`FellStep`, `StoppedPart`). `Decoded` is a recursive function over the file; one unit more is one
  step of it (`DecodedMore`), and with a least counterexample so are a member's bytes (`DecodedBytes`). Then `WrittenIsGiven` and
  `WrittenIsPrefix`.
* `GzProofs`, reading. `ReadsInv` says where a reader that has met no error stands (`Stands`): the input buffer is the run of
  units before the file position, the units used have made exactly the data up to the position and the output buffer, in the
  mode that the decoder of the whole file is in at that unit (`ModeOK`), or the file is copied from some unit on
  (`Copies`); and what the caller has got, followed by the output buffer, is a run of the content that ends there, behind
  characters that were pushed back (`SegOf`). A reader that has met the end has not met it after a lone magic byte, unless that
  is still the end: a file that grows there would otherwise turn raw data into a header (`InFile`). Then
  `ReadIsContent` and `ShortReadIsEnd`.

Model-checked only: the liveness properties (fairness is outside the prover's reach) and the liveness part of
`Session`; and the Huffman codes and
`ZStream`, where `Deflate`, `HuffmanTree` and `InflateTable` use recursive operators, which the prover cannot read.

## 5. Not modelled

SSL, proxies and extensions (not compiled in, not set, refused by the callback); the text of
handshakes (a handshake is good, bad, short or cut: the checks of `lws/client.c:455-692` are one verdict, and the NULL list of
protocols dereferenced at line 543 when a server names one is not reached); SHA-1, base64, daemon and interface helpers
(pure functions and system calls); old protocol versions; picojson and malformed messages;
out-of-memory paths other than the ones named; logging; the Android activity (one button, disabled
while a session runs); the test programs other than the mirror server. Of zlib: gzip headers in
deflate and inflate, `deflatePrime`, `deflateTune`, `inflateBack`, `Z_FILTERED` and `Z_FIXED`, level 0 together with the
rle and huffman strategies, CRC-32, and an earlier gz layer (`gzio.c`). `PROJECT.json` lists every component with its
status, and the hazards that no property covers with the reason.

## 6. Plan

Done: cards, rules, both players, connection, run loop and session with their refinement, frames, headers,
server, mirror, and zlib; proofs of every safety property of the players, the run loop, the frames, the headers, the server, the
mirror and the gz files. What would come next is the correctness of the Huffman codes and of `ZStream` for every
input, which needs their recursive operators restated as recursive functions and induction over the data.
