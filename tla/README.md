# SSTP GUI: TLA+ models, checks and proofs

This directory holds a verification development for the macOS SSTP client in
this repository: TLA+ modules translated from the Rust sources, TLC
configurations that model-check them, and TLAPS proofs of theorems about them.
Paths and line numbers refer to the repository at the commit it is kept with.

Run in this directory:

    tlc -workers 2 -config MCEngine.cfg MCEngine     # any row of the table of runs
    tlapm EngineProofs.tla                           # any of the eight proof modules

`PROJECT.json` lists, for machines, what this page says for readers: the runs
with their properties, the source lines each definition translates, the hazards
and findings, and one mutated definition per checked property.

## 1. The system

The program is one binary that runs as two processes. The unprivileged GUI
(`src/main.rs`) asks, through an administrator prompt, for a root worker
(`src/worker.rs`). The worker owns the TLS connection, the utun interface and the
routes. The two talk only through files. Inside the worker a tokio task
(`connection.rs`) moves bytes between the TLS stream, the utun interface and a
pure protocol engine (`engine.rs`), which holds the LCP and IPCP automata and the
MS-CHAPv2 exchange.

| Component | State it keeps | Operations | Talks to |
|---|---|---|---|
| LCP automaton, `lcp.rs` | identifier, magic, wanted options, last request, local/remote up, peer's auth demand | `start`, `receive`, `build_protocol_reject` | called by the engine |
| IPCP automaton, `ipcp.rs` | the same, and the negotiated addresses | `start`, `receive` | called by the engine |
| MS-CHAPv2, `chap_fsm.rs` | none (a pending response is handed to the engine) | `build_response`, `verify_success` | called by the engine |
| Engine, `engine.rs` | phase, binding hash and nonce, pending response and challenge, keys | `on_packet` | packets in, events out |
| Connection task, `connection.rs` | where it awaits, unanswered echoes, interface, channels | `select!` over disconnect, read, timer, utun | engine, `Handle`, reader thread, worker (events) |
| Worker, `worker.rs` | `route_protected`, `disconnect_sent`, gateway | reacts to events, polls the marker | connection task, files, routing table |
| Files, `ipc.rs` | status, disconnect marker, pending password | read, write, remove | both processes |
| Routes, `route.rs` | snapshot of the gateway, `HEALING_IN_PROGRESS` | snapshot, health test, healing thread | files, routing table, prompts |
| GUI control, `main.rs` | `vpn_status`, `busy`, last healing | connect and disconnect threads, 3 s poll, quit | files, routes, prompts |
| Framing, `packet.rs`, `ppp.rs`, `http.rs` | bytes not yet decoded | `parse_response`, `push`, `next_packet`, `encode_*` | between connection and engine |
| Crypto, TLS, utun ioctls, keychain, log, i18n, drawing, icons | little or none | pure functions or I/O | |

What is hard here:

- *Order.* The engine handles every protocol in every phase; the peer chooses
  the order. Two automata run without timers and depend on never going quiet.
- *Stale values.* Pending response and challenge are separate fields; an answer
  may belong to an earlier request; a second authentication restarts IPCP over
  the first one's state; the GUI acts on files another process is rewriting.
- *Interleaving.* `select!` branches, the blocking reader thread, GUI threads,
  several workers, prompts that stay open for as long as the user likes.
- *Crashes.* Either process can go at any point, with the route half moved.
- *Time.* Keepalive limits, a 3 s wait for an acknowledgement, 10 s for the
  worker, retries of the healing.

What makes each part correct, in a sentence: the automata believe only what the
peer acknowledged and never go down silently; the engine installs keys only on a
response a holder of the password vouched for and binds one session once; the
connection task ends exactly once, and ends when asked or when the server is
gone; the engine is given the packets the server sent, however TLS cut them; the
worker keeps the link to the server outside the tunnel; the GUI shows
what is so and gives the machine its route back.

## 2. The modules

    Cp ── Lcp ──┐                       Machine ── Worker ──┐
     └─── Ipcp ─┼─ Engine ── Handshake      └───── Gui ─────┴─ Session ── MCSession
          Chap ─┘            Connection     Wire ── Framing ── Conversations ── MCFraming

    Engine     implements  Login     (EngineImplementsLogin)
    Connection implements  Link      (ConnectionKeepsPromise)

A line reads "is extended by", left to right. Each module with `Proofs` in its
name extends the one it is about. Operators named `Wrong...` are mutated forms
of the definition below them; no specification uses them.

**Cp** has what LCP and IPCP share: frames, the request identifier that wraps,
options as functions from kinds to data, Nak and Reject applied to the wanted
options. The order of options, repeated kinds and undecodable tails are
abstracted away.

**Lcp**, **Ipcp**: the structs as one record each (`lcp`, `ipcp`), one action per
arm of `receive`; the frames the call returned are `toSend`. Data of the wrong
length is the value `Malformed`.

**Chap**: the cryptography is symbolic. A response is the pair of challenges it
is computed from, an authenticator names the response and challenges it is for;
different inputs give different terms.

**Engine**: struct `Engine` as variables, and `OnPacket(p)` with one action per
path of `on_ctrl`, `on_connect_ack`, `handle_lcp`, `handle_chap`, `handle_ipcp`
and `on_ppp_frame`. `outcome` is the event returned besides `Send`; a failing
`expect` is the outcome `panic`. Two history variables belong to the environment:
`responses` we sent and those `vouched` for by someone who knows the password.
The peer may send any packet at any time; the only thing it cannot do is make an
authenticator nobody vouched for.

**Handshake**: the same engine and a server over two FIFO channels (TLS over TCP
loses and reorders nothing, but each side may run ahead). The server is not in
the repository. It does what the engine and its tests expect of one, and chooses
freely where a real server may: what to reject, whether to suggest another
magic number, which binding to offer, when to speak, and unsolicited packets. It
may authenticate the client again; it does so once the CONNECTED of the
authentication before has come, since the client computes CONNECTED from the keys
it holds when IPCP opens, and it then expects a CONNECTED for the new keys. The
server keeps the engine's environment variables too (`vouched` grows where it
sends a Success), so that its behaviours can be compared with those of `Engine`.

**Connection**: `run_inner` between its await points. `stage` is where the task
is, `todo` the engine events of the chunk being handled; the biased `select!` is
the `Yields...` guards; an await inside a branch is a stage, so nothing else runs
during a write. The Handle and one reader thread per interface are the other
actors. The engine is abstracted to the events it may return, in any order.
`silent` and `stuck` are the environment's: the server sends nothing more, takes
nothing more. Progress events (log lines) are left out.

**Link** is what the worker relies on: up at most once, with an interface that
stays while it is up; one end, for good; the interface may outlive it and then
goes. `Connection` implements it with the last event as `conn` and "some interface
exists" as `interface`. **Worker** has the same steps as `ConnUp`, `ConnEnds` and
`ReaderExits`, so what is shown of a session rests on the detailed task.

**Login** is what the engine promises about who may open the tunnel: a response is
given once; someone who knows the password may vouch for it; the latest one, once
vouched for, admits the server and is spent; the tunnel opens only behind that.
`Engine` implements it: phases map to `stage`, the pending response and the keys
to the responses they were made from.

**Wire** has the formats: SSTP packets, attributes, PPP frames, with bytes below
`Radix` (256 in the code), so that 16-bit lengths wrap where the code's do.
**Framing** is the way of the bytes from the TLS stream to the engine: the HTTP
response, the hand-over of what came with it, `PacketReader`, the read branch and
the keepalive count. The stream never changes and `read` says how much of it has
arrived; a read may bring any number of bytes. What the engine does with a packet
is left to `Engine`; that the task may end at any time is `TaskEnds`.
**Conversations** says what a server puts into such a stream: a response, messages
in the code's own formats, a tail that is unfinished or spoilt. A message in the
compressed form must not begin like one that is not, and must fit in a packet
(`Proper`); nothing else is asked of it. `DeliveredAsSent` compares what was said
with what the engine got.

**Machine**: files, saved gateway, default route, host route, the elevated
commands waiting for the user, the worker processes. **Worker** is the process of
`worker.rs` with a step between any two of its effects on the machine; a status
write is two of them, since `fs::write` truncates first, and a worker killed in
between leaves an empty file. **Gui** is
the application: connect and disconnect threads (`busy` keeps them apart, so one
variable holds whichever runs), the poll, the healing thread, quitting and
starting. **Session** puts them together and states fairness and properties.

Abstractions of the session side, each chosen so that no order of effects
between processes is lost except where this says so: the poll
(`main.rs:568-633`), the removal of the two files when a connection is staged,
and a worker's last removal with its exit, are one step each; what is read of a
truncated file is nothing, never half a status (which parses as nothing too);
process ids are not reused; the 30 s between two healings and
the 3 s of the poll are "some time later"; the tray menu is enabled by the
current state rather than the one drawn last. A worker's number stands for its
pid, its interface and the gateway text that interface shows.
`TunnelGatewayShown` says whether `route -n get default` prints a gateway for a
tunnel; the code depends on a macOS detail here, so it is a constant.

## 3. The runs

Runs that pass:

| Run | Bounds | States | What it shows |
|---|---|---|---|
| `MCAutomata` | identifiers mod 3, 2 magic numbers, 2 addresses | 37 657 | LCP and IPCP, whatever the peer sends and however often IPCP is started: types, magic and offer together, going down is announced, acknowledged options fixed, recorded addresses the acknowledged ones |
| `MCEngine` | identifiers mod 2, 2 challenges, 2 responses, 2 nonces | 384 378 | mutual authentication, no replay, one binding, no panic once it is there, against an arbitrary peer; the engine implements `Login` |
| `MCHandshake` | identifiers mod 8, one unsolicited packet, two re-authentications, all server choices | 426 728 | both ends agree on options, addresses, keys and binding; nothing fails; the handshake completes |
| `MCConnection` | 2 echoes, channel of 2, 2 interfaces, 8 shapes of chunk | 80 116 | the task implements `Link`; disconnect carried out, silent server dropped, unless a write is stuck; a reader waiting for room is set free |
| `MCFraming` | radix 5, some 140 conversations of at most two whole packets and a tail, every cut | 27 540 | no byte lost, packets delivered as sent and independent of the cuts, nothing held back for ever, where a Protocol-Reject stops fitting |
| `MCSession` | 1 worker, 1 restart, 2 healing attempts | 56 848 | display catches up, disconnect ends, one healing prompt, route returns |
| `MCSessionInTurn` | 2 workers in turn, 2 healing attempts | 232 761 | link protected, status file about the worker there is, drop shown, route returns, over an earlier session's leftovers |

The automata of `MCAutomata` share nothing, so one runs while the other stays as
it was made; one run asks the same questions of both.

Why the bounds are enough. An automaton compares identifiers only with the last one
sent: two values tell "current" from "stale", three leave room for two stale ones and
the wrap. The engine compares challenges and nonces only with themselves, hence the
symmetry in `MCEngine`; two of each give the replay and the mix-up. In `MCHandshake`
three authentications start IPCP three times, so never more than three requests of one
automaton are on their way at once and identifiers mod 8 tell them apart; the second
re-authentication is what it takes for the server to compare a CONNECTED while an
earlier one has already been accepted. The theorems about it are for any modulus and any
number of both. The echo limit, channel size and attempts are counters with the same
behaviour at any size above one; the code has 4, 64 and 4. Two workers are what it takes
for leftovers and for overlap. In `MCFraming` a packet has at most 24 bytes instead of
65 535; the tails are the ways `decode` has to fail, one each, and prefixes of a packet;
two packets are what it takes for a cut in one to disturb the other, and there is a
frame of every length up to the longest. The set of streams is a constant, and the
proofs are about any set.

Runs expected to find a violation check what a comment, a doc or a test of the
repository says against what the code does:

| Run | Said | What happens |
|---|---|---|
| `MCEnginePanic` | `engine.rs:52` never a panic | CHAP and IPCP complete before CONNECT_ACK; `expect` on `hash_algo` |
| `MCConnectionTerminates` | `connection.rs:65` disconnect always terminates | not while TLS or HTTP is awaited: those waits look at no command and have no limit (the kernel limits only TCP's) |
| `MCConnectionInterface` | `utun.rs:69-70` teardown is immediate and complete | the reader thread holds the fd until a packet comes |
| `MCSessionConfirmed` | `main.rs:326` waits for the worker to confirm | no status file counts as confirmation |
| `MCSessionSnapshot` | `route.rs:66` no snapshot of our own tunnel | the status file it consults was just removed |

How far three of these go is proved. `MCEnginePanic` needs a peer whose CONNECT_ACK
has not been accepted (`EnginePanicsOnlyUnbound`). Of the confirmations
`spawn_disconnect` waits for, only the missing file of `MCSessionConfirmed` misleads
it in a session by itself: a file that is there is about the worker there is
(`StatusIsCurrentInTurn`). `MCSessionSnapshot` needs sessions that overlap
(`SnapshotIsPhysicalInTurn`) and a system that prints a gateway for a tunnel
(`SnapshotIsPhysicalUnlessShown`).

Seen while translating, and kept as hazards without a run of their own:

- `lcp.rs:167` says a Protocol-Reject carries "as much of" the frame "as fits";
  nothing cuts it. `RejectsFit` states from where on the length wraps: rejecting a
  frame of 65 524 bytes or more, the client sends a packet whose header says a few
  bytes and whose rest the server takes for further packets.
- `lcp.rs:203`: an authentication proposal is recorded while the options are
  read; a later option of the same request can still turn the answer into a
  Reject. The test at `lcp.rs:349` wants nothing recorded of a proposal that was
  not accepted.
- `engine.rs:254`: a Success starts IPCP whatever the state of LCP; `ipcp.rs:2`
  puts IPCP after LCP and CHAP.
- `ipcp.rs:86`: `start` sends a new request and leaves `local_up` set.
- `connection.rs:185`: dropping the `Handle` closes the command channel, which
  completes `recv()` and ends the session; `connection.rs:54` says the task runs on.
- `main.rs:586`: the poll gives up on a worker whose prompt is still open.
- `route.rs:182`: a retry of the healing opens its prompt without looking at the
  route again.
- `main.rs:374`: a disconnect before the worker has started discards the snapshot
  that worker's session will need.
- `worker.rs:152`: the host route has no owner; of two overlapping workers the
  first to end removes it under the other.

`MCConnection`, `MCFraming`, the session runs, `MCEngine` and `MCHandshake` do not
check for deadlock: a connection, a session and a handshake may end.

The properties of `MCSessionInTurn` are stated for sessions one after the other.
`LinkIsProtected` does not hold of sessions that overlap (the last item above), nor does
`StatusIsCurrent`, and neither is claimed for them. Two overlapping sessions have more
than 17 million states with torn writes, too many for a run; the violations of
`MCSessionConfirmed` and `MCSessionSnapshot` are found in that space long before its
end, and the theorems `SessionIsTyped`, `SessionHealsOneAtATime` and
`SnapshotIsPhysicalUnlessShown` cover all of it.

## 4. Fairness

- *Handshake*: the client reads while there is something to read, the server
  answers and makes its own requests. No fairness for unsolicited packets.
- *Connection*: the runtime polls a task that can move; the timer runs; the kernel
  ends a TCP connect one way or the other; a write ends while the server still
  takes bytes. None for the server, for local traffic, for the user, nor for a
  write once the server is `stuck`: `connection.rs:186,213,266,271` have no
  timeout. So `SilentServerIsDropped` and `DisconnectFromLoopReturns` need nothing
  of the server and say "or a write is held up".
- *Framing*: the task decodes what it has and the timer ticks. None for the server.
- *Session*: threads and processes run, the poll polls. Two assumptions are about
  the world: a prompt is answered sooner or later, and one that is asked again and
  again is one day approved (strong fairness of approving a healing; without it
  no route can come back); and some packet always comes along to end the reader
  thread of a dead tunnel (`MCConnectionInterface` shows what happens if not:
  the worker cannot exit and reports nothing). None for the user's clicks, the
  server, or crashes, and none for the worker's look at the disconnect marker:
  every event restarts its 500 ms sleep (`worker.rs:130`), so a stream of events
  can put it off for ever. `DisconnectCompletes` holds all the same.

## 5. What is proved

The eight proof modules (`CpProofs`, `LcpProofs`, `IpcpProofs`, `EngineProofs`,
`HandshakeProofs`, `ConnectionProofs`, `FramingProofs`, `SessionProofs`) are checked
by TLAPS from nothing, for every value of the constants; the only assumptions are
the named ASSUMEs of the modules:

- packets and frames of the peer have the form of packets and frames; `None` and
  `Malformed` are no addresses, identifiers, algorithms or terms of the
  cryptography; the modulus is positive; options called magic numbers hold magic
  numbers or are malformed;
- the addresses the server assigns are addresses, and a server that refuses a
  magic number has another one to suggest (`AnotherMagic`);
- a byte is below the radix, the protocol number of LCP fits in two of them, CR is
  not LF;
- a conversation is made of proper messages, its text ends in the first blank line,
  and its tail begins with no whole packet (`ConversationsAssumption`; nothing is
  assumed of the number or length of conversations, and TLC evaluates it for those
  of its run);
- the physical gateway is not a tunnel; limits and capacities are numbers.

Two theorems have a hypothesis of their own. `HandshakeImplementsEngine` has that
`PeerPackets` is all of `Packets`: only then is every packet of the server one the
peer of `Engine` may send. `SnapshotIsPhysicalUnlessShown` has `~TunnelGatewayShown`,
one of the two ways macOS may behave; the runs have the other.

| Theorem | Says |
|---|---|
| `LcpIsTyped`, `IpcpIsTyped`, `EngineTypeOK` | type correctness; in particular no option is ever wanted that was not offered at first |
| `LcpOfferedMagicIsOurs` | offered magic number and magic number in use never part |
| `LcpWantsFixedWhileUp` | our direction is never up on options other than the acknowledged ones |
| `LcpDownIsAnnounced` | our direction of the link, and the peer's, never goes down without a frame that says so |
| `IpcpUpMeansCaptured` | while up, recorded addresses are the acknowledged ones |
| `EnginePending` | the pending response is ours and made for the stored challenge |
| `EngineKeysAreVouched` | keys, IPCP and the tunnel only on a response a password holder vouched for |
| `EngineBindingChosenOnce` | hash and nonce never change once chosen |
| `EngineNoReplay` | entering IPCP always brings new keys |
| `EngineImplementsAbstractLogin` | every step of the engine is a step of `Login`, or none |
| `EnginePanicsOnlyUnbound` | no panic once a CONNECT_ACK has been accepted, whatever the peer sends and however often it authenticates |
| `HandshakeKeyAgreement` | a tunnel the server has admitted is established at the client, on the same keys, hash and nonce |
| `HandshakeLinkAgreement` | with a protocol-following server: options held for acknowledged are the ones the server acknowledged |
| `HandshakeAddressAgreement` | with such a server: addresses and name servers of an established tunnel are those it assigned, for any number of authentications and requests in flight |
| `HandshakeBindingAccepted` | such a server never has to refuse CONNECTED |
| `HandshakeNoFailure` | such a server never meets a fatal error or a panic |
| `HandshakeImplementsEngine` | such a server is a peer `Engine` allows, so the theorems about `Engine` hold of the handshake |
| `ConnectionIsTyped` | echo count, channels and stages keep their bounds, for any limit, capacity and number of interfaces |
| `ConnectionEndsOnce` | one terminal event, the last, when the task is over |
| `ConnectionImplementsLink` | every step of the task, its Handle and its reader threads is a step of `Link`, or none |
| `FramingIsTyped` | for any radix and any streams, nothing is read past the end and the echo count keeps its limit |
| `FramingLosesNothing` | the buffer is what has arrived and not left, byte for byte |
| `FramingDeliversInOrder` | the i-th packet given to the engine is the one between the i-th packet boundary of the stream and the next, whatever the cuts |
| `PppComesBack` | a PPP frame that fits in a packet is decoded, from the front of any buffer, to the protocol and payload it was encoded from, for any radix |
| `MessagesComeBack` | every message that fits, control packets with any number of attributes included, is decoded from the front of any buffer to what was encoded |
| `FramingDeliversAsSent` | for any conversations, of any length and cut anywhere: the engine is given what was sent, in order, all of it, and nothing fails before a spoilt packet |
| `FramingRejectsFit` | the Protocol-Reject of a frame that arrived is whole exactly as long as three more headers fit |
| `FramingIsCutIndependent` | the packets given to the engine are determined by the stream alone |
| `SessionIsTyped` | files, routes, processes, threads: any number of sessions, overlapping or not |
| `SessionHealsOneAtATime` | never two healing prompts at once, for any number of sessions, attempts and restarts, overlapping or not |
| `LinkIsProtectedInTurn` | sessions in turn, any number: default route through a live tunnel implies host route |
| `SnapshotIsPhysicalInTurn` | sessions in turn: no tunnel is saved as the gateway to go back to |
| `SnapshotIsPhysicalUnlessShown` | nor in sessions that overlap, on a system that prints no gateway for a tunnel |
| `StatusIsCurrentInTurn` | sessions in turn, any number: the pid in the status file is the live worker's, and an end it reports is the end |

The argument for the engine: `KeysAreVouched` is not inductive. That a verified Success
proves a voucher for *our* response needs the pending response to be one of ours, made
for the stored challenge (`PendingMatchesChallenge`). That a Success brings new keys
needs the pending response not to be the one in use (`PendingIsUnused`), which holds
because a fresh peer challenge is drawn for every answer and a Success takes the pending
response. That the binding is chosen once needs nothing to be bound before CONNECT_ACK
(`UnboundWhileWaiting`). That only an unbound engine panics needs hash and nonce to be
set together (`BoundAtOnce`): a Success brings the keys along with the phase in which
IPCP can open, so of the three `expect`s only those on the binding can fail. `IInv` is
their conjunction with the types, and `NextIInv` goes through the handlers one by one.
The lemmas about the automata (`LcpReceiveType`, `IpcpReceiveType`) carry over to the
engine because its handlers call theirs.

For the refinement of `Login` the same `IInv` is enough, with one case per handler:
each maps to `Give`, `Admit`, `Open`, `End` or a stutter, and `Vouch` to `VouchFor`.

The argument for the handshake is in layers, each inductive given the ones before.
`ChannelsOK` types the server and both channels and keeps forged vouchers off the
wire. For LCP and for authentication the packets in flight carry one *token*: of
our Configure-Request and its answer, and of Challenge, Response, Success and
CONNECTED, there is never more than one, in either channel (`OneToken`, with lemmas
on how a step passes a token on). So an answer is always to the request last made,
and agreement follows whatever the identifiers are (`LinkInv`, `AuthInv`). That CONNECTED
is part of this token carries `HandshakeKeyAgreement`: while it is on its way, and
after it was accepted, the client is established on the keys the server holds
(`TunnelHeld`), until the server challenges again. IPCP has
no token, as every Success starts it again with requests in flight. There the
argument is that our options move one way only, by dropping what the server
refuses and adopting what it assigns, toward `Settled`; an Ack in flight means that
they have arrived there (`AddressInv`). `OfferInv` has the binding: nothing is sent
before the first CONNECT_ACK, and later ones find the engine past it.
`PeerAuthInv` and `Peaceful` keep from the client what it would refuse. That none of
it fails (`HandshakeNoFailure`) combines them.

Trying to prove `BindingAccepted` showed that an earlier form of the server was wrong
from the third authentication on: it kept the verdict on the CONNECTED before, and
so could challenge again while one for older keys was on its way, and then refuse
it. The engine is as it was; the server now waits, and the run has the bound that
shows the difference.

The argument for the connection: `OneTerminalEvent` is its own strengthening once
`Terminal` is known to be appended by `Finish` alone, which also ends the task.
`Link` needs more: the last interface made is the one the task holds, no reader
exists beyond it, and an interface exists as soon as Connected was sent.

The argument for the framing: every step but a read takes bytes from the front of
the buffer by the same length `decode` used; so `buf` stays the piece of the stream
between `done` and `read` (`NoByteLost`), and each packet decoded from the front of
the buffer is the packet at that place of the stream, because `decode` looks at
nothing past the length in the header. While the
response is read the buffer is the whole beginning of the stream
(`NothingDoneYet`), so the first blank line in it is the first one of the stream.
`done` moves from one packet boundary to the next and one packet is delivered with
each move (`OrderInv`), which is delivery in order. `PppComesBack` follows the bytes
of a packet through encoder and decoder; its one arithmetic fact is that a length
below `Radix * Radix` survives two digits. `RejectsFit` is the same computation for a
Protocol-Reject, in both directions: when three more headers no longer fit, the
length field has wrapped and is smaller than the packet.

`FramingDeliversAsSent` adds what the formats are. `MessagesComeBack` follows a control
packet's attributes one by one: after n of them the decoder stands at the end of the
n-th and holds the first n. `ConversationDivides` lays the messages of a conversation
out in its stream, so that their ends are packet boundaries, by induction on their
number; boundaries are determined by the stream, so these are the ones `done` moves
through. `SentInv` says that whole packets were taken whole, and that the task waits
only when the buffer holds none; with it, a read that has brought everything leaves
nothing undelivered, and what fails can only be the tail.

The argument for the session: a healing prompt is open only while the healing
thread waits for it (`HealPromptIsWaitedFor`), and a new attempt starts only from
elsewhere. Quitting hands open prompts over to no one (`orphan`). For sessions in
turn, `LinkIsProtected` is carried by `InTurnIInv`: at most one worker is there, none
while a new one is prepared; a worker's events come in order (`Sound`); a default
route through a tunnel was set by that tunnel's own worker after it had taken the
Connected event; and no saved gateway, open prompt or healing names a tunnel, so
that no repair can point the route at one.

For the status file in turn, `InTurnIInv` also says what each place of a worker's
program has written so far (`StatusIsCurrent`), and that a worker is launched over
no status at all (`LaunchedUnrecorded`): that is where an end reported by the last
session would be taken for one of the next. `SnapshotIsPhysicalUnlessShown` needs no
invariant of its own: the saved gateway changes only to what is read of the route,
and a tunnel's is then nothing.

Every safety invariant and every action property of the passing runs is stated by a
theorem. What recursive data needed an induction for is in `FramingProofs`, where
the recursion is a function (`AttrsOf`) or a fold (`FlattenSeq`) and the induction is
that every non-empty set of numbers has a least one (`LeastNumber`, from the
well-foundedness of < on Nat), applied to the set of counter-examples.

All liveness is only model-checked, since TLAPS does not reach fairness:
`HandshakeCompletes`, `DisconnectFromLoopReturns`, `SilentServerIsDropped`,
`ReaderIsReleased`, `HeldBackIsHandled`, `UiCatchesUp`, `DisconnectCompletes`,
`RouteComesBack`, `DropIsShown`.

The cryptographic idealisation (distinct terms, a random 16-byte peer challenge
never drawn twice, authenticators only from password holders) is an assumption of
the model, not a result.

## 6. Not modelled

Hashes, DES, MPPE and the compound MAC as functions on bytes; TLS configuration;
the HTTP request and the reading of the status line (a set of accepted texts);
utun ioctls; quoting of shell and AppleScript text; the texts of status codes;
keychain, log, translations, profiles, drawing, icon generation. The profile list
and the keychain entries are changed by one thread in answer to clicks, and the
keychain has nothing concurrent to it.

Hazards known and not covered, with the reason, are in `PROJECT.json`: pid reuse,
endless Naks, name servers that stay recorded over a renegotiation, workers of
overlapping sessions writing over each other's files, a host route left behind by
a killed worker.

## 7. What could come next

1. Renegotiation in `Handshake`: LCP or IPCP again after Established, stale name
   servers (`ipcp.rs:181`), a second interface.
2. Overlapping sessions under a coarser `Worker`, small enough for TLC, and the
   properties that survive them.
3. Theorems: of two overlapping sessions, what `LinkIsProtected` becomes when the host
   route has two users; the liveness of this page, with a prover that reaches it.
4. The configuration file of `main.rs:39-78`, saved without a rename.
