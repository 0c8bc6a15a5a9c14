# A TLA+ model of parts of BoringSSL

BoringSSL is a TLS library: cryptographic primitives, encodings and certificates under
`crypto/` and `pki/`, and the TLS, DTLS and QUIC-TLS state machines under `ssl/`. Much of it is
sequential computation over large data, which a model checker has little to say about. This
project models the parts whose correctness is a matter of *order*: two ends that talk over a
transport which stops, loses or reorders; threads and processes that share state; and data
structures that go through long sequences of calls.

`PROJECT.json` lists every part of the repository, also those left out and why; the source lines
each definition stands for; and the hazards of the code with the line at which each one bites and
the properties that would catch it going wrong.

## The parts and their modules

### TLS

**TLSHandshakeBase**, **TLS12Handshake**, **TLS13Handshake** and **TLSHandshake** are a client and
a server from `SSL_new` to the first application data, over a reliable bounded transport. The base
holds the state of an end, the message and record layers as the handshake uses them, and the part
of `ssl_run_handshake` that resolves what a state machine waits for; the two version modules have
one definition for each state of the state machines in `handshake_client.cc`,
`handshake_server.cc`, `tls13_client.cc` and `tls13_server.cc`; `TLSHandshake` composes the two
ends with their applications. A message is its type, the extensions and choices it carries and
the transcript it signs. A key is its level, its sealing end, whether a PSK went into it and the
transcript it was derived from, so two ends hold the same key exactly when they saw the same
messages. Callbacks (verification, private key, session and ticket lookup, certificate selection)
may ask to be called again. A configuration fixes versions, session, early data, certificates,
key exchange, the extensions that change the state machines, and how much the transport holds. A
record is two cells, its header and its body, and the transport moves cells: a flight may be sent,
and a record received, in part.

**TLSStream** is a TLS 1.3 connection after its handshake: `SSL_write`, `SSL_read`, `SSL_peek`,
`SSL_key_update`, `SSL_shutdown` and alerts, with `pending_write`, the write and read buffers, the
packing of handshake data and the limits on empty records, warnings and key updates. A record is
two cells, so that transport calls may stop inside one; a byte is its position in the stream.
**SecureStream** is what it promises: in each direction a stream of bytes, delivered in order,
each once, with an end that is reported only after all before it was read.

### DTLS

**DTLSReplay** is one epoch of the record layer: a sender that numbers records, a network that
delivers any of them any number of times, the truncated numbers that `ReconstructSeqnum` expands,
and the receiver's `DTLSReplayBitmap`. **DTLSMessageBitmap** is the bitmap of the bytes of a
message, byte by byte, against the set of marked bits. **DTLSReassembly** is the ring of incoming
messages; allocated and unwritten bytes are `Uninit`. **DTLSTimer** is the saturating arithmetic
of timers on seconds and microseconds, `DTLSv1_get_timeout`, `DTLSv1_handle_timeout` with its
backoff, and an application that sleeps in between. `DTLSParameters` declares the constants they
share.

**DTLSEndpoint** is a DTLS 1.3 endpoint as a record with one operator for each function of the
code, from state to state: packing and sending flights, ACKs in both directions, read and write
epochs, key updates, timeouts. A fatal alert or a failed assertion sets `error`.
**DTLSConnection** composes two endpoints with a set of packets in flight; its actions are the
application's calls and the network's delivery, loss and duplication. The handshake is reduced to
which flight answers which message and when keys change.

### What threads and processes share

**CryptoBufferPool** (with `PoolParameters`) is the pool of `crypto/pool`: a step is one lock
operation, one atomic operation or one critical section, and counts saturate. It includes that
`CRYPTO_BUFFER_free` reads `buf->pool` after it gave up its reference: the lock it still holds
keeps the buffer alive.

**SessionCache** is the internal session cache: table, doubly linked list with the addresses of
the head and tail fields as end marks, and reference counts. A step is a critical section of
`ctx->lock` or a change of a count outside it. **SessionFIFO** is what it promises: a bounded queue
with one session for each ID, from which a session leaves only for a stated reason.

**TicketKeys** is the rotation of the keys that seal tickets, by threads that read the clock
before they take the lock. **RSAPrivateKey** is what threads share of a private key: the values
`freeze_private_key` derives and the cache of blindings, also across a fork and with a failure at
each step. **RandomState** is `BCM_rand_bytes` with the fork detection of `fork_detect.cc`, for
threads of processes that fork. A generator is the sequence of what was mixed into it, so that
equal states mean equal output.

### Data structures and an algorithm

**BIOPair** is the two ring buffers of `pair.cc`; **ByteStream** what they promise. **ErrorQueue**
is the ring of errors of a thread with the strings its entries own, its marks and its saved state;
**ErrorLog** what it promises. **Stack** is `OPENSSL_STACK` with its heap sort and its bisection.
**LHash** is the hash table with resizing, and the iteration whose callbacks change the table.
**CBB** is the byte builder with nested children, length prefixes that are filled in (or moved)
later and DER elements, and the parser that reads them back. **BNModInverse** (with
`BNParameters`) is `bn_mod_inverse_consttime`, one iteration a step, on words that wrap.

### Instances

`MCComponents` and `MCShared` bundle small components: a behaviour chooses one of them, the
*focus*, and takes its steps while the others stay as they start. The properties of such a run
are those of all the components in it. `MCDTLSConnection`, `MCTLSHandshake` and
`StreamScenarios` supply flights, configurations and scenarios. `MCTLSStream` is the TLS connection
with those scenarios; `MCConnections` bundles it with DTLS, one of the two in each behaviour. Where two scenarios at once are too large, the
initial states offer one or the other.

## Runs

| Run | What it shows | Instance |
|---|---|---|
| `connections` | DTLS: no spurious failure, truthful ACKs, keys kept and in step, nothing stalls or is forgotten, data readable. TLS: writes accounted for, failures justified, an alert is the last record, refinement of `SecureStream` | one loss, duplicate, early timeout or expiry, a fragmented server flight, two key updates and one that cross; a record and a half each way, writes of two records, crossing key updates, foreign records |
| `dtls_live` | handshakes and key updates complete and everything is acknowledged | client certificate, one ticket, one loss, one failed transport call; crossing key updates, or one among data and a dropped epoch |
| `tls_handshake` | neither end fails without a reason, the ends agree, authentication, data exact, no nonce twice, handshakes complete | 130 configurations, each with a transport of half a record and one record each way, resumptions also with two; every callback retries once |
| `tls_live` | what was written is read; a close_notify that no half-written data blocks is heard | the TLS connection, smaller scenarios: a write of two records, a key update, a foreign record |
| `components` | the components of one thread, and the ticket keys: see their modules | ring of 3 errors, window of 3, buffers of 3 and 1, numbers of up to 6 bits, ... |
| `shared` | pool, session cache, random numbers, RSA blindings | three threads and two buffers; three sessions; two processes with two threads; three users, two cached blindings, one fork |

The bundles and the handshakes have between 260,000 and 650,000 distinct states, the liveness
runs fewer. Six more runs find a documented property violated; they are under *Disagreements*.

Why the bounds reach what they are meant to reach. A DTLS packet holds a few fragments, so that
flights take several packets and records several fragments; one loss is enough to need a
retransmission, which then meets every state the peer can be in. The numbers of reassembly wrap at
a number that is no multiple of the ring, as 2^16 is none of 7; the bitmap has three bytes, hence a
first, a middle and a padded last one. A TLS transport of a record and a half stops writes and
reads inside a record, and a write of three bytes takes two records of which the first may be out
when the second is not. A handshake transport of half a record makes every flight block and every
record arrive in two parts; one of a record, or of two where there is early data, lets each end run ahead of
the other. A session list of three has a front, a middle and an end. An RSA key has
one more user than cached blindings, so that one blinding stays outside the cache. Three calls
with a reseed interval of two see a reseed; the second process is the child. `MaxEnables` lets each
process enable fork-unsafe buffering once; the bound is part of the claim, see *Disagreements*. A byte of the builder
has eight values, so that a DER length outgrows its byte at four bytes of contents. What they do
not cover: two losses in one handshake, more messages than `SSL_MAX_HANDSHAKE_FLIGHT` in a flight (with
many tickets the code fails there), counts near the real limits. Where a theorem covers a
component, it does so for every value of the constants.

Symmetry is used in `shared` only, whose threads and addresses are compared for equality and
nothing else. Deadlock is not checked: in every model the system may stop, with a connection
closed, a bound reached or nothing left to do. That nothing waits for good is what the liveness
properties, `NothingStalls` and `NothingLeaks` are about.

### Fairness

- `dtls_live`: the application keeps calling `SSL_do_handshake` or `SSL_read`, and
  `DTLSv1_handle_timeout` when a timer is due, as the API requires, and the network delivers what
  it does not lose. Losses are bounded: the code gives up after `DTLS1_MAX_TIMEOUTS` and promises
  nothing beyond. A retransmit timer is *due* only when the network is quiet, because its duration
  is longer than a round trip.
- `tls_handshake`: each application keeps calling while its end can make progress, reads what
  there is and calls `SSL_reset_early_data_reject` when it is told of a rejection. Nothing forces it
  to write.
- `tls_live` and `tls_deferred_alert`: the applications finish calls they began, keep reading, and
  repeat an `SSL_shutdown` that could not send its alert, as `ssl.h` asks them to.

`ExpirePrevReadEpoch` lets the previous DTLS read epoch expire only when the peer has no message of
that epoch left to retransmit. The code's four minutes are chosen to make that so; the model
assumes it and does not check it. `RandomState` lets an application keep the promise of
`RAND_enable_fork_unsafe_buffering`: it does not fork while the buffering is enabled, and may
after it has disabled it.

## Disagreements with documentation and comments

Six runs state what a document or a comment says and find it violated:

- `dtls_write_flush`: `ssl.h` says that the next `SSL_write` sends a KeyUpdate that
  `SSL_key_update` queued. In DTLS, `dtls1_write_app_data` flushes nothing.
- `dtls_queued_update`: `ssl.h` says that a KeyUpdate is queued if none is queued already. In DTLS
  1.3 a later one replaces it, and with it the request for a reply.
- `dtls_reassembly_future`: a comment says that fragments too far in the future are ignored. The
  fragment exactly `SSL_MAX_HANDSHAKE_FLIGHT` ahead passes one check and fails the other, which
  ends the connection.
- `tls_early_reject`: `ssl.h` says that after `SSL_reset_early_data_reject` the connection is
  logically fresh, pending writes included. `unreported_bytes_written` stays, so that the next
  `SSL_write` starts at the offset of the discarded one.
- `tls_channel_id`: `ssl.h` says that `SSL_VERIFY_PEER_IF_NO_OBC` requests a certificate if and only
  if Channel ID is not negotiated. With a cipher that is not ECDHE a TLS 1.2 server does neither.
- `tls_deferred_alert`: a comment in `ssl_send_alert_impl` says of an alert that cannot be written at
  once, "The alert will be dispatched later." When `SSL_shutdown` is called while application data
  is half written, every later `SSL_shutdown` fails with `SSL_R_BAD_WRITE_RETRY`, and the `SSL_write`
  that would finish the data is refused, so the `close_notify` is never sent. `CloseIsHeard` has
  exactly this case as its exception.

Three more are exceptions that a passing property names, so that all else is still checked:

- `FindsFirst`: the comment on `sorted` (`stack.cc:25`) says that it is true if the stack is sorted.
  `OPENSSL_sk_set` leaves the flag as it is, whatever it writes, and a later `OPENSSL_sk_find` may
  bisect a stack that is out of order. The property says that no other call makes the flag wrong and
  that a search is right while the flag is.
- `NoRepeatedOutput`: `rand.h:57` says that `RAND_disable_fork_unsafe_buffering` "restores
  BoringSSL's default fork-safety protections". Where forks are not detected, a state seeded while the
  buffering was enabled is not reseeded if parent and child, forked while it was disabled, both
  enable it again before they draw: the preference is what it was. The run therefore has
  `MaxEnables = 1`; with 2 TLC finds equal output.
- `HandshakeCompletes`: a test (`ssl_test.cc:4485`) is there to show that all versions survive tiny
  write buffers. It offers no early data and provokes no HelloRetryRequest. In a transport smaller
  than a record both ends flush and neither reads when the server still writes its
  ChangeCipherSpec after a HelloRetryRequest, or its half-RTT tickets after it accepted early data,
  while the client writes its answer. `BothFlushing` names these two places; everywhere else, and
  with a transport of one record, handshakes complete.

Smaller points: the `tv_usec` that `DTLSv1_get_timeout` saturates is overwritten right afterwards. A
doubled `timeout_duration_ms` wraps for initial durations of 2^31 ms and more. A session exactly as
old as its timeout is rejected by a lookup but kept by `SSL_CTX_flush_sessions`. A discarded DER
child leaves its tag in the builder.

## Proofs

Each theorem holds for every value of the constants that satisfies the named assumptions of its
module. All proofs follow one scheme: an inductive invariant `Inv` with `Init => Inv` and
`Inv /\ [Next]_vars => Inv'`, the latter with one lemma or step for each action, and the property as
a consequence, or, for an action property, a consequence of the invariant and the step.

**DTLSReplayProofs** (`ReplayAssumption`: the window is smaller than half a step). `NoReplay` is
inductive only together with the exactness of the bitmap: that no record is delivered twice needs
that the bitmap is the set of delivered numbers in the window. `DiscardJustified` needs in addition
that reconstruction is exact for every number in reach.

**DTLSReassemblyProofs** (`ReassemblyAssumption`). The ring holds only messages of the window, each
in its slot, only bytes that were copied are marked, and `has_message` is exact. The code's assertion
on slots, `CompleteIsWritten` and `CompleteIsStable` follow.

**BNModInverseProofs** (`PowAssumption`: `Pow` is the table of powers of two). The invariant the code's
comment states, that one of the two numbers is odd, and that their widths shrink with the iterations.
The assertions in the code and `InverseRight` follow.

**TicketKeysProofs** (`TicketsAssumption`). `TicketLifetime` from when a key may be current and
previous, given that each thread acts on the time it read before the lock.

**CryptoBufferPoolInvariant** and **CryptoBufferPoolProofs** (`PoolAssumption`: finitely many threads
and slots, a maximum count of at least two). `NoUseAfterFree` and `NothingLeaks` from: who holds the
lock, what a thread's pointer may be at each step, that a buffer being made or destroyed is known to
one thread only, that the table holds live buffers under their contents, that owned buffers are live,
that a count that has not saturated is the number of references, and that a buffer read after its
reference was given up is protected by the lock. The first module has the invariant and the lemmas
for the actions of `crypto_buffer_new`, the second the others and the theorems.

**RSAPrivateKeyProofs** (`KeyAssumption`). `FactorUsedOnce` from three parts. *Structure*: the cache
names distinct blindings, what is reserved is held by one thread, nothing else is allocated.
*Factors*: blindings come from distinct draws, and every factor used is behind the blinding it came
from, except after a fork and before the cache is wiped, when no thread holds a blinding.
*Derivation*: who is past `freeze_private_key` finds what it derives. The model is of a
platform that detects forks: where none does, the generation stays 0 and the cache is not wiped.

### Only model-checked

- Liveness (`Completes`, `HandshakeCompletes`, `WrittenIsRead`, `CloseIsHeard`): fairness and
  `ENABLED` are beyond the prover.
- `TLSHandshake` and `DTLSConnection`: the endpoints compute with folds and recursion over sequences
  of messages and records, about which a proof needs induction over data.
- `SessionCache` (`SessionsExact`, `QueueSpec`): flushing walks a linked list with a recursive
  operator.
- `DTLSMessageBitmap`, `Stack`, `LHash` and `CBB`: what loops over bytes, heaps, chains and nested
  lengths compute is again induction over data.
- `TLSStream`, `BIOPair`, `ErrorQueue`, `DTLSTimer`, `RandomState`, and `NoInverseRight` of
  `BNModInverse`: within the prover's reach, and not proved.

## Not modelled

Ciphers, digests, public-key arithmetic other than the modular inverse, encodings, certificates,
and the contents of extensions; ECH, handoff, QUIC, delegated credentials, certificate compression,
renegotiation and `quiet_shutdown`; record splitting of TLS 1.0; DTLS 1.2 flights, and
HelloRetryRequest, early data and alerts in the DTLS connection; the FIPS entropy pool; the cache-mode
flags of the session cache and user callbacks that call back into it; other BIOs. Platform
primitives (mutexes, atomics, allocation, `fork`) are taken to do what they promise; allocation
failures are modelled where the code has an error path that leaves state behind. `PROJECT.json` gives
the reason for each part.
