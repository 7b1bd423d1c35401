# TLA+ specifications of the TI-83 Plus Solana wallet

The wallet keeps an encrypted Ed25519 key in a string variable (Str0..Str9) of a
TI-83 Plus and signs Solana transactions with it. Two programs share one C
library: a command line menu (`src/main.c`) and a desktop window
(`src/ui/cwallet-ui`, Rust and Dioxus over FFI). These modules model both
programs and what they stand on; `PROJECT.json` maps each definition to the
lines it models.

## The system

| Component | State | Operations | Talks to |
|---|---|---|---|
| Session (`calc_session.c`) | calculator and cable handles, `poll_active`, `poll_thread_started`, the thread's cycle count | open, cleanup, start_polling, stop_polling, the thread | libticalcs, libticables |
| Library handles (`ticalcs.cc`, `calc_xx.cc`, `ticables.cc`) | `attached`, `open`, `busy`; the cable's device | attach, detach, delete, isready, send_var, recv_var | the USB device |
| Start and tear-down (`main()`) | exit status, place in `main()` | open, ping, menu, exit | session |
| Menu options (`main.c`) | buffers with password and key, the fetched wallet, the order, the attempt counter | create, load, airdrop, balance, send | string store, RPC client |
| Amounts and memos (`main.c`, `send_sol.rs`) | what a long line leaves in stdin | prompt_lamports, the memo loop, parse_lamports | the user |
| String store (`calc_string_store.c`) | the entry under construction | store, fetch | library |
| Encryption (`wallet_crypto.c`) | none between calls | encrypt, decrypt, zero | keypair code |
| RPC client (`solana_client.c`) | URL, request id, response buffer, process-wide curl state | init, cleanup, one request at a time | the node |
| Encodings, transactions (`solana_encoding.c`, `main.c`, `transaction.rs`) | none | base58, base64, shortvec, build transfer, sign | |
| Desktop, calculator side | status, `Option<Calculator>` under a mutex, loaded keypair, page signals | connect, disconnect, load, create | session, string store |
| Desktop, Solana side | balance, `Option<SolanaClient>` under a mutex, page signals | balance, airdrop, send, poll | RPC client |
| Link, SilverLink cable (`calc_73.cc`, `cmdz80.cc`, `dbus_pkt.cc`) | packets under way, the cable's buffer | is_ready, send_var, recv_var | a TI-83 Plus |
| Link, direct USB (`calc_84p.cc`, `dusb_cmd.cc`, `dusb_vpkt.cc`, `dusb_rpkt.cc`) | the same, and the size of the calculator's buffer | is_ready, send_var, recv_var | a TI-84 Plus |

What is hard about it:

- **Threads.** `main()` and the polling thread share a library handle whose
  `busy` flag nobody locks. The window's closures run on a pool, behind two
  mutexes; its continuations run on the UI thread, which also blocks on one of
  the mutexes.
- **Stale views and lost continuations.** A click is made on the view drawn
  last. A page that is left takes its continuations with it, and its closures
  run on.
- **Failure.** Each step of opening can fail; a transfer to the calculator can
  be cut short or skipped; an answer of the node can be lost after the request
  took effect; a confirmation can come after the time-out.
- **Late answers.** Nothing resets the cable between two operations. What the
  calculator says after a time-out is read by the operation that comes next.
- **Secrets.** Five options with a dozen early exits each have to zero the
  password and the key.
- **Two of everything.** Message, transaction and amounts are written once in C
  and once in Rust, and have to agree.

What makes each part correct: no use of freed handles, nothing left open at
exit, and a stop that returns (session); true reports about every order, and no
secret that outlives its use (menu options, desktop pages); a mutex around every
use of the calculator and of the RPC client, and a window that always answers
again (desktop); old or new content after a transfer, true reports and waits
that end (link); whole answers, every allocation released and the client let go
(RPC); the right key or none, and a transfer that says what the user typed
(encryption, encodings, layout).

## Modules

| Module | What it models |
|---|---|
| `CalcSession` | `calc_session.c` and the library handles, a label per step of each function and thread |
| `CliMain` | `main()` around it; EXTENDS `CalcSession` |
| `Transfer` | the abstract promise about orders, for both programs |
| `WalletCli` | the menu options; instances `Transfer` |
| `DesktopCalculator` | connection, keypair menu and creation page of the window |
| `DesktopOrders` | balance, airdrop and send pages; instances `Transfer` |
| `VarStore` | the abstract promise about the calculator's variables, for both cables |
| `Link` | what the two protocols share: the operation under way, the packets, the faults |
| `DbusLink` | the packets of the SilverLink protocol |
| `DusbLink` | virtual and raw packets of the direct cable, the buffer's size |
| `CalcLink` | either of them behind the wallet's three operations; instances `VarStore` |
| `SolanaRpc` | the JSON-RPC client, its allocations and its owners in both programs |
| `SolanaEncoding` | base58, base64 and shortvec in both directions |
| `TransferMessage` | message and signed transaction, as C and as Rust lay them out, and as a node reads them |
| `StoredWallet` | the encrypted blob, the entry in the variable, and the checks of a fetch and of a decryption |
| `Doubles` | the `double` and `f64` in which both programs compute SOL amounts |
| `OrderInput` | what the prompts and the page make of a typed amount and memo; EXTENDS `Doubles` |
| `WalletData` | a wallet from creation through damage to a transfer; EXTENDS `StoredWallet`, `TransferMessage` and `OrderInput` |
| `..._proofs` | the theorems about `CliMain`, `WalletCli`, `DesktopCalculator`, `DesktopOrders`, `CalcLink`, `SolanaRpc`, `WalletData`; `VarStore_proofs`: `CalcLink` keeps the promise of `VarStore` |
| `MC...` | instances for TLC |

How they fit together: `CliMain` sees a menu option as a library call and shows
that options have the calculator to themselves (`MenuExclusive`). `WalletCli`
starts from that and models what the options do; one of its steps is a library
call, whose packets are in `CalcLink`, or a request, whose allocations are in
`SolanaRpc`; what those steps carry is in `WalletData`. `DesktopCalculator`
changes the loaded keypair at the moments the code does; `DesktopOrders` lets it
change at any time. All of `WalletCli` and `DesktopOrders` is measured against the
same `Transfer`, and both cables against the same `VarStore`.

How state and actions correspond to the code:

- In `CalcSession`, `step[t]` is the line thread `t` is about to execute. A
  caller sets `step["main"]` to a function's first label and continues when it
  is `"out"`. `calcMem` and `cableMem` follow the memory of the two handles
  (`none`, `live`, `freed`), apart from the pointers to them, and `device` what the
  process holds of the USB device, apart from the cable's `open`: a device that
  `tigl_open` opened and could not claim is `unclaimed`, with no handle that knows
  of it (`OpenFails`, in the probe of a SilverLink as well as in the attach). `LibCheck`,
  `LibTake`, `LibRun` and `LibRelease` are a library call's test of the flags,
  `busy = 1`, the exchange, `busy = 0`: four steps, since nothing makes them
  atomic. A Ready check and a transfer are the same four steps.
- In `WalletCli`, `at` is the prompt or request the program is at, `held` the
  secrets in its buffers, `chain` the network's view of an order and `told` the
  message the user read last. Each function of the code has one exit at which
  all its buffers are zeroed; `BackToMenu` is that exit. A wallet is written as
  the password that opens it. Prompts that repeat until the input is valid
  are one step.
- In the desktop modules a task is an operation in progress: a closure, then
  its continuation. `ui` tells what the UI thread waits for, `drawn` is the view
  drawn last, `orphan` marks a closure whose page is gone.
- In `Link` and the modules over it, `at` is the packet the program sends or
  awaits next, `toCalc` and `toHost` the packets under way (`toHost` includes the
  cable's buffer), `calc` the calculator's end of the exchange, modelled from what
  the library sends it and expects of it. An operation is `clean` when nothing of
  an earlier one was under way at its beginning. Each `ticables_cable_recv` that
  can time out is `ReadTimesOut`. A send that fails is `WriteFails`, or, where the
  code sends in answer to what it has just read (an acknowledgement, a size), the
  disjunct `PutFails` of the action that reads. In `DusbLink`, a raw packet is the
  interval of bytes of its virtual packet that it carries; `out.full` and
  `out.rest` are `q` and `r` of `dusb_send_data`; `resized` is a history, no state of
  the code: the calculator asked for another size between two chunks.
- In `SolanaRpc`, `owner` has the client: the menu option, or the task behind
  the mutex. `held` are the allocations of the call under way, `heap` the
  responses handed to a caller and not freed yet. Every allocation, curl and the
  node may fail; each `goto`-less early return is a disjunct.
- A double is a fraction in `Doubles`, and what is read or computed the nearest one,
  to even between two: `strtod`, `parse::<f64>`, `*` and `+` each round. Precision
  and range are constants, 53 bits and the exponents of IEEE 754 in the code.
- `SolanaEncoding`, `TransferMessage`, `StoredWallet` and `OrderInput` are operators
  over sequences of bytes and characters, where a character is the number that
  it stands for in its alphabet. The encoders and decoders run the code's
  loops, carry by carry. `WalletData` gives them their state: what was created, the
  variable, and the operation under way.
- A fault (`...Unlocked`, `PollErrLast` and so on, each marked as one) is a
  mutation of the action that follows it, and no part of any specification. It
  exists to show that a property can fail: with the fault in place of the
  action, TLC reports the property violated.

## Runs

| Run | Shows | Bounds |
|---|---|---|
| `session` | `NoUseAfterFree`, `MenuExclusive`, `NothingLeaks`, `StopIsHeeded`, `StopReturns` | three pings before the thread gives up (3,600,000 in the code): none, some and the last are all reached. 2,600 states |
| `session_not_ready` | violation: the first ping of the thread makes `main()`'s fail with ERR_BUSY, reported as a calculator that does not answer | same |
| `wallet_cli` | `SecretsErased`, `KeepsPromises` (refines `Transfer`), `NetworkPhaseEnds` | two slots, a right and a wrong password, two orders so that one can land while the next is served, three polls (60 or 30): the first, a middle and the last |
| `wallet_submitted` | violation: "Transaction submitted" for one the node refused | one of each |
| `desktop_calculator` | `NeverDroppedInUse`, `HandleIsSteady`, `ConnectedHasCalculator`, `UiResponds` | one slot, two tasks (each hazard has two actors besides the UI thread), three keypairs: in the slot, in the menu, being created |
| `desktop_keypair_shown` | violation: a keypair shown as the calculator's that it does not hold | two keypairs |
| `desktop_orders` | `OneRequestAtATime`, `KeepsPromisesIfExecuted`, `BusyEnds` | one keypair, two tasks, two orders, two rounds of polling |
| `desktop_confirmed` | violation: "Transaction confirmed!" for one that failed | one task, one order |
| `calc_link` | `KeepsVariables` (refines `VarStore`), `FragmentsAddUp`, `OperationEnds` | two variables; contents of 2 and of 20 bytes and buffers of 8 and 10, so that a virtual packet is one raw packet, or a first, one or two full and a last; three operations, so that what one leaves on the cable meets a second and a third; one fault. 689,000 states |
| `link_stored` | violation: `send_var` returns 0 for a variable that was refused | one operation, no fault |
| `solana_rpc` | `NothingHeld`, `WholeAnswer`, `Unfreed`, `ClientIsLetGo` | two tasks with the plans of the five requests, answers in up to two pieces, three rounds: the client is made, used again and given from one task to the other. 76,000 states |
| `wallet_data` | `NoWrongKey`, `RefusedForAReason`, `TakenIsMeant`, `TransferGoesThrough`, `BothBuildTheSame`, `KeyOutlivesOnlyErrors` | two wallets, one damage, four passwords, some thirty orders; the sizes below. 465,000 states |

`wallet_data` computes with real bytes, at sizes that keep base58 feasible: keys
and signatures of 8 bytes (32 and 64), amounts of 2 bytes (8) with 100 lamports
to a SOL (10^9), and `SmallAmount`, the desktop's bound of 100 below which an
integer is SOL, is 3. The memo and line limits are the code's (120 bytes; 135
characters of line), since shortvec changes its length at 128 and base64 its
padding every third byte. The keys are one with leading zeros, the greatest and
a plain one; the recipients typed include a missing character, a character too
many and one outside the alphabet. The typed amounts lie around each boundary,
and those that wrap at 2^64 in C do at 2^16 here. Doubles have 11 bits (53), so
that amounts reach as far above the integers a double has room for as they do in
the code: 51 lamports, typed as SOL, are a double that the page cuts to 50, as it
cuts "4.1" SOL to 4099999999; at 2039.9 lamports the two programs are a lamport
apart, above 2048 a double has no room for each lamport; and the bound that C compares with
is itself rounded, from 655.36 SOL to 655.5, so that 65535 lamports become a double
that is out of range, and 65576 are refused.

The five violations are disagreements between the code and what it says:

1. `session_not_ready`: "Calculator did not respond to RDY ping" of a
   calculator that was not asked.
2. `wallet_submitted`: the answer to `sendTransaction` is never read.
3. `desktop_keypair_shown`: a load that ends after Disconnect, or a keypair
   created in the loaded slot, leaves the window with another keypair than the
   calculator. The calculator has the new one, so the only copy of the shown
   one is in memory.
4. `desktop_confirmed`: the desktop wallet drops the `err` member of a
   signature's status, which the command line program looks at first.
5. `link_stored`: REJ_SKIP makes `send_var` return 0, and "Encrypted keypair
   stored in Str..." is printed for a wallet that the calculator did not take.

`Transfer` therefore holds of the command line program as it is, and of the
window only when being executed is all that "confirmed" claims. `VarStore` makes a
report "declined" next to "stored", which the user cannot tell apart.

What else the runs show that is worth knowing, though nothing in the repository
promises otherwise:

- A device that `libusb_open` opened and `libusb_claim_interface` refused is never
  closed: `tigl_open` returns without `libusb_close`, the cable's `open` stays 0, and
  `ticables_cable_close` skips the close. `NothingLeaks` says so, and that no other
  path leaves a device open: `main()` then exits with the error of the open. The
  window goes on, with a device more for each Connect that fails in this way.
- `FragmentsAddUp` is about operations that begin clean and in which the buffer does
  not change between two chunks. `dusb_recv_acknowledge` takes a request for another
  size in place of any acknowledgement; `dusb_send_data` counts the chunks once,
  after the first, and sends each with the size of the moment. After a later
  request they reach past the content or end before it, in a clean operation
  too; after a time-out, so they do when the late acknowledgement of an earlier
  operation is taken for the first packet's. The wallet's own content, an entry of
  158 bytes, is a single raw packet for any buffer that is larger than that, and is
  not affected.
- The truth of the reports in `VarStore` is about operations that begin clean.
- The variable is replaced in place. An interrupted transfer leaves the old
  wallet, the new one or none, and `VarStore` promises no more than that.
- `TakenIsMeant` allows each amount a loss, and names those that are taken for
  something else (`Misread`) and the memos that are cut (`Overflowed`).
  - The loss (`Loss`) is half a lamport in C, which rounds, and one in the window,
    which cuts, and in both what two or three roundings of a double make of it: five
    parts in 2^53 at most. "4.1" SOL are 4099999999 lamports in the window and
    4100000000 in C; above 2^53 lamports (nine million SOL) either loses whole ones.
  - Misread in C are a negative integer, which `strtoull` wraps, and what is behind a
    comma or before a word other than SOL: any text with a point or an `e` in it is
    taken for SOL as far as `strtod` reads it, so that "1.5 lamports" is a SOL and a
    half. Misread in the window are an integer above 100 and SOL of more than 2^64
    lamports. Each is more than a lamport off. Of the forms of amounts that
    `OrderInput` distinguishes there are no others.

A run that says `CHECK_DEADLOCK FALSE` is of a system that stops when its bound
on operations (`MaxOps`) or rounds (`MaxRounds`) is reached, or when the program
has exited (the command line program's `main()`).

## Fairness

- `CliMain`: each thread runs. A library call ends because the cable has a
  time-out (`ticables_options_set_timeout`). Nothing is assumed of the user.
- `WalletCli`: weak fairness of the program's own steps, since a request has
  `CURLOPT_TIMEOUT_MS`. Nothing is assumed of the user or of the cluster, which
  may never execute an order; `NetworkPhaseEnds` holds all the same, by the
  bound on polls.
- Desktop: the pool's threads, and the continuations on the UI thread, run. A
  std mutex is unfair, so nothing is assumed about who gets it: weak fairness
  for each closure only. `UiResponds` holds because a UI thread that waits takes
  no clicks, and finitely many closures are ahead of it.
- `CalcLink`: the program goes on and its reads end, by an answer or a time-out
  (`slv_bulk_read` in `link_usb1.cc`). The calculator's end goes on as
  well, but may stop at any packet (`CalcStops`): a calculator that never moves
  again is one that has stopped. `DbusHost` and `DusbHost` contain the time-outs.
- `SolanaRpc`: the program's own steps, the time-out of a request among them.
  Nothing is assumed of the node or of who gets the mutex.

## Proofs

`CliMain_proofs`, for every bound on the number of pings:

- `TypeCorrect`, `MemorySafe`, `MenuHasCalculator`, `CleanExit`: the four
  invariants of the run. `CleanExit` has the exception of `NothingLeaks`: a device that
  could not be claimed stays open, and then the exit status is that of a failed
  open.
- `StopHeeded`: the action property.

None of the safety invariants is inductive. The inductive invariant adds where
`main()` can be for each label it is at, that the thread is alive only between
start and join, that `busy` outside a call is false when only one thread uses
the library, which flags are set at each stage of opening and of cleaning, and
that the device is claimed exactly when the cable says that it is open.
The central step is the join: the thread has left the library, therefore what
follows, the menu or the tear-down, has no other user of the handle.

`WalletCli_proofs`, for all slots, passwords, orders and numbers of polls:

- `TypeCorrect` and `SecretsAreErased`; the strengthening lists, for each step,
  the secrets the buffers may hold there.
- `ImplementsTransfer`: `Spec => T!Spec`. The invariant ties the current order
  to its place in `told` and `chain`: approved and not on the network until it
  is submitted, and no order on the network that was not approved or that was
  called off. Each action is then a `Tell`, an `Approve`, a `Land` or a stutter
  of `Transfer`.

`DesktopCalculator_proofs`, for any slots, keypairs and number of tasks:

- `TypeCorrect`, `ExclusiveUse` (a closure that uses the Calculator has one),
  `ConnectedIsTrue` (Connected is shown over a Calculator), and `SteadyHandle`,
  the action property that nothing installs or drops it under a closure.

The invariant says who can hold the mutex and in which place: a closure in a
transfer is its owner, and every step that writes the `Option` is one of its owner
or of the UI thread that got it. It also carries what an operation knows at each
stage: its slot from the click on, a new key before it asks for the mutex, the
loaded key when it ends well.

`CalcLink_proofs`, for any contents, lengths and buffer sizes, any number of
operations and faults, and either cable:

- `TypeCorrect`. The invariant types each packet by what it says (an `RTS` names a
  variable, an `XDP` carries a content) and has the step an operation is at agree
  with its kind, without which a packet of one operation could be built from the
  fields of another.
- `PacketsAddUp`: `FragmentsAddUp`. The invariant (`FragInv`) is about an operation
  that began with nothing under way. Between the two ends there is then at most
  one packet that awaits an answer, and none when the program is about to send
  (`Tokens`); so the acknowledgement of the first raw packet comes after any change
  of the buffer's size that was asked for in its place, and what is sent, the full
  chunks left and the rest are the length of the virtual packet (`Counts`), until a
  chunk between the first and the last is answered by a request for another size.
  The property and `Counts` claim nothing after that; the uniqueness of answers,
  which `VarStore_proofs` goes on from, holds all the same. Losses and time-outs only
  take packets away. The length and the sizes are arbitrary: division is all the proof uses of
  them.

`VarStore_proofs`, for the same:

- `ImplementsVarStore`: `Spec => Var!Spec`, the promise about the variables, over
  either cable.

The invariant (`LinkInv`) adds two parts to the types and to `FragInv`.

`SafeInv` is about every operation, also one that begins while packets of an
earlier one are still under way. A content goes to the variable opened last before
it, by a packet in the queue or in the calculator; so the invariant says of each
content under way that it was offered to that variable (`InOrder`), and of a send
that has put its RTS on the cable that the variable open at the end of the queue
is its own (`IsMine`): its content, put there next, goes nowhere else. Neither
holds without the other, and `IsMine` is what the protocols rely on when the
wallet never resets the cable. Over the direct cable it needs that a packet
without a content is never cut, which is the one assumption about sizes.

`SlvClean` and `UsbClean` are about an operation that began with nothing under way
and follow its answers. One RTS is one answer: a packet, in the calculator's
hands, still to be said, or on its way back, and no two of these at once; so the
content's acknowledgement is never the one of the RTS, and when it is under way
the content is in its variable and no transfer is open that could take it away
(`Done`). Over the direct cable the uniqueness comes from `Tokens`, and a packet
that is cut is a content (`Cut`), so what the program has begun to read is not an
acknowledgement. For a fetch, every REQ, every content under way and the one being
put together are of the variable asked for.

A begin is then an `Ask`, an end a `Report`, a step of the calculator a `Change`
or a stutter, and all the rest stutters.

`DesktopOrders_proofs`, for any keypairs, orders, polls and number of tasks:

- `TypeCorrect`; `OneRequest`: one request at a time over the shared client.
- `ImplementsTransfer`: every step of the pages is a step of `Transfer` or leaves
  it alone, with orphans, repeated clicks and continuations that come late.

Its invariant has four parts: types; a task is in a request exactly when it has
the mutex; an order in progress belongs to one task only and agrees with `told`
and `chain` at each stage, while one that nobody submitted or that was called off
is not on the network; and a continuation runs on the page that started it. The
third part is what lets two tasks work on two orders without either's report
being about the other's.

`SolanaRpc_proofs`, for any tasks, plans, numbers of pieces and rounds:

- `TypeCorrect`, `CallsFree`, `AnswersAreWhole`, `OnlyHttpErrorsLeak`. The invariant
  says what a call has allocated at each of its labels (`CallInv`), and that every
  response in `heap` is the current owner's or an HTTP error of the window
  (`HeapInv`).

`WalletData_proofs`, for any passwords, keys, orders, blockhashes and damages, and
for all seven invariants of the run:

- `DecryptedIsMade` and `KeyIsZeroed`. The invariant (`Sound`) says that every entry
  that was made is what encryption gives for its password and key. The proof is
  about a MAC that no other blob has and a key stream that is a function of
  password, salt and nonce: the ideal of HMAC-SHA512 and PBKDF2, and what the
  model takes for them.
- `RefusedOnlyForAReason`, with a second invariant (`Whole`). It follows an entry from
  its making to what was fetched, as long as nothing has damaged it (`Kept`, `Loaded`),
  and an order from what was typed to what was signed (`OrderMade`, `Sent`): the
  wallet that was opened, the order that was given and the text on the wire are
  bound together in a state in which the program has forgotten the key.
- `TypesKept`. What is decoded as a name has the length of a key, and no prompt
  accepts an amount of more than `AmountBytes` bytes.
- `OneBuild`, `GoesThrough` and `MeansWhatIsTaken` are about what the encodings and the
  layout compute. With `Whole`, they come down to lemmas about data of any length:
  - `LittleEndian` and `AmountOf` are inverse to each other (`AmountRead`).
  - Both programs append the same pieces to a message (`CliMessageIs`,
    `DesktopMessageIs`), no buffer of the command line program is short for it
    (`MessageSized`), and a reader finds each piece where it was put
    (`MessageRead`).
  - base64 gives back the octets, with one, two or no pads (`Base64Back`).
  - base58 gives back the name (`NameComesBack`): a text that
    `solana_base58_decode()` accepts is the one that `solana_base58_encode()` makes of
    its bytes, leading ones included. One pass of the inner loop is a multiplication
    and an addition unless a carry is dropped (`MultiplyAddValue`), and a carry would make
    a number too great for the digits that are reserved (`NoCarry`). That the lengths
    in the code, `(n * 733) / 1000 + 1` and `(n * 138) / 100 + 1`, reserve enough is
    `BytesAreEnough` and `CharactersAreEnough`: they rest on 58^71 <= 256^52 and
    256^8 <= 58^11, for a text of whatever length.
  - What `prompt_lamports()` and `parse_lamports()` make of each form of an amount is
    what was meant but for the loss of `Loss`, or `Misread` names it and it is more
    than a lamport off (`AmountMeant`). That there is a double near a fraction, and
    which, is `NearestIs`: off by half of the last bit at most. A product and a
    sum of doubles are near what they stand for (`NearNear`, `ProductNear`, `HalfNear`).

Induction over data is by the least counterexample: a set of numbers that is not
empty has a least element (`NatMin`, from `WFMin` and `NatLessThanWellFounded` of the
library), so a set that has 0 and the successor of each has them all
(`Induction`). That a function defined by recursion satisfies its equations is
proved in the same way (`Recursion`, `NatRecursion`). `^` is nothing to the provers: a
power is a value of such a function (`Powers`, and `Capacity` in the module).

Assumptions on constants: bounds are natural numbers (polls at least one), and
the names for "nothing here" are no password, order, task or content; a buffer of
the calculator is larger than the header of a virtual packet (6), and holds a
virtual packet that is not a content with its header (`CommandAssumption`): such a
packet is some thirty bytes (a variable's name and a few attributes, in
`dusb_cmd.cc`), and the buffers are 250 and 1018 (`dusb_rpkt.cc:154,159`).

Those of `WalletData` are these, each with the values of the code:

- `SizesAssumption`: the longest message (`LongestMessage`: 305 bytes with five
  names of 32, an amount of 8 and a memo of 120) fits `SOLANA_MAX_MESSAGE_LEN` (512),
  with a signature `SOLANA_MAX_TRANSACTION_LEN` (1024), and its base64 the caller's
  buffer; every count in it is below 128; the memo program's name is no zeros.
- `LimitsAssumption`: the amounts are the numbers of `AmountBytes` bytes (`uint64_t`), and
  both programs accept a memo of 120 bytes.
- `DoublesAssumption`: a double has three bits or more, and exponents below and
  above 0.
- `InputAssumption`: a SOL is a hundred lamports or more and `SmallAmount` of them are
  an amount, the memo taken when none is typed fits, the limit on a memo is below that
  of the line; an amount has the bits of a double or more (64 and 53), and the
  smallest and the greatest doubles are beyond the smallest and the greatest amounts.
- `KeysAssumption`: a name fits the 64 bytes that the desktop decodes one into, and
  two private keys have two public keys, neither a program's (Ed25519).
- `OrdersAssumption`: what is typed is text, a number grouped by a comma has three
  digits or more behind it, and no amount is beyond the doubles ("1e400", which
  `strtod` reports by ERANGE and the code refuses).
- `StoredAssumption`: noise and the absent variable are no part of a wallet.
- `SignAssumption`: a signature has its length, and two keys have no signature of one
  message in common.

Checked by TLC only:

- liveness (`StopReturns`, `NetworkPhaseEnds`, `UiResponds`, `BusyEnds`,
  `OperationEnds`, `ClientIsLetGo`), which needs ENABLED;
- the five violations, which are counterexamples.

## Not modelled, and why

- Ed25519, SHA-512, PBKDF2: arithmetic; a key is a model value, or in `WalletData`
  a number whose signature is a function of the message. The 32 bytes of
  `private_key` that were never written (`main.c:1133`) are stored with it and read by
  nothing: `sign.c` takes the first 32.
- The memory of an entry of the string store under construction, and text
  strings, which no program stores (`examples.c` only).
- The JSON text of requests and answers: an answer is what the code looks for
  in it.
- Line input by character, formatting and colours, save what a line that is too
  long leaves behind.
- Probing of cables and devices (but for the device it opens), and `libtifiles` and `libticonv`, which build
  and name the entry and keep no state between two calls.
- Operations of the two calculator models that the wallet never calls (backups,
  directory lists, screens, keys, applications, ROM dumps), and all other models
  and cables. They are vendored libraries, and most of the repository's
  implementation: of some 81,000 lines, the wallet's own C and Rust is about
  11,000, of which 5,000 are vendored Ed25519 and SHA-512. A model of the other
  calculators would say nothing about the wallet, and no state of the wallet can
  tell whether they are there. The share of the whole that the map covers is
  therefore small (about 6,400 lines), and that of the wallet's own code large:
  85% of `main.c`, 91% of `calc_session.c`, 88% of `solana_client.c`, 95% of
  `solana_encoding.c`, 76% of `wallet_crypto.c`, 89% of `send_sol.rs`.

Simplifications to keep in mind: two orders are taken to have two signatures,
because each fetches a blockhash of its own. The conversion of a double outside
the range of an integer, undefined in C, gives 0 or the greatest amount.
Amounts are typed to a tenth of a lamport at most. The calculator may ask for another
size of its buffer before it acknowledges any packet, as the library lets it; a
virtual packet's header in place of what it waits for ends the exchange it was in,
and a packet of which it has no beginning says nothing to it. These are assumptions
about a program that is not in the repository, and `KeepsVariables` rests on them.

## Plan

1. Done: `CalcSession`, `CliMain`, `Transfer`, `WalletCli`, with proofs.
2. Done: `DesktopCalculator`, `DesktopOrders`, with proofs, the refinement of
   `Transfer` among them.
3. Done: `VarStore`, and both protocols of `CalcLink` against it, with proofs of the
   types, of the fragments and of the refinement.
4. Done: `SolanaRpc`, with proofs.
5. Done: the encodings, the layout, the blob and the amounts in `WalletData`, with
   proofs of all its invariants.
6. Left: the memory of an entry under
   construction (`calc_string_store.c:306`); a composition of `WalletCli` with
   `CalcLink` in which a wallet declined by the calculator is used later on.
