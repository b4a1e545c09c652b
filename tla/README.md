# SmartDoorLock-IoT: specifications, model checking and proofs

The firmware in `src/` runs a door lock on an ESP32. Phones talk to it over TCP
(Wi-Fi) and over Bluetooth LE; it keeps authorisations and the position of the lock
in flash, asks a server for authorisations and invites, and sleeps when nobody is
connected. This directory holds TLA+ specifications of it, the TLC configurations
that check them on small instances, and proofs checked by TLAPS for every instance.
`PROJECT.json` says, definition by definition, which lines of the source each one
stands for.

## 1. Inventory

| Component | State it keeps | Operations | Modelled in |
|---|---|---|---|
| Nonce list, `utils/nonce.c` | linked list at `head` (RAM) | `addNonceSorted`, `checkNonce`; called by `verifyTimestampsAndNonce` | `NonceList` (pointers), `NonceCache` (whole calls) |
| Session table, `utils/user_info.c` | `users_info`: state, phone, seed and AES key per address; `current_BLE_addr` | setters, getters, `set_BLE_user_state_to_connecting` | `Session` |
| TCP server, `tcp_server.c` | `addr_str`, the socket | accept, receive loop, answer, `disconnect_sock` | `Session`; descriptors and timer in `Power` |
| BLE server, `ble_s3_server.c` | `ble_user_addr`, `is_connected`, `server_online`, `got_first_invite_session_key_s3`, `spp_mtu_size`, the answer being sent | GAP and GATT events, write, indications, PNG/LOK/LNO | `Session`; first contact in `Registration`, start-up and advertising in `Boot`, pieces in `Frames` |
| Command handler, `tcp_server_handler.c` | none of its own | SAC, RUD, RLD, RNI, RFI, RUI, SNT, RDS | `Session`; window and nonce in `NonceCache`, permissions in `Authorization`, RFI in `Registration` |
| Lock and LED, `utils/lock_status.c`, `nvs_util.c` | `lock_state` (flash), `led_status` | lock, unlock, disconnect, sleep; get and set the stored state | `Session`, promise in `DoorLock` |
| Boot, `main.c` | RSA key (RTC memory) | choice of network, clock, RSA key, servers, `init_led_lock_state` | `Boot` with `Wifi`; requests in `Registration`, its end in `Session` |
| Authorisations, `utils/authorization.c`, `nvs_util.c`, `database_util.c` | one blob per phone (flash) | fetch, store, check a code; `canUseLock`, `canCreateInvite`, `create_invite` | `Authorization` |
| Registration, `utils/utils.c`, `database_util.c`, `main.c` | `registration_status` | get, force, register, first invite | `Registration` |
| Deep sleep, `utils/power_util.c` | `deep_sleep_timer` | start, cancel, fire | `Power` |
| Wi-Fi, `utils/wifi_connect_util.c`, `esp_touch_util.c` | retry counter, event bits, saved network | connect, retry, provision | `Wifi`, in `Boot` |
| Clock, `utils/time_util.c` | system clock | now, today, SNTP | counters in `NonceCache` (seconds) and `Authorization` (days), a flag in `Boot` |
| AES messages, `aes_util.c`, `PKCS7.c`, `base64_util.c` | none | pad, encrypt, encode and back | `Codec`, in use in `Frames` |
| RSA, HMAC, SHA-256 | keys | wrappers of mbedTLS over bytes | what they return, in `Session` and `Registration` |
| BLE over UART, `ble_server.c` | the line buffer | the ESP32-S2 variant | its loop in `Boot` |
| `uthash.h`, build files, `sdkconfig.defaults` | | | not modelled |

### Who runs, and what they share

Three activities run at once. The TCP task serves one connection at a time: a second
client waits in `accept`. Bluetooth events arrive in the Bluetooth task, one
callback at a time, and a callback runs a whole command, flash and HTTP included.
`app_main` starts Bluetooth, waits for Wi-Fi, starts TCP and last restores the lock
state, below both in priority. A timer callback may put the device to sleep at any
time. Shared without any lock: the session table, the nonce list, the LED, the
stored lock state, the sleep timer and the registration status.

A session goes: connect (record CONNECTING); the client sends `SSC <key>` under RSA,
the lock installs the key, makes a seed and answers `RAC <seed>` (CONNECTED); the
client sends `SAC <phone> <HMAC of the seed>` under AES (AUTHORIZED); then commands.
Over Bluetooth every command but SAC, SNT and RFI ends with
`set_BLE_user_state_to_connecting`, so the next one needs a new key and a new SAC;
over TCP an answer NAK closes the connection. Each command ends with a time window
and a nonce.

### What is hard

- interleavings of the two channels and `app_main` over shared state: a TCP command
  resets the Bluetooth record; the boot writes back a stale position, or a default
  for a position that was stored since it looked;
- state read early and used late: the permission of `canUseLock` against the store
  that follows it; the record a former client of the address left behind;
- messages decrypted by what the table says, not by what they are, so that a client
  and the table must agree;
- redelivered and reordered commands against a list with its own idea of order;
- partial failure: flash writes that fail unnoticed, a server that is away, and
  error paths (`getArgs`, failed invites, `return false`) of their own;
- progress: a loop around `send` that does not end when the peer has gone, two tasks
  waiting for one bit that the first to see it clears, a timer that one task starts
  while another stops it;
- what outlives its connection: the negotiated size of indications, the flag of a
  first contact, the offset of an answer that was cut short.

`PROJECT.json` lists these under `hazards`, each at its line, with the properties
that would catch it. Where the code itself does what the hazard names, properties
have to excuse it; the hazard then has no property, and a note says so.

### What makes each component correct

- *Nonce list*: no command is executed over and over while its window is open; a
  refusal is always for a nonce that was used; nothing still needed is purged; it
  does not fill with expired entries; no pointer leads to freed memory.
- *Session table and servers*: a client acts only on a proof it gave on the
  connection it is using; over Bluetooth a proof serves once; client and table
  agree; each command is answered.
- *Lock state*: it changes on behalf of an authorised client, or as the device
  restores it at boot, and in no other way; the LED tells it.
- *Authorisations*: what is in flash is what the server said; nobody grants more
  than they have, nor acts outside their window.
- *Registration*: the copy of the status is never ahead of the server, and a
  registered lock always comes to give its first invite.
- *Sleep*: not in the middle of a command; always some time after the last client.
- *Boot and Wi-Fi*: the boot comes to its end whatever the network does; a lost
  network is found again; LOK means that there is something to talk to.
- *Messages*: each side reads what the other wrote, in buffers that hold it.

## 2. Plan

1. `NonceCache` (done): the list, checked and proved.
2. `Session` and `DoorLock` (done): both channels over one table; the stored lock
   state refines `DoorLock`; checked and proved.
3. `Authorization` (done): the blob per phone, the fetch and its failures,
   `canUseLock`, `canCreateInvite`, `create_invite`; checked and proved.
4. `Power` (done): the sleep timer against three tasks, `disconnect_sock` and the
   second close; checked and proved.
5. `Registration` (done): the cached status, the shared `output_len`, the first
   invite and a Bluetooth session that breaks off halfway; checked and proved.
6. `Wifi` and `Boot` (done): the network, ESP-Touch, `app_main` on both targets;
   checked and proved.
7. `Codec` and `Frames` (done): padding, Base64, pieces of an answer; checked and
   proved.
8. `NonceList` (done): the nonce list with its pointers, checked and proved to
   implement `NonceCache`.
9. Left: the look-ups of `Authorization` shown to be a choice `Session` makes.

## 3. Modules

**`NonceCache`.** `list` is the linked list, `now` the clock, `times` and `refused`
record what was accepted and refused since boot. One call of
`verifyTimestampsAndNonce` is one step: `RefuseWindow` (outside the window; `&&`
never looks at the nonce), `RefuseNonce`, `Accept`. `addNonceSorted` puts the entry
after the one its walk stops at. `checkNonce` is summarised by three sets: the
entries it compares (`Compared`: the head, and every entry with a successor), the
entries it visits before it breaks, and those expired among them; the last of these
makes its successor the head, so `Purged` drops a whole prefix. Numbers keep their
width: `strtol` saturates (`Nonce`), `ts2 + 10` wraps (`Expiry`). `Restart` empties
the list and leaves the clock. `SpecInOrder` restricts first deliveries to windows
that close in order, as one clock and one window length produce them: it is the case
the sorted list is made for.

**`NonceList`.** The same list in memory: `heap` maps the allocated structs to their
fields, `head`, `temp` and `valid` are the variables of the code, and `pc` tells the
loop of `checkNonce` from that of `addNonceSorted`. `Call` is
`verifyTimestampsAndNonce` up to that loop, `Drop` and `Skip` its iterations (`Drop`
frees the old head, which out of order is not the expired entry), `Refuse` its
exits; `Add`, `First`, `Walk` and `Link` are the insertion. One task is in the list,
and the clock stands still during a call, as in `NonceCache`; a restart may come
anywhere, and stands for a `malloc` that fails too. `chain`, `list` and `ordered` are
history: the places of the structs from `head` on (that they are what the pointers
lead to is `Linked`, a part of `HeapIsList`), the entries there when the last call
returned, and whether acceptances since boot came in order.

**`Session`.** `state` and `sess` are the table (`sess` names the connection whose
key and seed a record holds); `addr`, `open` and `conn` the connection of each
channel; `pc` and `cmd` the handler in progress; `lockState`, `led` the lock;
`main`, `saved` the end of `app_main`. `Connect`, `TcpPeerClosed`, `BleDisconnect`,
`Credentials`, `BadCredentials` and `Command` are what a peer does; `Parse` to
`Default` are the branches of `checkCommand`, split where another task can come in
between: after the permission, between flash and LED, and in `get_lock_state`
between the test for a missing value and the default (`ReadState`, `Default` for
RDS; `MainRead`, `MainDefault`, `MainDefaultLed` for the boot, which any handler
interrupts). `Reply` is the reset of
the Bluetooth record, the answer, and the end of the connection on NAK. `Restart`
with a cause stands for a NULL that is used (`mismatch`, `nullReply`, `noInvite`),
for a broken heap (`fewArgs`) and for resets and sleep (`reset`). `SendFails` parks
the TCP task in its loop for good. The verdict on window and nonce, and who may do
what, are free choices, so the properties hold whatever `NonceCache` or the
authorisations decide. The table is indexed by `KeyOf`, the four bytes
`HASH_FIND_INT` looks at: addresses that share them share a record. A dotted address
never shares them with a Bluetooth address (`KeyOfAssumption`).

`view`, `bumped`, `proof` and `uses` are history: what the client believes, whether
a TCP command reset the Bluetooth record, and what was proved and used.

**`DoorLock`.** The promise about the stored position: it changes only while a
client of some channel holds an authorisation, but for two writes of the device
itself. Who found no value stores `locked`, once (`SeeNone`, `Default`), and each
boot writes back, once, what it has read or defaulted to. Either may undo a command
that came after the read: on a new lock a RUD handled between the boot's test and
its default is undone though nobody asked to lock. That is what the code does, and
`DoorLock` says it; no other write is covered, in particular none by a handler whose
read found a value or failed. `Session` implements it with `door` as `lockState`,
`token` as `Token` (authorised, or with a permission of `canUseLock` not yet carried
out), `unset` as who is between test and default, and `restore` as what
`init_led_lock_state` has read and not yet written.

**`Authorization`.** `known` is the flash, one blob (`Rights`) per phone; `who` is
the phone of a record that is AUTHORIZED. `SAC` looks in flash; `Fetch`, `Save` and
`Verify` are the calls of `check_authorization_code`, in steps, as the other channel
may look up the same phone in between. `Use` (RUD, RLD), `RNI` and `RUI` come to
`Check` (`canUseLock`) and then to `Act`, or to `Grant` (`canCreateInvite`) and
`Post` (`create_invite`): three reads of the blob, or four with RUI. `Verified` adds
the refusal for window or nonce. Both decisions are translated comparison by
comparison; dates are days, as only `getTodayTimestamp` is compared. `Reply` and
`Leave` say what becomes of the records. The server is external: `granted` is what
it would answer now, which `Redeem` and `Withdraw` change at any time; it echoes the
phone it was asked about. `ever` and `agent` are history. With `NvsFails` any read
or write of flash may fail, and a failed write may have been done.

**`Power`.** Three tasks start and cancel one timer: `app_main` at the end of the
boot, the TCP and the Bluetooth task around each connection. A call is split at
every read of `deep_sleep_timer` and every call of `esp_timer`: `Poll`, `Halt` and
`Stop` are `cancel_deep_sleep_timer`, `Check`, `Create` and `Arm` are
`start_deep_sleep_timer`; a failed `ESP_ERROR_CHECK` is `mode = "abort"`. `Accept`,
`PeerLeft`, `Refuse`, `Shutdown` and `Close` are the life of a TCP descriptor, which
`disconnect_sock` closes once before `tcp_server_task` does; `HttpOpen` and
`HttpClose` are the requests of the Bluetooth task, to which a freed number may be
given. `lost`, `overlap`, `due` and `ended` are history.

**`Registration`.** `status` is the lock's copy of `srv`, the server's. `pc` is
where each task is, `call` and `phase` how far its request is: `Issue`, `Serve`,
`Data`, `Finish`, `Lose`, `Take`. The handler copies a part of the answer to
`output_len`, which all requests share, so the answer can only be read if `len`
was, at every part, what the request itself had received. Three tasks run.
`app_main` goes from `Wifi` through `SetKey` (`init_rsa_key`), `Register`,
`Registered` and `Late`; the Bluetooth task through `Message` and `BleReturn` to
`FirstKey`, `FirstCommand`, `Plain`, `Mismatch`, `Verify` and `Invited`. The TCP
task serves a client (`peer`): `TcpKey` is SSC, `TcpFirst` and `TcpReturn` are RFI,
which takes the status as old as it is and requests an invite; `TcpAsk` and
`TcpKnown` are SAC, with the request for the client's rights or without, and the
invites of RNI and RUI; `TcpUse` is every command that ends in
`set_BLE_user_state_to_connecting` (`Bump`), refused or not, which puts the phone's
record back to CONNECTING. Server, phone and client are external. Losses, cuts,
refusals, senseless messages, phones that leave, sleeps, and a TCP client with each
of its commands that may make a request are mishaps, counted; restarts are free, and
so are the commands of a connected client that only reset the record. A sleep may
come at any moment: which task may be interrupted by it is `Power`'s matter, so this
allows more than the code does.

**`Wifi`** has `s_retry_num`, the two event groups, the two event handlers (which
run above everything else, so an event and its handling are one step), the
smartconfig task and `app_main`'s waits. Driver and air are external: joins succeed
when the network is in reach and the credentials are right.

**`Boot`** extends it with the rest of `app_main` and with Bluetooth. `gap` is how
far start-up and advertising are (each event of `gap_event_handler` starts the next
step), `link` and `view` the connection and what it was told. On the S2, `echo_task`
is the loop over the UART. `Restart`, `PowerCut` and `Sleep` differ in what
survives: flash always, the clock and the key in RTC memory as they do. `TellFaults`
and `PongFaults` are `strncat` on a string constant. `TerminateAborts` is the other
outcome of `terminate_wifi`, which unregisters its handlers by the wrong address
under `ESP_ERROR_CHECK`: the library is not in `src/`, and may refuse.

**`Codec`** is `addPadding`, `removePadding`, `base64_encode`, `base64_decode`,
`encrypt_str_AES` and `decrypt_base64_AES` as functions on sequences of bytes, with
the rooms their `malloc` asks for; AES itself is a pair of operators of which
nothing is known but that one undoes the other. **`Frames`** puts it to use: a phone
connects, may negotiate (`spp_mtu_size`), installs a key, writes (`Write`, in one of
several styles of Base64), the lock reads and answers (`Answer`), and sends pieces,
one per confirmation (`Indicate`).

`MC...` modules give the instances and `...Proofs` modules the theorems. Definitions
called a *variant* of another are faulty versions of it; the runs reject each of
them.

## 4. Runs

| Run | Checks | Shows |
|---|---|---|
| `nonce_inorder` | `TypeOK`, `RefusedIsRepeat`, `Sorted`, `RemembersOpen`, `AtMostTwice` | delivered in order, every refusal is justified, no command runs a third time while its window is open |
| `nonce_list` | `HeapIsList`, `Implements`, `FewDead` | any order, and a window at the largest int: the pointers do what `NonceCache` says, nothing freed is reachable, in order nothing leaks |
| `nonce_repeat` | `AcceptedOnce` fails | the last entry is not compared: a command can run twice |
| `session_safety` | `TypeOK`, `BleOneShot`, `InStep`, `Proved`, `DoorPromise` | both channels, failing flash, resets, and a boot that either channel interrupts anywhere |
| `session_live` | `Answered` | every command is answered, or the device restarts, or the TCP peer is gone |
| `session_led` | `LedTells` fails | a command falls inside the write-back at boot, between its flash and its LED |
| `auth_safety` | `TypeOK`, `CachedWasGranted`, `SessionsAreCached`, `InvitesShrink`, `OnTheirDay` | look-ups and decisions of two phones over failing flash and an unsteady server |
| `auth_window` | `TenantsGetIn` fails | a tenant is refused during the stay |
| `power_sleep` | `TypeOK`, `OwnTimerStopped`, `SoloIsSafe`, `OwnSockets`, `GoesToSleep` | no interleaving of starts and cancels leaves an idle lock awake for good; what can go wrong needs another task in the middle of a call |
| `registration_first` | `TypeOK`, `NeverAhead`, `InviteIsFresh`, `NotRegisteredIsTrue`, `OffsetRecovers`, `KeyedCanGoOn`, `FirstInvite` | lost, cut and interleaved answers make the lock think itself less registered, never more; the first invite is reached, whatever a client over TCP does meanwhile |
| `boot_online` | `TypeOK`, `VerdictIsTrue`, `LokMeansReady`, `BootCompletes`, `Discoverable`, `StaysOnline`, `Listens` | outages, wrong credentials, sleep, power cuts and failed assertions, on both targets |
| `frames_answers` | `Understood`, `InBuffers` | messages of every length modulo the block, over connections that inherit a size |

**Bounds.** Small, but large enough for the cases the properties are about.

- Nonces: four messages, two sharing a saturated nonce, make lists of up to four
  entries and more with repeats: head, middle and tail are distinct, expired entries
  stand before and after unexpired ones, and `Margin = 1` keeps expiry later than
  the window. `MaxTime` lets every window open and close; `MaxAccept` is one above
  what the invariants allow (three in order), so it does not hide a violation. In
  `nonce_list` there is a cell for each acceptance (two of each message), so that no
  walk is cut off, and deliveries in any order, so that the list is sorted in some
  behaviours and not in others.
- `Session`: one address per channel and `MaxConn = 2` connections between resets,
  so that a connection finds the record of an earlier one on its channel, or both
  channels are connected at once. `Sent` chooses commands of each kind: `MCSentBoth`
  has SAC, one that resets and acts, one that only resets, and RUI with its own
  early exit; `MCSentBle` sends every command over Bluetooth. The violation runs use
  three TCP addresses, two of which share a record. Resets are unlimited.
- `Authorization`: two phones (one that invites, one that is invited) on two
  channels, two days (before and after a date), one invite, which may be redeemed by
  either and again; the requests are one of each kind of rights. The first phone is
  admin or owner. A longer chain of invites repeats the decision with other rights
  of the same kinds; the theorem has any length.
- `Power`: three timers, so that two can be lost at once; two descriptors, so that a
  freed number is soon given out; one poll for the code's three, as each is the same
  test.
- `Registration`: two mishaps, one of which can undo what was done after the other: a
  client over TCP who comes (one), then an RFI, a SAC, a lost answer, a sleep or a
  phone that leaves (the other), with any number of resets of the record. Answers
  come in one part, which already lands out of place when another request's part is
  there or was cut off; with more parts the safety properties are theorems, and the
  liveness run takes too long.
- `Boot`: two retries for the five of the code and two polls of the clock for
  fifteen (both only count), two mishaps, both targets, every kind of saved network.
- `Frames`: texts with whole, partial and no blocks; sizes that divide an answer,
  that do not, and one that is no larger than the default. `Credentials = 50` for
  the 344 of the code, because with 344 every answer of the instance fits one piece;
  what matters is that they do not fit the default size.

The theorems have any of these numbers.

**Fairness.** In each liveness run it is weak fairness, of what the scheduler and
the libraries do.

- `Session`: `Handler(c)` for each channel. FreeRTOS runs both tasks (the Bluetooth
  task has the higher priority and blocks between events, the TCP task blocks in
  `recv`), and calls to flash and HTTP return or time out. Nothing is assumed of
  peers, of `app_main` or of resets. `Answered` makes one exception, a TCP handler
  parked by `SendFails`: that loop does not end, and the property says in the same
  breath that it does not hold up Bluetooth.
- `Power`: the three tasks, and that an armed timer expires and its callback runs.
  Clients may stay for ever, which `GoesToSleep` allows for.
- `Registration`: the three tasks and their requests (the HTTP client has a timeout),
  and a phone that connects, sends what is due and leaves when it is done or cannot
  go on. This is what the property is about: what a phone that keeps trying gets. A
  client over TCP may stay silent at any point. `FirstInvite` makes one exception,
  `app_main` asking for the status while a message of the phone is handled, which a
  run of restarts could repeat.
- `Boot`: `app_main`, the smartconfig and the UART task and the Bluetooth stack run,
  attempts to join end one way or the other, outages pass, and during ESP-Touch a
  user with the right credentials stands by, who starts over after a wrong password
  (`esp_touch_util.c` waits without a limit). `PutOff` names what may restart the
  boot again and again; the assertion in `terminate_wifi` is the one that needs no
  peer for it.

**Deadlock** is checked in every run but `boot_online`: there the mishaps are used
up in the end and a booted lock has nothing left to do until someone comes.

## 5. Theorems

`NonceCacheProofs`, for any messages, widths and bounds. For `Spec`: `TypeOK`,
`RefusedIsRepeat`, `NeverForgetsAll`, by `GInv` (the list holds only entries of
accepted messages). For `SpecInOrder` with `NoWrap` (no window ends within `Margin`
seconds of the largest int): `Sorted`, `RemembersOpen` and `AtMostTwice`, by `SInv`.
`AtMostTwice` alone is not inductive: one needs that the list is sorted, hence that
a purge drops only what is expired, hence that an open command's nonce is still
there, and that after the second acceptance there is a copy of it at a position
`checkNonce` does compare (`CopyCompared`). The invariant is proved as long as no
acceptance has wrapped (`AcceptedUnwrapped`); `NoWrap` serves only to get that for
all of them. `FewDead` is proved for `Spec`, in any order: a walk that accepts has
gone to the end, so it leaves no expired entry but the last, which it never looks
at. The lemmas say what insertion and purge do to any list.

`NonceListProofs`, for any messages, widths, bounds and places for structs:
`HeapIsList`, `Implements`, `FewDead`. `IInv` says that the chain is linked
(`Linked`), that what is linked is what is left of the list as the call found it
(`Remembered`), and how far each walk is: what `checkNonce` has compared and dropped
(`Checked`), which entries `addNonceSorted` has passed (`Adding`). The steps of a
walk are stutters; the last one is the step of `NonceCache`, because what `Checked`
says at the end of the walk is what `Compared`, `Visited` and `Purged` say of the
whole call. What is proved of `NonceCache` then holds of the pointers:
`RefusedIsRepeat`, and, as long as acceptances came in order (`ordered`), `Sorted`,
`RemembersOpen` and `AtMostTwice`. In order, too, a purge frees exactly the structs
it drops (`InOrderInv`), which is why nothing leaks.

`SessionProofs`, for any addresses, keys, commands and number of connections:
`TypeOK`, `BleOneShot`, `InStep`, `Proved`, and that `Session` implements `DoorLock`
(`KeepsPromise`), with every interruption of `get_lock_state`. The inductive
invariant `IInv` adds to the types: a handler at
work has a connection (`Wired`), its place fits its command (`Planned`), a record in
use has the seed of the present connection (`Seeded`), an authorisation rests on it
(`Signed`), a used one is only left while its handler finishes (`Spent`), and what
the client believes also while it is being served (`Known`, `Agreed`). The two
channels never share a record, from `KeyOfAssumption`, which is why a step on one
leaves the other's conjuncts alone. `LedTellsAlone` is about the property that
`session_led` finds violated: it holds if writes to flash succeed and at most one
task at a time is between storing a position and showing it, the write-back of the
boot included (`Alone`). Both hypotheses are needed; `Alone` is what a mutex around
`lock_lock`, `unlock_lock` and `init_led_lock_state` would give, and the code has
none.

`AuthorizationProofs`, for any phones, requests, days and number of invites:
`TypeOK`, `CachedWasGranted`, `SessionsAreCached`, `OnTheirDay`, by `IInv`: what is
about to be stored was said of the phone it is stored under (`Received`), a code is
only compared once the blob is in flash (`Found`), and a blob once there is only
replaced. `InvitesShrink` needs `JInv` and the hypothesis `Dated`, that the windows
clients ask for do not begin before 1970: a tenant may invite only if the dates of
the request, of which one is always -1, are in the tenant's own window
(`OnlyOwnersInvite`), and the code checks that nowhere else. The decision of
`canUseLock` and that of `canCreateInvite` may be by different blobs; the history
`ever` holds them both.

`PowerProofs`, for any timers, descriptors and number of polls: `TypeOK`,
`OwnTimerStopped`, `SoloIsSafe`, `OwnSockets`. The invariant says that a running
timer is the one `deep_sleep_timer` names or is `lost` (`Named`), and at each place
of a call what its last read still implies as long as nobody overlapped it.
`NeverStranded` is the part of `GoesToSleep` that is not about fairness: once the
timer was to be started, at every moment one runs or has expired, or some task is on
its way to start one. It is the theorem's own property, no run lists it.

`RegistrationProofs`, for any number of mishaps and parts: `TypeOK`, `NeverAhead`,
`InviteIsFresh`, `NotRegisteredIsTrue`, `OffsetRecovers`, `KeyedCanGoOn`, each with
all three tasks. Each has
its own strengthening: `FreshInv` follows the age of an answer from the server to
the copy, `RegisteredInv` says of every place of `app_main` after `register_lock`
what the server already knows, and `KeyedInv` follows flag, key and record on both
branches. What the properties concede is in their statements: over TCP an invite
is requested on a status of any age, and only that the server has the lock
registered is certain; an answer another task was waiting for when the phone's
message came may be the one that is used (`overlap`); and a TCP command may take the
phone's CONNECTED record away (`bumped`), never its key or the flag.

`BootProofs`, for any `MaximumRetry` and `RetryCount`: `TypeOK`, `GivesUpLate`,
`VerdictIsTrue`, `LokMeansReady`. `Counters` ties `s_retry_num` to the failures in a
row, `Handlers` says which handler is registered in which part of the boot, and
`Passed` what `app_main` has behind it at each place. `WaitsAreServed` is the part of
`BootCompletes` and `Discoverable` that is not about fairness: whatever `app_main`
waits for, the station, the smartconfig task or a user is still to do (`Pledged`:
the acknowledgement of ESP-Touch is never sent before `app_main` waits for it), and
advertising is only off while there is a connection whose end starts it again.

`FramesProofs` begins with the functions of `Codec`: removing undoes padding, the
decoding loop undoes `base64_encode` for every nonempty sequence, also when padding
was left out, a whole message comes back from `decrypt_base64_AES` when the cipher
can be undone, and the buffers suffice. They are proved position by position, modulo
3 and 4, without induction. Then, for any texts, sizes, keys and number of
connections: `Understood` and `InBuffers`.
The invariant's core is `Keyed`: a record has a key only on a connection that
negotiated, because the credentials do not fit one that did not, so what is sent in
pieces is cut for the size of this connection.

Assumptions are those the modules name: `MessagesAssumption` and `NumbersAssumption`
(`NonceCache`), `ParametersAssumption` (the same two) and `CellsAssumption`
(`NonceList`), `KeyOfAssumption` and `BoundsAssumption` (`Session`),
`InputAssumption` (`Authorization`), `NoneAssumption` and `PollsAssumption`
(`Power`), `BoundsAssumption` (`Registration`), `RetryAssumption` (`Wifi`),
`BootAssumption` (`Boot`), `KeyAssumption`, `ByteAssumption`, `CipherAssumption`,
`StyleAssumption` and `SizeAssumption` (`Frames`); and `NoWrap`, `Dated` and
`~ NvsFails` where a theorem states them. The runs evaluate those the modules name
for their instances. Of `StyleAssumption`, what phones may do to Base64, the case of
missing padding is a theorem (`UnpaddedIsRead`).

Only model-checked: the liveness properties (`Answered`, `GoesToSleep`,
`FirstInvite`, `BootCompletes`, `Discoverable`, `StaysOnline`, `Listens`), which are
beyond the prover as it has no rule for fairness; and the three violations. Every
invariant and action property the passing runs check is proved. `NeverForgetsAll`,
`GivesUpLate`, `NeverStranded` and `WaitsAreServed` are proved and not checked by
themselves; a run checks the second as a part of `VerdictIsTrue`. What a recursive
definition computes for every input cannot be proved with this prover; the models
the theorems are about have none (`NonceList` keeps the places of its structs in
`chain` instead of collecting them along the pointers).

## 6. What the code does differently from what it says

- `checkNonce` never compares the last entry of a list of several (`nonce.c:53`):
  the last command accepted is accepted once more.
- `init_led_lock_state` (`main.c:120-128`) writes back what it has read while clients
  are already served: after a command inside the write-back, between its write to
  flash and its LED, LED and stored position differ.
- `canUseLock` compares the window of tenants and periodic users the wrong way round
  (`tcp_server_handler.c:72-73`): they get in only on a day that is both the first
  and the last of their stay, or with a window that ends before it begins.
  `canCreateInvite` compares the same fields the right way round.

Each of these three is a run in which TLC finds the property violated. Read from the
code, and part of the models as it is there:

- A NULL invite is measured before it is tested (`tcp_server_handler.c:301`), and
  the clean-up of `getArgs` frees `args[-1]` (`:142-144`): `Restart` with causes
  `noInvite` and `fewArgs`.
- The purge of an unsorted list frees the old head instead of the expired entry
  (`nonce.c:60`), which then stays allocated until the next boot: the condition
  `ordered` in `HeapIsList`.
- `ble_server.c:112` compares 13 characters with a literal of 11, its terminator
  included, so `+DISCONNECT` with a line end is not recognised: `Line` treats it as
  text.
- `get_lock_state` (`nvs_util.c:214-221`) tests for a missing value and stores
  `locked` in later steps: a command between them is undone. `Default` in `DoorLock`.
- RFI over TCP does not force the status (`tcp_server_handler.c:323`), as Bluetooth
  does before its branch of a first contact: the second half of `InviteIsFresh`.
- `terminate_wifi` unregisters its handlers by the address of the handler instead of
  the instance (`wifi_connect_util.c:67-72`) and asserts success: `TerminateAborts`.
- A lock that slept before `init_rsa_key` skips it after waking and has no key:
  `keyless` in `LokMeansReady`.
- The reset of `output_len` at the end of a connection is commented out
  (`database_util.c:74-87`): `cut` in `OffsetRecovers`.

## 7. Not modelled, and why

- *Two tasks inside one call of the nonce list, or one bucket of `users_info`.* Once
  both are in the same struct, one may use what the other has freed, any outcome is
  possible, and no property would hold. `NonceList` has one task; `Session` takes
  look-ups as one step. `uthash.h` itself is a vendored macro library.
- *Reads whose result is not defined*: a read of the lock state that fails for
  another reason than a missing key leaves the value uninitialised
  (`nvs_util.c:222`); a blob whose size can be read and whose content cannot has its
  buffer freed and then used (`nvs_util.c:67`); `write.value` of a Bluetooth write
  is used as a string without a terminator of its own; LOK and LNO have no room for
  the EOT. Where the end of the program is the likely outcome it is a restart
  (`TellFaults`, `WriteCommand`); the others are left out.
- *Handles of NVS that are never closed*: their number is a limit of the library.
- *Libraries*: JSON, HTTP and TLS, RSA, HMAC, SHA-256 and AES. What they return is
  modelled: a message under another connection's key, or a code for another seed, is
  not accepted; a request is answered, lost or cut short. The key of an
  authorisation is not in `Rights`: that a code fits it is the choice of `Verify`.
- *A `recv` that returns half a message or two*: `Session` takes it as one message.
- *In `Registration`*: what a client over TCP is answered, the endless loop around
  `send` (`Session` has it; the client here may be silent for ever instead), and the
  commands of Bluetooth users with rights, who exist only after the first invite.
  `Session` and `Authorization` have these clients. SNT's notification has no event
  handler, so it does not come near `output_len`.
- *Time zones and formats of dates*, library calls.
- *Messages over UART*: they are handled by the functions the S3 uses, which
  `Session` and `Registration` have; only the loop that reads them is of its own.
- *The request of SNT* (`pushingbox_util.c`): its result only goes to the log, so it
  is a part of `Inform`. Its URL is written to a buffer one byte too short.
- The URL alphabet of Base64 is not used by the program. Build files have no
  behaviour.
