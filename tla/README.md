# A verification development for the Ethernet firmware (EthFw)

EthFw runs on one core of a TI SoC and owns the Ethernet switch (CPSW). The
applications of the other cores do not touch the switch: each core has a proxy
client that sends requests over IPC (RPMsg) to the proxy server in EthFw. The
server keeps the registry of clients and the tables that divide the switch
between them, and programs the switch's address table (ALE) through the Enet
driver.

This directory holds TLA+ models of the parts of EthFw that keep state across
requests, TLC configurations that check them, and TLAPS proofs about them.
Paths in this file are relative to the repository's `src/`; `server/` stands for
`ethremotecfg/server/src/` and `client/` for `ethremotecfg/client/src/`.

## 1. Inventory

| Component | Source | State it keeps | Operations | Modelled in |
|---|---|---|---|---|
| Multicast filter | `server/ethfw_mcast.c`, callbacks in `apps/app_remoteswitchcfg_server/main.c` | shared table with reference counts, table of exclusive addresses, reserved list, mask of cores fed by the bridge | filterAddMac, filterDelMac | `Mcast`, `MulticastService`; with VEPA in `Vepa` |
| VLAN table | `server/ethfw_vlan.c` | 32 entries with member and active masks | join, leave, isInVlan | `Vlan`; with VEPA in `Vepa` |
| VEPA | `server/ethfw_vepa.c` | table of (MAC, VLAN) to port mask, duplication flow, private VLANs | add, delete, replicate | `Vepa` |
| Client registry | `server/cpsw_proxy_server.c` 431-700, 769-934, 1082-1117 | client objects per core, tokens, idle marks, reference count of a core | attach, detach, teardown completion, broadcast | `ClientTable`, `Recovery` |
| Resources of a client | `server/cpsw_proxy_server.c`, `apps/app_remoteswitchcfg_client/virtnetif_lwipif.c` | channels, flows with their offsets, MAC addresses, classifiers | allocate, register, unregister, free | `ClientResources` |
| Client proxy | `client/cpsw_proxy.c` | handles, request counters, one mailbox per core | sendCmd, command handler task, notification handler | `CmdService`, `Recovery` |
| Monitor and recovery | `server/ethfw_monitor.c`, `apps/app_remoteswitchcfg_client/virtnetif_lwipif.c` | drop counters, server status, number of clients to wait for; DMA channels of a client | lock-up detection, teardown wait, reset, recovery task of the client | `Recovery` |
| Proxy ARP | `server/ethfw_arp.c` | table of (IP, VLAN) to MAC | add, delete, look up, use count | `ArpTable`, `AddressMap`; its emptiness in `Recovery` |
| Server library | `server/ethfw_api.c` | server status, configuration | init, deinit, status | status in `Recovery` |
| Remote timers | `server/cpsw_proxy_server.c` 2359-2477, 3884-4126 | push to core map, destination mask | register, unregister, driver callback, notify task | `RemoteTimers` |
| Log ring | `utils/console_io/src/app_log_writer.c`, `app_log_reader.c` | bytes and two indices in shared memory | print, poll, start | `LogRing` |
| Remote service | `utils/remote_service/src/app_remote_service.c` | registered handlers, a transmit and a receive lock per core, endpoints | register, unregister, run, receive task | `RemoteService` |
| TSN, IET, port mirroring, time sync, AVTP and its shared memory ring, tap, inter-VLAN demos, board files | `server/ethfw_tsn.c` and others | driver handles | start-up, pass-through calls | not modelled (section 6) |

How they interact. A request of a client travels `CpswProxy_sendCmd` -> IPC ->
`CpswProxyServer_remoteClientEthDriverTaskFxn` (one task for all RPMsg
clients; a task of its own for each AUTOSAR client) -> a handler, which looks up
the client object by the token and calls one of the tables. The answer goes back
through the client's endpoint task and a mailbox. Independently the monitor task
of the server watches the drop counters of the switch; when one grows it
broadcasts a notification, waits until all clients reported that their DMA
channels are closed and the VEPA or the ARP table is empty, resets the switch and
broadcasts the completion. Each client has a task of its own for these
notifications. The log ring and the remote service connect the cores beside the
proxy: the first is two tasks and shared memory, the second RPMsg endpoints.

What is hard. Timeouts in the client with answers that come late; several handles
of a core on one mailbox; ALE commands that fail half way through a handler; tables
that fill; counts that must agree with what other actors hold; flows that pass from
one client to the next while classifiers still point at them; the monitor's
count of clients against attaches and detaches handled by another task; shared
memory without a lock; locks held across a call to another core. The list with
lines is `hazards` in `PROJECT.json`; section 5 names what is left over.

What makes each part correct. Filter: one owner per exclusive address, the shared
table and the ALE agree, the bridge feeds only cores that subscribed. VLAN: a VLAN
is in the ALE while somebody is in it, and only then; server and client agree on
who is in. VEPA: copies go to the subscribers and to nobody else. Registry: the
reference count is the number of objects. Resources: what a client was told is its
own stays its own, and everything comes back. ARP: the table is a map. Client proxy: a
command returns its own response, and returns. Recovery: no reset while a channel
is open, notifications come in pairs, every recovery ends. Log ring: what is
accepted is printed, once, whole and in order. Remote service: handlers of a core
run one at a time, and a caller is told the truth.

## 2. The modules

**`Mcast`** is `ethfw_mcast.c` in the build with the lwIP bridge. One action is one
call of `EthFwMcast_filterAddMac` or `filterDelMac` by the task that serves the
RPMsg clients, the callback into the application included. `sharedRef`, `excl` are
the two tables, `ale` and `policer` what the driver was told, `bridgeMask` the
application's mask per shared address. `granted` is not in the code: it is what the
clients were told, the number of adds acknowledged and not given back. Every ALE
command in `MayFail` may fail at any call, and the model follows what each
handler leaves behind in that case.

**`MulticastService`** is what the filter promises: an exclusive address is granted
to at most one port, a shared one to any. `Mcast` implements it with the state
`granted` (`RefinesService`).

**`CmdService`** is one client core: `CpswProxy_sendCmd` with its wait loop, the task
that moves responses from the endpoint to the mailbox, closing and opening a
handle, and a server that answers in order, late or (with `MayLose`) not at all. The wait at the
mailbox ends with a message, with a timeout (`Timeout`) or with another failure (`PendFails`), after which the
call returns `EFAIL`.
A response is represented by the request it answers. The message buffer is a
local of sendCmd that is not initialised: its contents are chosen freely.

**`ClientTable`** is the registry: objects of a core, tokens, idle marks, the core's
reference count, and `mcm`, the attach calls made to the driver less the detach
calls. It has a specification of its own, `TableSpec`, in which any request carries any
token; the proofs are about that one.

**`Recovery`** EXTENDS `ClientTable` and composes it with the monitor task, its two broadcasts (one
object per step: the code sleeps between two sends), the ARP table's emptiness, and the life of each
client: attach served and answered as two steps, the recovery task's closing and reopening of the
DMA channels, and a release in three (`CloseTx`, `CloseRx`, `Detached`), between any two of which a
notification may arrive. A client may be released at any time. `Overlap` says what else the
environment lets fall into a recovery: attaches (`ATTACH`), attaches and detaches whose failure
leaves an object behind (`ORPHAN`), and messages that are lost (`LOST`). A send that fails is only
logged, by the server for a notification (`Missed`) and by the client for its teardown completion,
and nobody sends it again; `unheard` remembers the clients concerned. Closing channels that are not
open, or opening ones that are not closed, fails an assertion, which stops the recovery task of the
core (`AssertFails`). `mon.port` says whether a MAC port ever locked up: the monitor waits for the
link of the last one that did, also after a lock-up of the host port, and for ever if there is none.
Four things are not in the repository and are assumed: that `EnetAppUtils_assert` stops its task,
that the link of an invalid port is down, that an interface that is not open, or is being released,
has no channel handles, and that an interface attaches again only when its old notifications have
been handled.

**`RecoveryBarrier`** is what the recovery promises to the clients: a round in which each stands
back or leaves, one reset when all have, a release of each, and no way back into service before each
of them has been told or has missed it. A client a message is lost for after it stood back is
`STRANDED`: it stays back, and there is no other reset. `Recovery` implements it while nobody
attaches in a recovery (`ImplementsBarrier`): `Round` is read off the monitor's place, `Standing`
off a client's channels, the notification it has to handle next and whether it missed one. Objects,
idle marks, counts and the order of the broadcast are hidden.

**`Vlan`** is `ethfw_vlan.c` without VEPA. `vlan` is the table, `ale` the driver's
VLAN entries, `joined` what clients were told, `aleWorks` says that no ALE command
has failed so far. A virtual port is its number, because the code stores one in a
bit mask (`AsMask`).

**`ArpTable`** is `ethfw_arp.c`: slots that are free or hold an address, searched from
the first. **`AddressMap`** is what it promises, a partial map of bounded size;
`Resolve`, the answer of `EthFwArp_getHwAddr`, is the refinement mapping
(`ImplementsAddressMap`).

**`ClientResources`** EXTENDS `ArpTable` with what an interface takes and gives back. `step` is
where `LwipifEnetAppCb_getHandle` or `releaseHandle` is in its list of requests, which it sends in
order and whose statuses it ignores; `hold` what the client kept of the answers, `told` which of
these it was told are its own. `owner`, `offset` and `steer` are the driver's allocations,
`rxFlowIdxOffset` and the classifiers in the switch. One action is one request with its handler. Up
to `MaxFault` times a driver call fails, an answer is lost, a core restarts without giving anything
back, or a client comes back with another IP address. A failed request is answered from a buffer
nobody initialised, so that the client may hold any number: `Refuse` chooses it. A request that
names a flow the port does not own is not refused: the lookup reports success (section 5), so that a
registration may be accepted, and `FreeRx` deletes the custom policers of the port's primary flow,
forgets that flow's offset and has the driver free the flow that was named, another port's perhaps.
`astray` are the flows so named. `left` are classifiers nobody will remove any more: of a restarted
core, or whose removal failed.

**`Vepa`** is `ethfw_vepa.c` with the three handlers that call it: MAC registration,
the filter of shared addresses and VLANs. `vepa` is the table, `duplicated` and
`private` the policers to the duplication flow and of the private VLANs, `granted`,
`registered`, `active` what the clients were told. The policer of a shared address is set with
its first reference only; the status of an unregistration is that of the last of its steps. A copy is the set of ports
`EthFwVepa_sendRaw` tags it for (`Copies`). `trouble` counts failures, a full table, a policer wanted while
the flow is not open, and requests of a client that has what it asks for or gives
back what it has not.

**`LogRing`** is one writer and one reader. Every access to the shared memory is a step
of its own: a byte written, the NUL, the index moved; the indices read, a byte
taken, the index moved. Contents of the memory at power on are arbitrary. The
writer's core may stop and start again between any two of its steps.

**`RemoteService`** is `app_remote_service.c` on all cores. A thread is a task or a core's
receive task; `doing` is the place it has reached in `appRemoteServiceRun` or
`appRemoteServiceRxTaskMain`, `txLock` and `rxLock` the semaphores, `inbox` and
`answers` the two endpoints of a core. A handler may call another core (`Relay`).
A handler returns a status of its own, which is what its caller is told.
`succeeded` and `returned` are not in the code: requests whose handler returned success, and what
the callers were told.

**`RemoteTimers`** is the registration of hardware push inputs and the task that sends
their time stamps. A request is two steps, because the notify task can run between
its change of `dst` (`dstProcMask`) and of `coreOf` (`hwPush2CoreIdMap`) during the
driver calls; so is a notification (`ReadCore` before the lookup, `SendNotification`
after). `events` are the event bits, `asked`, `told` and `got` what the clients want,
were told and were sent. Only time stamps and the identity of a timer are left out.

The modules `MC...` name model values for TLC and define the constants that are
functions. Definitions `Mut...` are wrong variants of single definitions, used to see
that a property notices them.

## 3. The runs

| Run | Instance | What it shows |
|---|---|---|
| `mcast_faults` | 2 ports on 2 cores, 1 shared, 1 exclusive, 1 reserved address, all ALE commands may fail, stray deletes | `RefinesService`: `MulticastService` is implemented, an exclusive address has one owner; `McastInv`: classifiers point to the slot's owner; `SharedInSync`: counts and ALE agree |
| `mcast_balanced` | 3 ports, 2 cores, 2 exclusive slots, clients delete what they hold | `GrantsServed`: what was granted stays served, whoever else deletes; `SharedRefCounts`; `FanoutSubscribed`: the bridge feeds subscribers only |
| `cmd_one_handle` | 1 handle, 4 commands, timeouts and failing waits, lost and late responses, mailbox of 2 | `CmdInv`: no late message can be taken for the current response |
| `cmd_blocking` | 2 handles, no timeout, one close and open each | `OwnResponse`, `QuietWhenIdle` (nothing left over), `CommandsReturn` |
| `recovery_calm` | 3 clients on 2 cores, 2 lock-ups of a MAC port or the host port; clients attach between recoveries and are released at any step; notifications and completions are lost | `ResetAfterTeardown`: no reset with an open channel; `PairedNotifications`: who missed nothing and stays is told to close and to open in turn; `CalmInv`; `RecoveryCompletes`, `DmaReopened`, unless the monitor was left waiting (`Hopeless`); `ImplementsBarrier`: `RecoveryBarrier` is implemented |
| `recovery_any` | 2 clients, 1 lock-up of a MAC port; attaches, releases, failed attaches and lost messages at any time | `StatusShowsLockup`; `TableInv`: references; `ResetCompletes`: an end once the waits are over |
| `vlan_faults` | 2 MAC ports, 2 switch ports, 3 VLAN ids, table of 2, ALE commands may fail | `VlanInv`: active VLANs are served; until a failure `QuietVlans` (nothing is left behind) and `ToldIsActive` (a port active in a VLAN was told so) |
| `timers` | 2 cores with a timer each, all calls may fail | `TimersInv`: who was told it is registered is served; `SentOnlyIfAsked`; `PulseDelivered`: a pulse reaches its core until a call fails |
| `client_resources` | a switch port with two custom policers and a MAC port come up and down three times; one fault of nine kinds; 2 flows, channels, MAC and IP addresses; ARP table of 2 | `FlowsKept`: a granted flow stays its client's; `SteeredToHolder`: no managed classifier leads to another client's flow; both, and the offsets in `ResourceInv`, except for flows in `astray`; without a fault `GivenBack` and `AnswersReachHolder`; `ResourceInv`; `ImplementsAddressMap` |
| `vepa` | 2 clients, 1 shared address, broadcast, 1 VLAN, table of 3, two troubles | `VepaInv` (the table is a map, no duplication of unused addresses) always; until the first trouble `CopiesReachReceivers` and `NothingLeft` |
| `log_ring` | ring of 5 bytes, 3 messages of 1 to 3 bytes, one restart of the writer | `LogInv` (the cores never touch one byte), `PrintedInOrder`, `AllPrinted`, unless a message fills the ring (`brimful`) |
| `remote_service` | 3 tasks on 2 cores, 2 calls, one service calls back, handlers may fail, registrations change, one message is lost | `ServiceInv`: one handler at a time, answers expected; `ToldTruth`: success is told exactly if the call's handler ran and returned it; `CallsReturn` unless an answer was lost |

Bounds. Two owners and one address make every contention over an address; a third port puts two on
one core. Tables of one or two slots are full early and are freed and reused. Two grants per address
(`MaxGrant`) distinguish counting from a flag. Two commands make an earlier and a later one; the
proof about one handle removes the bound, and `cmd_one_handle` takes four. A mailbox of one or two
messages is full sooner than the code's four. Two lock-ups let the leftovers of one recovery meet
the next; `recovery_any` has one, because objects nobody owns and attaches already come from any
moment before it, and its properties are about one recovery. Two flows and two ports let a flow pass
from one client to the other; three visits let a client come back after the other took what it had,
and one fault leaves two visits to meet what it left behind. `MaxTrouble` of two in `vepa` covers a
failure and the failing retry, and `Width = 2` lets `vlanRefCnt` wrap within reach. Five bytes wrap
within two messages, so that three wrap at different places. Two calls in `remote_service` are one
under way and one that meets it, each with a call of its handler; the proofs remove the bound.

Deadlock is not checked where the bounds end the behaviour (`MaxReq`, `MaxVisit`,
`MaxMsg`, `MaxCall`), in `remote_service` also because a caller whose answer is lost waits for ever, and in
`recovery_any` and `recovery_calm`, where the monitor may wait for ever on a count that became stale,
for a client that missed a message, or for the link of a port that never was.

Fairness. `CmdService`: the server's task, the command handler task, the waiting
caller and the timeout clock run when they can (`WF`); nobody is forced to call.
`RemoteTimers`: weak fairness of both tasks of the server; nobody has to ask and no timer has
to run. `Recovery`: weak fairness of the monitor task (it includes the link coming up
again), of each client's recovery task, of the answer to an attach and of a release under way. Nothing
makes a client attach, leave or register an address, and no switch is forced to
lock up. `LogRing`: weak fairness of the reader, a task that polls for ever; the writer
may stop anywhere. `RemoteService`: weak fairness of every thread; nobody has to make a call, and
the semaphores need not be fair because the bounded calls cannot starve a waiter. These are
tasks of a preemptive RTOS that block only where the model's guards are.

## 4. The proofs

| Theorem | Module | Statement |
|---|---|---|
| `McastInvariant`, `ExclusiveOwnership`, `SharedAgreement`, `FanoutInvariant` | `McastProofs` | `McastInv`, `ExclusiveOwner`, `SharedInSync` and `FanoutSubscribed`, whatever ALE commands fail |
| `SharedCounts`, `GrantsStayServed` | `McastProofs` | clients delete what they hold: `SharedRefCounts`; if an exclusive add does not fail half way, `GrantsServed` |
| `ImplementsService` | `McastProofs` | `Spec => RefinesService` |
| `SingleHandleInvariant`, `SingleHandle` | `CmdServiceProofs` | one handle, never reopened: `CmdInv` and own responses only, for any timeouts, failing waits, losses, mailbox |
| `BlockingExchange` | `CmdServiceProofs` | commands that wait for ever, waits that do not fail, no losses: `QuietWhenIdle` and `OwnResponse`, for any handles and reopenings |
| `CoreReferences` | `RecoveryProofs` | `ClientTable`'s `TableInv`: reference count and attach balance for any requests |
| `CalmInvariant`, `SafeReset`, `NotificationsPaired` | `RecoveryProofs` | nobody attaches in a recovery, `Overlap \subseteq {"LOST"}`: `CalmInv`, `ResetAfterTeardown` (and `IdleIsClosed`), `PairedNotifications`, for any cores, clients, objects and lock-ups, releases at any step and whichever messages are lost |
| `RecoveryIsBarrier` | `RecoveryProofs` | the same premise: `Spec => ImplementsBarrier` |
| `RecoveryReferences` | `RecoveryProofs` | `TableInv` through any recovery, any `Overlap` |
| `LockupShows` | `RecoveryProofs` | `StatusShowsLockup` for MAC port lock-ups, any `Overlap` |
| `TimersServed`, `TimersQuiet` | `RemoteTimersProofs` | one timer per core, the last input unused: `TimersInv` and `SentOnlyIfAsked`, whichever calls fail |
| `VlanServed`, `VlanQuiet`, `JoinersActive` | `VlanProofs` | `VlanInv`, `QuietVlans`, `ToldIsActive`, for any ports, VLANs, configuration and table length |
| `OneEntryPerAddress`, `TableIsMap` | `ClientResourcesProofs` | the ARP table has one entry per address and implements `AddressMap`, for any additions, removals and size |
| `ResourcesOwned`, `FlowStays`, `NoForeignPackets`, `ClientsUseMap` | `ClientResourcesProofs` | `ResourceInv`, `FlowsKept`, `SteeredToHolder` and `ImplementsAddressMap`, for any clients, faults, restarts and flows named by mistake |
| `AllGivenBack`, `AnswersCurrent` | `ClientResourcesProofs` | `Apart`: `GivenBack` and `AnswersReachHolder` |
| `VepaTables`, `CopiesReach`, `NothingStays` | `VepaProofs` | `VepaInv`, `CopiesReachReceivers`, `NothingLeft`, for any ports, addresses, VLANs, table and width of the count |
| `OneAtATime`, `Truthful` | `RemoteServiceProofs` | no handler calls its own core: `ServiceInv` and `ToldTruth`, for any cores, tasks, calls, statuses of handlers, losses and chains of relays |
| `BytesKeptApart` | `RemoteServiceProofs` | `LogInv` of `LogRing`, for any size, messages, memory at power on and restarts |
| `LogInOrder` | `RemoteServiceProofs` | `PrintedInOrder` of `LogRing`, for the same |

Assumptions are the named `ASSUME`s of the modules (types of the constants, and names that differ:
`SwitchPort` and `MacPort` have no port in common) and the premises written in the theorems.
`SingleHandle` assumes a single handle that is not reopened: with two the property is false (section
5); `BlockingExchange` assumes the client's other configuration, in which nothing times out, and
that a wait without a timeout does not fail. `SharedCounts` and `GrantsStayServed` assume that no
client deletes what it does not hold (`~StrayDelete`), since the filter counts requests and not
clients, and the second that neither `ADD_EXCL` nor `SET_POLICER` fails: without that it is false
(section 5). `SafeReset`, `NotificationsPaired` and `RecoveryIsBarrier` assume that nobody attaches,
or has an attach counted as failed, during a recovery: with such attaches they are false (section
5). Releases at any step and lost messages they allow. The theorems about timers assume
`OneTimerEach`: each of its three parts is needed. `Apart` says that no two ports share a custom
policer or an IP address and that a custom policer does not match what the server's own classifiers
match: the server keeps no owner of either. `OneAtATime` and `Truthful` assume `NoSelfRelay`: the
receive lock is a semaphore, and a handler that runs a service of its own core waits for itself.
`RemoteServiceProofs` EXTENDS `RemoteService` and `LogRing`, which share no name.

Arguments. *Mcast*: `ExclusiveOwner` is not inductive, since granting depends on the
table and not on `granted`. `McastInv` adds that an address is in at most one slot
(`SlotsDistinct`), that whoever was granted an address has its slot
(`GrantedHasSlot`) and that a classifier belongs to the slot's owner. `GrantsServed` needs that whatever
has a slot is in the ALE and has its classifier (`SlotsServed`), which a half-done add would break. A shared
count is the size of the set of grants (`CountsHeld`), so that an address leaves the ALE with its last one.
*CmdService*: `CmdInv`
says every message under way carries a number already given out, and one whose
number is not below the current call's is the current call's request. With
commands that block, `ExchangeInv` says that the message of the command in progress is at the server, at the endpoint
or in the mailbox, and that there is nothing else anywhere. *ClientTable*:
`TableInv` is inductive; each request takes or frees one slot, and the cardinality
of the slots in use moves by one. *Vlan*: a VLAN with an active port has its full
entry in the ALE; only the last leave touches the entry. `QuietVlans` needs that the configured VLANs stay in the
table with their members, and that every other entry is dynamic (`StaticKept`). *ArpTable*: with one entry per
address `FirstHolding` picks the only one, so that `Resolve` changes at one address
per step; the capacity follows from an injection of the addresses into the slots.

*ClientResources*: `SteeredToHolder` needs `FlowsKept` and that every classifier not left behind
steers to a flow of its port, and is removed with the flow's policers or by the end of the
registration (`Removable`); that in turn needs that a remembered offset is of a flow allocated for
its port (`OffsetsOwned`) and that only the place of the primary flow is ever taken (`OnlyPrimary`).
A request for a flow the server does not know for the port may free another's; the invariants say
that such a request is the only way to lose a flow, and that a client that was told its flow never
makes one (`ToldPrimary`); while nothing has failed nobody does (`NoneAstray`). While nothing has
failed, `CalmInv` of that module says for every place in the client's list of requests what the
server, the driver and the client have at that moment (`OwnsHeld`, `FlowHeld`, `MacHeld`, `IpHeld`);
`GivenBack` is its case of a client that is down.
*Vepa*: by `VepaInv` an address has one entry, so that the ports a packet finds are those of the key
(`MaskIs`), an add or a delete changes one port of one key (`AddAddrAdds`, `DelAddrTakes`), and the
three kinds of key can be treated apart. `CalmInv` there says that a shared address has the ports
that subscribe and one reference for each (`McastCalm`), a VLAN those in it (`VlanCalm`), and the
untagged broadcast those that are registered, which have everything else a registration makes, once
(`ClientCalm`).

*Recovery*: `CalmInv` ties each object to its client's channels and inbox. A client is at work (or
back, and never told so), told to close (or never told), or done; the monitor's phase says which,
and during a broadcast the set of objects not yet visited does. Nobody attaches while the monitor
waits, so that its count is the number of clients and of those that left since (`CountCovers`): as
many idle objects as were counted means that nobody left, nobody is leaving and all are idle
(`TeardownStep`). A client that missed a notification, or whose completion was lost, never becomes idle
again (`Astray`): it holds up the next reset, and that is
why no reset finds an open channel whatever is lost. A recovery begun while a client still has the
last completion to handle is the case with two notifications in an inbox. `RecoveryIsBarrier` adds
no invariant: by `CalmInv` a client that is there is where its object and the phase put it
(`ClientInStep`), so that nobody is held back while the monitor watches or resumes, except who is
stranded, and everybody has stood back from the last confirmation to the completion
(`StandingInPhase`); then each action is one move of one client (`MoveOne`), a change of the round,
or neither (`MoveNone`). The confirmation of a teardown and the wait for the ARP table are steps the
barrier does not see. *RemoteTimers*: `OwnTimers` says that map, lookup and bits speak of a core's
own timer only, `Underway` what a request has already done when its driver calls begin.

*RemoteService*: `Serialized` needs that who handles holds the receive lock, and `AnswersExpected`
that a request with an answer is in one place: its caller waits for it, and it is in the inbox, with
the receive task or among the answers (`IInv`: `ThreadInv`, `LockInv`, `InboxInv`, `AnswerInv`). The
transmit lock makes the caller the only one that waits at its endpoint, so that there is at most one
answer and it is the caller's (`AnswerIsMine`): the number of messages need not be compared, and the
code does not. `TruthInv` adds what each place says of the handler: not run before it ends, and when
the receive task is done with it, what the handler returned, which is what the answer says.
*LogRing*: measured round the ring from the reader's index, the reader's bytes end before the
writer's index and the writer's message before the reader's (`RoomKept`), also for a reader that
starts late and finds in its index whatever memory held: the writer has not passed that value, and
the reader begins at 0, where the writer began. `PrintedInOrder` compares with the accepted
messages, which lie in memory only until they are read. `StreamInv` numbers every byte ever accepted
by its place, message and position, the NUL after a message included: the bytes between the two
indices hold, place after place, what follows the last one read (`Streamed`, `Following`), up to the
end of the log (`EndOfLog`). What has been taken of a line is what was written from where the line
began (`LineSoFar`), and the printed lines are exactly those that begin before the reader's place
(`PrintedUpTo`), in order; so a print adds the next line and no other. That the message under way is
in memory as far as it was copied is `Written`.

Model-checked only: liveness (`CommandsReturn`, `RecoveryCompletes`, `ResetCompletes`,
`DmaReopened`, `PulseDelivered`, `AllPrinted`, `CallsReturn`), which is out of the prover's
reach. Every safety property of the runs is stated by a theorem.

## 5. Known divergences

Where the code does something else than a comment, the user guide or a reader would expect.
Those with a property name are stated in a module and fail in the instance given; the
runs above use instances without them.

Multicast filter
- `FanoutReachesSubscribers` (`Mcast`) with two ports of one core and their deletes in turn: the
  bridge's mask has one bit per core (`apps/app_remoteswitchcfg_server/main.c:2111`, `:2115`), so
  that the first delete stops a core that has another subscriber. The opposite inclusion,
  `FanoutSubscribed`, holds and is proved.
- `ReservedRefused` (`Mcast`): `isRsvdMcast` compares the VLAN id as well (`ethfw_mcast.c:544`), so
  a reserved address is granted on a VLAN the client joined.
- `RefCntIsClients` (`MCMcast`): `RefCnt` counts requests, not clients as the user guide says of the
  printed table.
- `GrantsServed` (`Mcast`) with `SET_POLICER` or `ADD_EXCL` in `MayFail`: the slot is not given back
  when the classifier fails (`ethfw_mcast.c:771`), and the client's retry succeeds without one.
- `ethfw_mcast.c:753`: the search for a free slot is not protected against the AUTOSAR clients'
  tasks: two adds at once may write one slot, and with it no property of the exclusive table is
  left. `Mcast` has the task of the RPMsg clients only.

Client proxy
- `OwnResponse` with two handles and a timeout: handles number their requests independently and
  share a mailbox (`cpsw_proxy.c:1799`), so one returns the late response of the other.
- `CommandsReturn` with a timeout and a silent server: the loop condition reads the response's id
  from a buffer no message was written to (`cpsw_proxy.c:1801`), and the wait may go on although the
  timeout ran out.
- A handle that is opened again numbers its requests from zero (`cpsw_proxy.c:1558`): with a
  timeout, a late response of the time before fits a new request.

Recovery
- `ResetAfterTeardown` with `Overlap = {"ATTACH"}`: clients are counted once (`ethfw_monitor.c:585`,
  `:588`), and one that attaches later is not waited for.
- A notification that reaches a client before the answer to its attach finds no handle and is dropped
  (`cpsw_proxy.c:2142`): with `Overlap = {"ATTACH"}` nothing is promised to that client.
- The monitor may wait for ever (`Hopeless`): for a client that left after it was counted
  (`Deserted`), for one that missed HWERROR or whose teardown completion was lost, since both sides
  only log a failed send (`cpsw_proxy_server.c:660-666`, `virtnetif_lwipif.c:1237`), for the link of
  a MAC port when only the host port ever locked up (`ethfw_monitor.c:519`, `:640`), and, with
  `IpPort # {}`, for an ARP table no teardown empties (`:605`).
- A client that misses HWRECOVERY keeps its channels closed; at the next HWERROR it fails an
  assertion, which ends the recovery task of all the interfaces of its core, and the monitor waits
  for it for ever.
- A client that is being released when HWERROR arrives has no channels to close, and the assertion
  fails as well; and a release while a recovery has the channels closed fails one in its own task,
  which is why `CloseTx` starts from open channels only.
- `PairedNotifications` with `Overlap = {"ORPHAN"}`: an attach the client repeats leaves two objects
  with one token, and the client is told twice to close its channels.
- `StatusShowsLockup` with `Trigger = {"HOST"}`: a lock-up of the host port leaves the status READY
  during the teardown wait.
- Start-up overwrites an earlier failure with the status of VEPA's and the monitor's
  (`ethfw_api.c:1093`), and the tables are torn down before the monitor task stops (`:1195`).

VLAN
- `MacPortAlone` (`Vlan`) with MAC ports 1 and 3: the member mask of a dynamic VLAN made by a MAC port
  is the port's number (`ethfw_vlan.c:341`), and 3 lets port 1 in too.
- `JoinedMayLeave` (`Vlan`): a MAC port, or a switch port with `SwtFwd = FALSE`, may not leave the
  dynamic VLAN it made. `FullIsInUse`: entries of dynamic VLANs are never freed (`:324`).

Resources of a client
- A client that comes up with a new IP address leaves its old one in the ARP table
  (`virtnetif_lwipif.c:751`): the fault `RENUMBER`. A full ARP table refuses it (`ethfw_arp.c:257`),
  but the client does not look at the status.
- A client with `ATTACH_EXT` and custom policers: the free of its flow fails on the policers it
  never made, and forgets the flow's offset first (`cpsw_proxy_server.c:1193`); `Init` excludes it.
- A request that names a flow the port does not own is served: the lookup starts from the success of
  the call before it (`cpsw_proxy_server.c:4368-4391`). A free (`:1160-1199`) then removes the
  primary flow's policers and offset and frees the flow named; a registration (`:1272-1291`,
  `:1377-1391`) compares an index that was never set. Only a client whose allocation failed names
  such a flow. `FlowsKept` and `SteeredToHolder` without the exception of `astray` fail after one
  lost allocation.
- The driver checks the key of the core and not of the client when it frees.
- The Sitara copies of the client let a MAC-only port share the switch port's flow, and do not free
  its MAC address.

VEPA
- A full table reports success (`ethfw_vepa.c:429-450`); the status of the broadcast policer is
  overwritten (`:639-645`).
- `vlanRefCnt` wraps when a client unregisters after a failed registration
  (`cpsw_proxy_server.c:1424`).
- The entry is removed before the filter's classifier and ALE entry; when one of these fails the
  retry fails for ever (`ethfw_mcast.c:342`).
- The failed last leave of a VLAN keeps its entry (`ethfw_vlan.c:460-482`), and leaving a VLAN
  before deleting a filter strands it.
- The mask has one bit per port where the filter counts adds (`ethfw_vepa.c:417`).
- `copyPbuf` is tagged for the next port after it was handed to the driver (`ethfw_vepa.c:749-789`).
- The duplication flow is cleared when the DMA closes although policers to it remain, and
  `setupPacketDuplicationRoute` is not told that opening the flow failed.

Remote timers
- `ToldIsServed` (`RemoteTimers`) for a core with two timers: unregistering one clears the bit of the core
  (`cpsw_proxy_server.c:2442`); and for two cores that register one push: the map keeps the last.
  `SentOnlyIfAsked` for push 8, which register accepts (`:2374`, `> COUNT_MAX`) and unregister refuses (`>= COUNT_MAX`).
  `PulseDelivered` without `~rtnVal`: after the last event of a round failed, the notify task handles none any more.

Log ring and remote service
- A message one byte shorter than the free space makes the two indices equal
  (`app_log_writer.c:173`), which the reader takes for empty: `brimful`. One core's ring is drained
  before the next is looked at (`app_log_reader.c:264`).
- A caller whose answer is lost holds its core's transmit lock for ever
  (`app_remote_service.c:320`). An answer from another core than asked is thrown away and the call
  returns success (`:347-355`). Two handlers that relay to each other's cores may wait for each
  other. UnRegister looks at the table without the receive lock, and Register has no lock at all; a
  creation that fails in Init is overwritten by the announcement (`:502-509`).

## 6. Not modelled, and why

- *Pass-through handlers* of the proxy server (register access, ioctl, link status, statistics) and
  the wrappers of the client proxy make one call each and keep nothing: they are requests of the
  abstract server in `CmdService`. They and the configuration tables they fill are the larger part
  of the two files the map leaves out.
- *Start-up, configuration and board files* are pure I/O before the modelled behaviour begins.
- *Copies*: `virtnetif_lwipif.c` and `main.c` exist once per board; the ones in
  `apps/app_remoteswitchcfg_client` and `apps/app_remoteswitchcfg_server` themselves are modelled,
  not those in their `sitara` and board directories.
- *Outside the repository*: the TSN stack, lwIP, the Enet driver, Unity. The driver appears as
  commands that succeed or fail. `ethfw_tsn.c` is start-up glue: its stop followed by a start of the
  time sync starts nothing (841, 1220-1246), and its deInit deletes a log task that may hold the
  mutex (807-839).
- *IET and port mirroring* set registers; *time sync* is floating point arithmetic; *inter-VLAN and
  switch demos* are stateless; the *tap device* pumps packets.
- *AVTP's shared memory ring* (`shm_cirbuf.c`) has no flow control: its writer never looks at the
  reader (158), and there is nothing to promise about it.
- *QNX's variant* of the client mailbox (`QNX_OS`) and the endpoint of AUTOSAR clients. The tables
  of `ethfw_mcast.c` have no mutex although AUTOSAR clients have tasks of their own: `Mcast` covers
  the RPMsg clients' task only.
- `LogRing` leaves out time stamps, a restart of the reader's core and `CpuSync`; `RemoteService`
  leaves out a restart of a core, after which a stale answer would be taken for the first call's.

## 7. Plan

1. `McastTasks`: the filter with its calls split at the driver calls, one task per AUTOSAR client, to say which
   of its properties a lock around the tables would bring back.
2. `Recovery` with the ARP table in place of its emptiness, and the VEPA table beside it.
3. An abstract call, sent once and answered or timed out, implemented by `CmdService` with one handle.
