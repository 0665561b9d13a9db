# Verification of gzrq: the agents of the residential managers

gzrq connects *residential managers* (小区管理机, gateways on a housing estate)
to a Cumulocity IoT platform. A manager opens a TCP connection to the agent and
registers; behind it are *collectors* (集中器), behind a collector are gas
meters (表具). The platform pushes *operations* ("collect all data", "collect
single data", "download dinfo"); the agent turns each into requests on the
manager's connection and the replies into measurements and status reports.
There are two agents with the same structure, for ad-hoc-network managers
(`gzrq_QJ_AdHocNetwork`, **AH** below) and for integrated machines
(`gzrq_QJ_integratedMachine`, **IM**).

## 1. Inventory

| component | state it keeps | operations | interacts with |
|---|---|---|---|
| Acceptor, thread pool (`io_service_thread.*`) | one session object that is accepting; two threads running one `io_service` | `StartHandleAccept`, `ProcessAccept` | creates sessions; runs every completion handler |
| Session, frame reader, deadline (`client_session.*`) | socket, `_sid`, `_did`, read buffer, `_n_flag`, operation ids and frame numbers per collector, deadline timer | `ReadReg`/`OnReadReg`, `Read`/`OnRead`, `ReadSpec`/`OnReadSpec`, `sendToClient`/`onWrite`, `check_deadline` | its own read chain, writes started by the main thread, HTTP calls |
| Registry (globals of `client_session.cc`) | `manager_sid_to_ptr`, `manager_did_to_sid`, `io_mutex`, ... | `regDev` (under `io_mutex`), `clrSession` (not) | two pool threads and the main thread |
| Operation handler (`agent_msg_handler.cc`) | none of its own | `operator()` on the main thread, for operation 505 | HTTP lookups, registry, session |
| Group reading (`send_all_ack.cc`) | in the session | `getBuf`, `getPollBuf`, `getAllBuf`, `sendPollAck`, `sendAllAck`, `sendMeData` | session, platform |
| Meter table download (`send_dinfo_ack.cc`) | in the session | `getAllBuf`, `getStopBuf`, `sendDinfoAck` | handler (loop over frames), session |
| Single reading (`send_single_ack.cc`) | `_co_did` of the session | `getBuf`, `getPickUpBuf`, `sendSingleAck` | session, platform |
| Manager data, clock, errors (`send_mgdinfo_ack.cc`, `send_gettm_ack.cc`, `send_checktm_ack.cc`, `send_error_ack.cc`) | none | one reply handler each | session, platform |
| Codec and lookups (`util.cc`) | none | `hexToAsc`, `hexToAscii`, `findRN`, `addCheck`, `getSid` | all of the above |
| Process (`main.cc`, `integrate.cc`, `cpuinfo.cc`) | none | start, integration, CPU figures; restarted by `srwatchdogd` | Cumulocity library |

The integrated machine differs where its managers do: its frames are binary and
have no line before them, it has no deadline, a single reading takes one
request, `clrSession` closes the socket and forgets less, and its `operator()`
calls `cs->sendToClient` with a null pointer wherever it looked up no session.

What is hard here: session objects are kept alive by completion handlers while
the registry and the main thread hold raw pointers to them; three threads use
the registry and one HTTP object, mostly without a lock; a manager may be cut
off without notice and come back at once; the read chain guesses from a flag
how the next bytes are framed; long handlers (HTTP calls, a sleep of 15 s) run
on the pool's two threads; several frame numbers are bytes that wrap and are
reset. `PROJECT.json`, "hazards", lists each with its line.

What makes the components correct:

- registry: an entry points to a living session of the right manager; an online
  manager is found; a lost one is forgotten; no second managed object for a manager that has one;
- handler: an operation is sent to the addressee's session only;
- group reading: each block once, in order, and SUCCESSFUL only when the last
  has come; no frame cut wrongly; no request taken for a repetition; the
  operation ends;
- single reading: an operation ends by its own meter's result, and shows it;
- download: the collector has the whole table when success is reported;
- frame reader: handlers get every reply whole, once and in order, and a silent
  session is closed.

## 2. Modules

| module | models | builds on |
|---|---|---|
| `ManagerSessions` | acceptor, registration, registry, removal, operation routing, restart (both agents) | |
| `ManagerSessions_proof` | its theorems, whatever fails | `ManagerSessions`, TLAPS |
| `ManagerSessionsOrderly_proof` | its theorems for managers that reconnect in order | `ManagerSessions_proof` |
| `GroupRead` | abstract: what a group reading promises | |
| `CollectAll` | group reading over one session (AH; IM with `Integrated`) | instantiates `GroupRead` as `Promise` |
| `CollectAll_proof` | theorems that hold however operations overlap, for both agents | `CollectAll`, TLAPS |
| `CollectAllSerial_proof` | theorems for one operation at a time, with the refinement of `GroupRead` | `CollectAll_proof` |
| `SingleRead` | single readings over one session: request, RECEIVE, PICK-UP, result (both agents) | |
| `SingleRead_proof` | its theorems for one reading at a time | `SingleRead`, TLAPS |
| `DinfoDownload` | download of a meter table over one session (AH) | |
| `DinfoDownload_proof` | its theorems | `DinfoDownload`, TLAPS |
| `ReplyChannel` | abstract: what a read chain promises to the handlers | |
| `AdHocReader` | the read chain byte for byte, and the deadline (AH) | instantiates `ReplyChannel` as `Channel` |
| `AdHocReader_proof` | its theorems, with the refinement of `ReplyChannel` | `AdHocReader`, TLAPS |
| `IntegratedReader` | the read chain byte for byte (IM) | instantiates `ReplyChannel` as `Channel` |
| `IntegratedReader_proof` | its theorems, with the refinement of `ReplyChannel` | `IntegratedReader`, TLAPS |
| `MC_ManagerSessions`, `MC_CollectAll` | symmetry for TLC | |

The modules meet in two places. `ManagerSessions` says which session an operation
goes to; `CollectAll`, `SingleRead` and `DinfoDownload` start from there, with the
session's loss and the manager's return as `ConnectionLost`, `ReadError` and
`Reconnect`. They treat a reply as one element of a queue; that the bytes come
out of the read chain that way is what the readers show (`ReplyChannel`), and where
they do not, `CollectAll` has `Misread`.

### ManagerSessions

A session is an address in `Session`. Its object exists (`Alive`) while a
completion handler holds its `shared_ptr`: a pending accept or read
(`awaits`), an outstanding write (`writes`), or a handler that is running
(`thread`). `sidToPtr` and the main thread's `handler.cs` hold bare addresses
and do not keep it alive; `ProcessAccept` allocates a new object at any address
that is not in use, with `ReuseAddress` also at one that is still stored.

Each pool thread is a record in `thread`. A handler without an inner blocking
call is a single action, enabled while some thread is idle. `regDev` and
`clrSession` are jobs with a step per HTTP call and per map update, so that
other threads and the main thread come in between:

| code | actions |
|---|---|
| `OnReadReg`, `regDev`, `getSid` | `OnReadReg`, `RegLock`, `RegFind` (100), `RegCreate` (133), `RegBind` (102), `RegMap`, `RegPtr` |
| `clrSession` after a failed read or write | `OnReadError`/`OnWriteError`, `ClrDid` (AH) or `ClrSocket` (IM), `ClrSid` |
| `check_deadline` | `CheckDeadline` (AH) |
| `operator()` up to the lookup; `sendToClient` | `HandlerLookup`; `HandlerSend` |
| `operator()` with a null session | nothing (AH), `HandlerDies` (IM) |
| `srwatchdogd` | `Restart`; what is lost is `Reboot` |

The constant `Agents` says which agents are considered, `agent` which one runs.
IM's `clrSession` is given no did: it closes the socket, so that the read chain of a
session whose write failed ends too and clears once more, and the manager's
entry of `didToSid` stays.

The platform is two maps: `made` (the manager each managed object was created
for) and `bound` (external id to object). `_http` errors are the `PlatformFails`
branches: the sid stays empty, and the code goes on. An absent map entry and
the null or empty value that `operator[]` inserts are the same value.

`ptr`, `manager_sid_to_did`, and the collector and meter maps are left out:
they are only counted or logged, or nothing fills them.

### CollectAll

One session. The two queues are the connection; a reply is one element, read
as a short frame (`OnRead`, `checkMsgType`) or as a long one (`OnReadSpec`)
according to `n_flag`. A reply taken by the wrong reader is `Misread`, after which
bytes are discarded until the chain may be at a frame's start again
(`Discard`). `sendAllAck` is `Data`, `Upload`, `FetchMore`, or `Last`, `Upload`; its
HTTP calls make it long, so the main thread may act between the steps. Of a
block with more meters than its debug output can count (`PrintEnds`) nothing is
uploaded: the handler never ends (`PrintForever`). `Upload` is `sendMeData`: with
`LookupFails` a reading whose meter is not found is thrown away, and the
operation is then in `incomplete`, whatever its status.
`Integrated` selects where `n_flag` is cleared (`FlagBefore`, `FlagAfter`) and what a
failed lookup does: `CollectUnresolved` leaves the operation EXECUTING (AH),
`CollectUnresolvedDies` ends the process with its sessions (IM). When only the collector's number is not found, `Collect` addresses the start to
collector 0, where nobody answers (`MgrNobody`). The
sleep on a busy collector is the step between `Busy` and `PollAgain`. The
manager and collectors are external: they answer requests in turn, and send the
same block again when asked with the number they were last asked with. Any
request may be refused (`MgrRefuse`); the refusal of a fetch comes where a block is
due, and is misread.

`Collect` is one step for the handler's assignments and its first request; with
`Overlap` the read chain may act before and after it, not within.
`status`, `target`, `size`, `uploaded` and `incomplete` have the same meaning in `GroupRead`, so
the refinement mapping is the identity on them.

### SingleRead

One session again, with the same two queues. What ties the messages of a
reading together is kept in the session: `coDid` (`_co_did`), the collector PICK-UP
is addressed to, and `opsid` (`_codid_to_opsid`), the operation a result of a
collector is reported for.

| code | actions |
|---|---|
| `operator()`, "collect single data" | `ReadMeter`; not online: `ReadOffline` (AH, reported), `ReadOfflineUnreported` (IM); a failed lookup: `ReadUnresolved` (AH), `ReadUnresolvedDies` (IM) |
| `checkMsgType` with `getPickUpBuf` (AH) | `Receive` |
| `sendSingleAck` before and after its lookups | `Result`; `Report` (AH), `ReportIntegrated` (IM) |
| `sendErrorAck` | `Refused` |
| the manager (external) | `MgrRead`, `MgrPickUp` (AH), `MgrReadAtOnce` (IM), `MgrRefuse` |

The lookups are sets of answers (`MeterNumbers` for 136, `Lookups` for 100 and 135):
the right one and, with `LookupFails`, those that leave a value empty. `device` and
`readings` are what the platform stores for a meter: `c8y_OperationStatus` (message
113) and the number of values (messages 200 and 204). `home` is the collector of
each meter; every assignment is an initial state. Wheel and valve values are
left out.

### DinfoDownload

The loop of `operator()` over frames is `t`; `SendFrame` is one pass. Sizes and
numbers have the code's widths: `U8` for `times`, `quantity` and the frame
number, `U32` for the unsigned difference in `getAllBuf` (any modulus above the
sizes that occur behaves like 2^32, which TLC's integers cannot hold). `Begin`,
`BeginOffline` and `BeginUnresolved` are the branches of `operator()`; when the lookup
of the collector's number fails (`found`), the frames are addressed to collector 0.
Frames are answered, ended and reported (`BatchAck`, `StopAck`) while the loop is
still building others. Two history variables tell what a property may rely on:
`refused`, whether a command of the current download was refused, and
`unanswered`, the downloads of the session of which a command was refused or
addressed to collector 0; `_dinfo_frame_number` is only reset by an end that is
acknowledged.

### AdHocReader and IntegratedReader

The read chain of one session, from the accepted connection to the failed read.
`stream` is what the manager has sent, as items with a kind, a length byte and
their place among the bytes, and `replies` the replies among them; `from` and `taken` delimit the part of it that is in
`_data`, so that every byte the code looks at (`Byte`, `SecondByte`) has its real
value, whichever item it belongs to. A read (`pc`, `rd`) returns any number of bytes
up to what was asked for (`Chunks`).

| code | actions and operators |
|---|---|
| `OnReadReg`, `OnRead`, `OnReadSpec` | `OnReadReg(n)`, `OnRead(n)`, `OnReadSpec(n)` with n bytes |
| `checkHeartBeat`, `checkMsgType`, `findRN` (AH) | `HeartBeat`, `CheckMsgType`, `FindRN` |
| the handlers: what they do to the chain | `Handle`, then `Handled`; `n_flag` as `sendPollAck` and `sendAllAck` set it (`FlagAfter`, `FlagAfterBlock`) |
| the debug output in `sendAllAck` with its u8 counter | `PrintEnds`: a loop without end has `pc = "loop"` |
| `async_wait`, `expires_from_now`, `check_deadline` (AH) | `wait`, `expiry`; `Expires`, `WaitEnds`, `TimePasses`, `CheckDeadline` |

A handler is given what the code takes for one reply. If that is an item of the
stream, `handled` gets its kind, otherwise `"cut"`. The refinement mapping to
`ReplyChannel` takes the kinds of the replies (`sent <- Sent`) and is the identity
on `handled`; a reply cut, lost, repeated or overtaken has no
counterpart there.

The manager is external. The conditions on it are constants: whether a reply may
be sent before the last was handled (`Pipelined`), a heartbeat between a line and
its reply (`BeatInside`), a refusal where a block is due (`BlockRefused`), more than
one block (`ManyBlocks`).

## 3. What the runs show

All runs set CHECK_DEADLOCK FALSE: the system may stop, when no manager connects
any more after an accept error, when all operations are done, or when a session
has ended.

| run | bounds | result |
|---|---|---|
| `sessions_orderly` | both agents; 3 addresses, 2 threads, 2 managers, 2 objects; restarts | types; an online manager is always found; an operation goes to its addressee |
| `sessions_faulty` | the same, calls fail, managers reconnect at once | entries point to living sessions; routes reach the addressee; no second managed object is created; `IndInv` |
| `sessions_live` | AH; 3 addresses, 2 threads, 1 manager | a lost session leaves the registry; a registration ends |
| `collect_serial` | AH; 2 collectors, 2 operations, 1 to 4 blocks of 13 or 14 meters, frame numbers up to 3; drops, refusals of any request, failing lookups of collectors and meters | `GroupRead` is implemented; all but refusals are cut rightly; fetches are fresh; a collection ends with all its blocks, unless lost, refused or with a block of 14 meters; what is reported is uploaded |
| `collect_overlap` | IM; 2 collectors, 3 operations in any overlap, 1 or 2 blocks of 13 or 14 meters; drops, refusals, failing lookups | reports go to an operation of the right collector |
| `single_serial` | both agents; 2 meters behind one or two collectors, 3 readings; drops, refusals, failing lookups | a SUCCESSFUL reading has its value; operations end by their own meter's result, and (IM) the meter shows it; a reading ends, unless lost, refused or not found |
| `dinfo_tables` | tables of up to 31 meters (4 frames), 3 downloads; drops, refusals, failing lookups | success means stored, unless a command of several frames was refused; numbering; a download ends, unless lost or refused |
| `reader_ad_hoc` | 3 replies among `receive`, `ready`, a block or last block of 1 meter, 1 heartbeat, lines of 4 or 11 bytes; reads of 1 byte or of all there is | `ReplyChannel` is implemented; reads fit the buffer and are never empty; every reply is handled; a silent session is closed while a wait is pending |
| `reader_integrated` | 3 replies among four short ones and last blocks of 1, 4 and 13 meters, 1 heartbeat, replies may queue up | the same without the deadline, for collections of one block |

Why the bounds are enough: three addresses give a manager's old session, its
new one, and the object that is accepting, or the sessions of two managers;
two threads are the code's pool (`_tp(2)`). Two objects let a manager get two by
mistake, or two managers one each. One outstanding write per session (`MaxWrites`)
already makes read and write fail in both orders. Four blocks with numbers up
to 3 make a number wrap within an operation, and the next one starts over; the code's 255
is `MaxFrame`. Two operations, on one collector or on two, are one that ends, is
refused, lost or misread in any way and one that finds the session as that left it.
Thirteen meters are the largest block whose printing ends, fourteen the smallest
whose printing does not. `uploaded` is bounded by `MaxBlocks`, operations by `Op`, downloads by
`MaxDownloads`. Two meters are behind one collector, where their results meet in one
entry of `opsid`, or behind two, where `coDid` must change; a third reading follows
one that was refused or lost. Thirty-one meters make four
frames, so that the end of a download may be acknowledged after the first, before
and after the last, or more than once, while the loop goes on, and a number left behind
by one download may continue in the next; `U32` may be any modulus above the sizes that
occur.

In the readers, reads of one byte or of everything reach every length at which
the chain decides: one byte at a time stops at each, and everything overshoots
each. Three replies are what a collection of two blocks takes (ready, block,
last), or a handled reply between two others. Four is the shortest line the
reader can recognise, eleven the length it asks for first. One, four and thirteen
meters have a length byte below the header's length, above it, and the largest
for which the debug output ends. A larger instance of `AdHocReader`, in which the
lines of one manager differ in length, holds as well but takes too long to be
kept as a run.

Violation runs, each a disagreement between the code and its own comments:

| run | what TLC finds |
|---|---|
| `sessions_late_clear` | a manager has two sessions under one sid; the old one's registration ends last and takes the entry, or its `clrSession` erases it: the new session is online, but reported 不在线 |
| `collect_integrated` | IM clears `_n_flag` after it was set for the next block, which is then cut as a short frame |
| `reader_deadline` | the deadline's wait, started before an expiry is set, ends before the first read and starts no other: the session reads without a deadline |

### Conditions

Properties claimed under conditions the code does not enforce, because they
fail without. Each was tried with TLC.

- `OnlineManagerRoutable`: no early reconnection (`PromptReconnect`, the run above),
  and a platform that answers.
- `DeliveryMatchesAddressee`: a platform that answers, since a failed registration is filed
  under the empty sid and receives operations of unregistered managers; and no
  address that is used again while it is stored (`ReuseAddress`), since the main
  thread's pointer may outlive its session.
- `NeverMisread`, `FetchIsFresh`, `GroupReadHolds`, `ReportedIsUploaded`: one
  collection at a time on a session (the second resets what the first relies on).
- `NeverMisread` also needs that nothing else is asked of the manager meanwhile
  (a reply of another kind would come where a block is due), and the ad-hoc agent
  (`collect_integrated`). It does not speak of refusals: that of a fetch finds
  `_n_flag` = 1 and is misread (`client_session.cc:446`); what comes after it is
  not. `FetchIsFresh` and `GroupReadHolds` are proved for IM as well: a block that
  is misread ends the collection without a report.
- `GroupReadHolds` does not promise every reading: one whose meter is not found is
  missing from an operation that is SUCCESSFUL (`send_all_ack.cc:321`).
- `CollectionEnds`: once a start is on its way to the collector; not after a refusal
  or a lost connection, nor with a block of 14 meters or more, whose printing never ends
  (`send_all_ack.cc:228`). `ReadingEnds`: not after a refusal, a lost connection or a
  failed lookup. Nothing reports the operation then.
- `SuccessHasReading`, `EndsByOwnResult`, `DeviceShowsOutcome`: one reading at a time (a
  second one changes `coDid` before the first is picked up, or takes the
  collector's entry of `opsid`). `DeviceShowsOutcome` is claimed for IM: in AH the line that
  would tell the meter of a failure is a statement that does nothing
  (`send_single_ack.cc:176-177`), so that it shows EXECUTING for ever.
- `SuccessMeansStored`: unless the collector refused a command of a download of several
  frames: the acknowledgement of a later frame then ends the download without the
  first. A report comes as early as the first acknowledgement, and is right
  only because the first frame carries the whole table (`Quantity`,
  `send_dinfo_ack.cc:29`); the others carry as many entries, read past its end. What these
  are the property does not say for tables of several frames; from 55 meters
  on a frame is written past the end of `w_buf` as well, which is not modelled.
- `FramesNumberedFromOne`: unless an earlier download of the session had a command
  refused or addressed to collector 0, since its number may then not have been reset.
- `DownloadEnds`: once a frame is on its way (an empty table has none), unless it is
  refused or lost.
- `RepliesHandled`: blocks of up to 13 meters; with 14 the debug output never ends.
  No refusal where a block is due: the reader then takes the refusal for a
  block. In AH no heartbeat between a line and its reply.
- `RepliesKept`: in AH a reply is sent only when the last was handled, since the
  reader discards what it has read beyond a reply; in IM replies may queue up, but
  a collection has one block.
- `ReadFits`: blocks of up to 17 meters in AH (57 bytes each, of the 1024 of `_data`)
  and 53 in IM (19 each); the code takes the length byte as it comes.
- `SilentSessionClosed`: while a wait is pending, which `reader_deadline` shows need not be.

### Fairness

`ManagerSessions`: a thread keeps running the job it is in and HTTP calls
return (weak fairness of `JobStep`). The wait for `io_mutex` and the queue of the
`io_service` serve waiters in turn, so a waiting thread (`RegLock`) and a failed
read (`OnReadError`) get their turn although others come in between (strong
fairness). The environment, the acceptor and the main thread are not fair.
`sessions_live` considers the ad-hoc agent: the two properties are about the
registration and the removal of entries, which the agents share, and both
agents together take too long.

`CollectAll` and `SingleRead`: the read chain and the manager go on; in `CollectAll` a
collector is not busy for ever (strong fairness of `MgrReady`). `DinfoDownload`: the
loop, the read chain and the collector go on.

The readers: what was sent arrives and is read and handlers end (weak fairness
of `ReadChain`), and time passes (weak fairness of `Deadline` in AH). Nothing is
assumed of the manager.

## 4. What is proved

`ManagerSessions_proof`, for any finite or infinite constants that satisfy
`ConstantsAssumption`:

- `Invariance`: `Spec => []IndInv`. `RegistryPointsAtLive` is not inductive: that an
  entry's object is alive depends on what keeps it so. `EntryInv` says that an
  entry's session is being read, or a thread is about to clear it;
  `RegistrationInv` that an object's registration is the only thing that runs for
  it, so that nothing can clear an entry before it is made or make one after;
  `OwnerInv` that a sid is only ever held for the manager it was made for.
  One lemma for the initial state, one step per action; it covers both
  agents and the restarts, of which IM's own (`HandlerDies`) is one.
- `TypeCorrect`, `RegistrySafe`, `RoutesSafe`: consequences of `IndInv`.
- `CreationSafe`: `CreatedOnlyIfNone`, from a second invariant: a thread that has asked
  the platform for a manager holds `io_mutex` (`MutexInv`), and the manager is still
  unbound when the object is created and when it is bound (`ObjectInv`).
- `OneObject`: with no failing calls and no restarts, an object is bound or about
  to be, so that a manager has at most one. A call that fails between creation
  and binding leaves an object behind and the next registration makes another.

The proofs cover `ReuseAddress`, which the passing runs leave FALSE: with it the
state space of `sessions_faulty` is out of TLC's reach.

`ManagerSessionsOrderly_proof`, under `Orderly`: the platform answers, a manager connects
again only when the object of its last session is gone, and a stored address is
not used again; either agent, with restarts.

- `OnlineIsRoutable` (`OnlineManagerRoutable`), `DeliverySafe` (`DeliveryMatchesAddressee`). The
  invariant adds to `IndInv` that a manager has one living session at most
  (`PeerInv`), that a session is unknown to the registry, to the main thread and to
  the threads that clear until it is registered (`FreshInv`), and that a manager's
  entries are those of its session (`RouteInv`). Then nothing but the end of the
  session itself takes them away, and only when its connection is gone.

`CollectAll_proof`, whatever `Overlap`, `Integrated`, `Drops` and `Refusals` are:

- `CollectTyped`: `TypeOK` is not inductive, because the number of the last fetch is
  0 before there was one. `TypeInv` adds that a fetch is never numbered 0
  (`FrameNoChanges`, the fact about `allFrameNum`), that only data frames carry
  blocks, and that a collector has sent no more blocks than it has.
- `ReportsSafe`: `setOpsId` stores an operation only when it has just been
  begun, so `ReportsMatchCollector` is inductive, and the end of a collection
  never meets an operation that is `FAILED`, nor does IM's death revive one.

`CollectAllSerial_proof`, under `Serial`: operations do not overlap; either agent, but
`FramesKept` needs the ad-hoc one (`AdHoc`). None of the three properties is inductive. The invariant
is that of a token (`Token`): at most one request, one reply or one handler's job
exists, and which one it is determines `_n_flag`, the frame numbers on both sides,
how many blocks are uploaded and whether the operation is reported. One lemma
says what the holder of the token knows (`HoldsRequest`, `HoldsReply`, `HoldsJob`),
one that it is passed on (`PassesRequest`, `PassesReply`), and one step per action
follows from them. A refusal is a reply of which the token says nothing; when it is
that of a fetch the token is lost with it, as it is with a start that nobody answers, and
`_n_flag` is 0 until the chain is at a frame's start again, so that the next operation
finds the session at rest. So it is with a block that IM misreads: there `_n_flag` is
known only outside the handling of blocks. A handler that prints for ever keeps the
token for ever.

- `FramesKept` (`NeverMisread`, for every reply but a refusal), `FetchSafe` (`FetchIsFresh`).
- `Implements`: `Spec => GroupReadHolds`. `Last` is `Complete` and `Upload` is `Upload`, for
  the operation the token belongs to, with a reading missing only where a lookup may
  fail; `Collect` and `CollectUnresolved` are `Begin`,
  and so is IM's death on a failed lookup; `CollectOffline` is `Refuse`; everything else
  leaves the ledger alone.

`SingleRead_proof`, under `Serial`: readings do not overlap and there are finitely many
operations; either agent.

- `ReadingTyped`, `SuccessSafe` (`SuccessHasReading`), `EndsSafe` (`EndsByOwnResult`), `OutcomeShown`
  (`DeviceShowsOutcome`). The argument is again that of a token (`Token`): at most one
  request, reply or report is under way; while there is one, the operation stored
  for the collector `coDid` is EXECUTING, its meter is behind that collector, and any
  number in the token or at the collector is that meter's or none (`InProgress`,
  `Names`). `Counted` relates the values at a meter to the operations on it, which is
  what bounds `readings` and needs the theorems about finite sets.

`DinfoDownload_proof`:

- `DownloadTyped` (`TypeOK`), for tables of up to 2540 meters (`LoopEnds`): `times` is then at most 254, and
  the u8 loop stops at the last frame.
- `SuccessSafe` (`SuccessMeansStored`) and `NumberingSafe` (`FramesNumberedFromOne`), for tables of
  up to 54 meters (`FrameFits`), whose frames fit the buffer they are built in, and any
  number of downloads. Commands are answered in the order in which they are sent. As long as
  the collector does not have the table, the command it gets next carries
  all of it (`FirstFrame`: the first frame, or in a table of one frame any), so that an
  answer, an end command and a report mean that it has been stored (`AnswerOK`,
  `CommandOK`, `TableInv`), unless a command of several frames was refused. The
  frame number is never more than the number of frames built (`NumberInv`), because an end
  only resets it; and when nothing is under way it is 0, because every frame is
  answered with an end, so that the last end comes after the last frame.

`AdHocReader_proof`, under `OneByOne` (a reply is sent when the last was handled,
directly after its line, and no block is refused), and `IntegratedReader_proof`, under
`OneBlock` (collections of one block, no block is refused; replies queue up): for
lines of 4 to 11 bytes, blocks of any number of meters, reads that return any number of
bytes up to what was asked for (`MaxChunk`), and any number of heartbeats.

- `ReaderTyped` (`TypeOK`), `ReadsFit` (`ReadFits`, with `BlocksFit`), `ReaderImplementsChannel`
  (`RepliesKept`): a handler called is `Channel!Handle`, everything else leaves the
  channel alone or is `Channel!Send`.
- None is inductive: whether a handler gets a whole reply depends on where `_data`
  begins, and that on every read since. The invariant has four parts. `StreamInv`:
  the items follow each other without a gap; in AH a line stands before each reply and
  nowhere else. `RepliesInv`: the replies are items of the stream, and a block is what
  follows `ready` or a block that is not the last. `HandledInv`: what was handled is the
  beginning of what was sent, and the reply after it is the first behind `_data`'s
  beginning; from it follows that no reply is lost, repeated or overtaken.
  It also ties `n_flag` to the kind handled last. `BufferInv`: `_data` begins where an item
  begins, and what is asked for follows from that item and how much of it is there.
- The readers differ in that last part. In IM no more is asked for than the item
  has (the ten bytes first asked for are the shortest reply), so that what is
  discarded after a handler is that item. In AH more may be asked for: 26 bytes
  where a line may be 4, so that with the line's end come the first bytes of the
  reply; they are moved to the front (`LineRemoved`: `FindRN` finds the line's end and
  no earlier one), and less remains than the shortest reply has. What is read beyond a
  reply and discarded with it can only be heartbeats, because nothing else is sent
  before the reply is handled.
- In AH the invariant includes the deadline (`TimerInv`), which decides when the
  reads end. That it is always armed (`DeadlineArmed`) is not so: `reader_deadline`.

Only model-checked: the liveness properties, which are beyond the prover (fairness,
ENABLED).

## 5. What is not modelled

- Base data and clock of a manager (`send_mgdinfo_ack.cc`, `send_gettm_ack.cc`,
  `send_checktm_ack.cc`): no operation of AH starts them, and in IM they die on the
  null pointer before anything is sent (`HandlerDies`), as its downloads do. Their
  acknowledgements would answer frames nothing requests.
- What requests are made of: headers, hexadecimal text (`hexToAsc`), checksums
  (`addCheck`). The readers model what replies are made of, as far as it is looked at.
- Data races as such: each map operation and each HTTP call is one step, and the
  one HTTP object of the process answers whoever asks.
- Partial writes and the lifetime of write buffers, and a timer's handler that
  outlives its session.
- The values of a reading: wheels, valve, the alarms of an abnormal status.
- `ptr`, which is only counted, and the collector and meter maps, which nothing fills.
- The Cumulocity library, configuration, build files, the watchdog binary.

## 6. Plan

Done: the modules of section 2. What is left, in order:

1. A composition of `ManagerSessions` and `CollectAll` through a manager's
   reconnection, with two sessions of one manager under one sid.
2. `DinfoDownload` with overlapping downloads and several collectors, and with what is
   written past the end of `w_buf`.
3. An abstract specification of the registry, which manager is reached through which
   session, implemented by `ManagerSessions` under `Orderly`, with its theorem.
4. `WireCodec`: `hexToAsc`, `addCheck` and the requests' lengths, as functions checked
   against reference definitions.
5. The HTTP object shared by three threads, as a request and a response that may
   be another's.
