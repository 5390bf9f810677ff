# Verification of Broadcast Box

Broadcast Box is a WebRTC live-streaming server in Go: a publisher sends its
stream by WHIP, viewers get it by WHEP, and around the streams there are a chat,
reactions, clips and notifications.  This directory holds TLA+ models of its
core, the TLC configurations that check them on small instances, and theorems
about them that TLAPS proves for every instance.

All paths below are relative to `internal/` of the repository unless they start
with another directory.

## 1. The system

| Part | Where | State it keeps | Operations |
|---|---|---|---|
| Stream session | `webrtc/sessions/session` | `Host`, `HasHost`, `WHEPSessions`, `closeOnce` | `AddHost`, `RemoveHost`, `AddWHEP`, `handleHostClosed`, `handleWHEPClose`, `close` |
| Session manager | `webrtc/sessions/manager` | map from stream key to session | `GetOrAddSession`, look-ups, the callback that deletes a closed session |
| Publisher (host) | `webrtc/sessions/whip` | peer connection, tracks, time of the last packet, `WHEPSessionsSnapshot` | callbacks of the connection, one writer goroutine per track |
| Viewer | `webrtc/sessions/whep` | send queue, keyframe flag, layer and its priority | `QueueVideoPacket`, `runSender`, `SetVideoLayer`, `ResetForNewPublisher`, `Close` |
| Notifier | `notify` | channel of events, announced streams, timers | `Online`, `Offline`, `run` |
| Chat | `chat`, `webrtc/chatdc` | rooms, history, subscribers, sessions | `Connect`, `Subscribe`, `Send`, `Cleanup`; the data channel |
| SSN forwarder | `chat/ssn.go` | bounded queue, message in hand | `forward`, `run`, `serve` |
| Data channels | `webrtc/sessions/session/datachannels.go` | table of peers by viewer | `bind`, relaying, `closePeer` |
| Reactions | `webrtc/sessions/session/reactions.go` | pending counts, a timer | `handleReactionMessage`, `flushReactions` |
| Clip recorder | `clips/recorder.go` | bounded channel, rolling buffer of frames | its goroutine, `Reset`, `Snapshot`, `Close` |
| Clip service | `clips/service.go`, `storage.go` | drafts and their files, stored clips, cached lists, a limiter per client | `CreateDraft`, `Publish`, `Delete`, `List`, `Allow`, `cleanupLoop` |
| Clip formats | `clips/mkv.go`, `bitstream.go`, `resolution.go` | none beyond a call | plan and write a file, read headers of video |
| RTP packets | `webrtc/codecs`, `whip/writers.go`, `whep/packet_writer.go` | last numbers of a writer and of a viewer | keyframe tests, rewriting of numbers |
| GIF search | `gifs` | caches of answers and links, request budgets | `Search`, `Resolve` |
| Emotes | `emotes` | cached lists, the Twitch token | `ForStream` |
| Profiles | `server/authorization` | one file per stream key | create, read, update, reset, remove |
| HTTP handlers | `server` | none | translate requests into the calls above |

How they interact.  A WHIP or WHEP request looks its session up in the manager
(or makes one), sets up a peer connection and joins the session with `AddHost`
or `AddWHEP`.  From then on things happen in callbacks: the WebRTC library
reports lost connections on goroutines of its own, writer goroutines of the
publisher read packets and put them into the queues of the viewers listed in a
snapshot, and every viewer has a sender goroutine.  The last one to leave
closes the session, whose callback removes it from the manager.  A host that
connects or goes posts an event to the notifier, whose single goroutine turns
events and timers into webhook calls.

What is hard in it.  There is no lock over a whole session: `Host` is an atomic
pointer, `WHEPSessions` has a lock that is held for one access at a time, the
once-only parts are `sync.Once` bodies that call each other across objects, and
the callbacks of a connection may run before the call that registered them has
finished.  Queues are bounded and drop.  Timers race what would stop them.
Only clips and profiles are persisted: a crash loses everything else, and may cut off
the writing of these.

`PROJECT.json` lists every component, and under `hazards` the places where this
can go wrong, each with the properties that watch it or the reason why none does.

## 2. The modules

| Module | Models | Properties, theorems |
|---|---|---|
| `StreamSession` | one session, its publishers and viewers | `StreamSessionProofs` |
| `SessionViews` | the online flag and the list of viewers that are stored apart from the session they describe | `SessionViewsProofs` |
| `SessionManager` | the sessions of one stream key in the manager | `LifecyclesProofs` |
| `Notifier` | the notifier | `NotifierProofs` |
| `Announcer` | what the notifications promise of a stream | refined by `Notifier` |
| `ViewerSender` | the delivery of media to one viewer | `ViewerSenderProofs` |
| `ChatRoom` | the chat of one stream: its room and its data channels | `ChatRoomProofs` |
| `KeyframeRequests` | how a viewer that waits for a keyframe gets one | `RequestsSpaced`, `WaitingEnds`; `StreamSessionProofs` |
| `PacketNumbers` | the numbers of packets between a writer and the viewers | `NumbersKept`; `MediaProofs` |
| `RtpPayloads`, `Bitstreams` | what is read from payloads and from encoded video | `PayloadsRead` |
| `ClipRecorder` | the rolling buffer of a stream | `BufferKept`, `ClipsPlay`; `MediaProofs` |
| `ClipFrames` | the order of frames in a clip, its cut and its clusters | pure; used by the two beside it; `MediaProofs` |
| `MkvWriter` | the writing of a clip's file | `FileRight`; `MediaProofs` |
| `ClipDrafts` | drafts and their files | `DraftsKept`, `DraftsExpire`; `LifecyclesProofs` |
| `ClipStore` | published clips in the storage and the cached list | `ClipsKept`; `ServicesProofs` |
| `ClientLimiter` | the rate limit of a client | `RateKept`; `ServicesProofs` |
| `GifSearch` | GIF searches and links | `SearchesKept`; `ServicesProofs` |
| `EmoteLists` | lists of emotes and the Twitch token | `EmotesKept`; `ServicesProofs` |
| `ChatForwarder` | forwarding of chat to Social Stream Ninja | `MessagesKept`, `Handled`; `LifecyclesProofs` |
| `DataChannels` | the relay between data channels of a session | `ChannelsKept`; `ServicesProofs` |
| `Reactions` | the counting and sending of reactions | `ReactionsKept`, `AllTold`; `LifecyclesProofs` |
| `Profiles` | profile files and the streams that show them | `ProfilesKept`, `OthersKept`; `SessionViewsProofs` |

The later modules end in a *contract*: the conjunction of the named parts above
it, which is what a run checks.  What each part says is with the part.

Operators introduced by a comment "Slip:" are deliberately wrong variants of the
operator that follows them, the kind of mistake a change to the code could make.
They are in no specification.  Each property of a passing run has one that it is
violated by when it replaces the right operator (`mutants` in `PROJECT.json`):
that is how we know that the property can fail.

### StreamSession

Every call that runs on a goroutine of its own, and every body of a `sync.Once`,
is a *task* with a program counter `pc[t]`: `AddHost` of each WHIP request,
`handleHostClosed` inside each publisher's `closeOnce`, `AddWHEP` of each WHEP
request, `SessionClose` of each viewer, `Session.closeOnce`, and one WHIP
DELETE.  A step is an access to an atomic, a lock section or a call whose inside
no other goroutine can observe.  `at[t]` is the host pointer a task has loaded
and still uses, so a stale pointer is a pointer in `at` that differs from `host`.
The compare-and-swap of `removeHost` is `RemoveHostSwap`; what follows
(`RemovePeerConnection`, `RemoveTracks`, `StreamOffline`) are steps of the task
that won.  A caller of `Session.close` that finds `closeOnce` in use waits at
`waitClosed`, as `sync.Once` makes it do; a closer that calls `Close` of a viewer
whose `SessionClose` is already running waits at `waitViewer`.

A host or viewer stands for one request and is used once, since the code draws a
new UUID for each.  Time is abstract: `active` is the set of hosts with a packet
within `hostTakeoverTimeout`, and may lose a member whenever it likes.
`HostConnectionLost` is possible as soon as the callbacks are registered, which
is before the host is installed.  Media may come after the answer was sent, so
after `AddHost` has returned.  Media and silence matter only to a task that looks
at a host's tracks or activity next, so `HostMedia` and `HostSilent` are taken
only when there is one: the same observations in fewer states.

Left out: `HasHost` and the snapshot, which are derived from `host` and `viewers`,
read by nobody in this module and the subject of `SessionViews`; the recorder; texts; the set-up of the peer
connection before `AddHost` and `AddWHEP`.  Creating the offer's answer can
fail; a request that fails there has done nothing to the session.

### SessionViews

The snapshot of the viewers is what the publisher's writers range over, so a
viewer who is missing there sees nothing, whatever `WHEPSessions` says.  The module
keeps of a session's calls what changes `Host`, `WHEPSessions`, `HasHost` and the
snapshots: `updateHostWHEPSessionsSnapshot` is the three steps `LoadHost`,
`BuildSnapshot` and `StoreSnapshot` of whichever task runs it, between which all
other tasks may go on; the stores to `HasHost` are steps too.  That only one task
takes a host out was the subject of `StreamSession`; here `TakeOut` is the
task that succeeded, and `CloseViewers` runs through the closer's slice at once,
since no update happens in between.  `MaxBusy` bounds the calls under way at one time.

An update that overlaps another can leave either view wrong.  The properties
therefore except precisely those states, by two history variables: `disturbed`
are the hosts whose last snapshot was built before another one was stored, and
`contested` says that `Host` last changed while a store to `HasHost` from its
last change was outstanding.  `EveryViewerServed` is what is claimed without the
exception, and fails.

### SessionManager

The map `m.sessions` for one stream key.  Sessions are named by the request that
created them, so two sessions of one key can exist, which the code allows.
`GetSessionByID` and `AddSession` are the two lock sections of `GetOrAddSession`,
`Join` the later `AddHost` or `AddWHEP`, `Fail` any error in between, `Leave`,
`CheckEmpty`, `Close` and `OnClose` the way out.  Each of these is one step here
and several in `StreamSession`; what the manager adds is the map.

### Notifier and Announcer

`events` is the channel, `streams` the private map of `run`, `armed` the timers
that have not fired and `firing` the goroutines of fired timers that have still
to send: `Stop` removes a timer from the first set and does nothing to the
second, as `time.Timer.Stop` does.  `Enqueue` drops when the channel is full,
`SendConfirmed` blocks.  A webhook request may fail at any time, which the history
variable `failed` remembers for the properties, and posting on Discord returns a message ID that allows the message to
be edited.  `up` and `heard` are history variables: what the last call said of
a stream, and what `run` last heard; `lost` are the keys with a dropped event.

`Announcer` says what a reader of the chat may rely on: each stream is live, in
its grace period or ended, and only the grace period leads to the end.  `Notifier`
implements it under the mapping `Phase`, where a stream is in its grace period
when its timer field is set.

### ViewerSender

The writers (one per video layer) read packets, choose the viewer's layer under
`VideoLock` (`ReadPacket`) and put the packet into the queue later
(`QueueVideoPacket`); `runSender` takes a packet, tests the keyframe flag, clears
it and writes, each a step of its own.  `SetVideoLayer` changes the layer under
the lock and sets the flag afterwards (`MarkWaiting`).  A packet is its layer,
its number and whether it is a keyframe.  `masked` and `switched` are history
variables that say which situations `ResumesAtKeyframe` is not about.

Left out: keyframe requests (they change only what the publisher produces, and a
packet may be a keyframe at any time here; see `KeyframeRequests`), time stamps and
sequence numbers (see `PacketNumbers`), the end of the viewer.

### ChatRoom

The store's rooms for one stream key, and the data channels (`Peers`) of that
stream; rooms of different keys share nothing but the store's lock.  A room is
named by its number, as a room that expires is made anew by the next who comes.
`LookUpRoom` and `Subscribe` are the two lock sections of `SubscribeStream`,
`LookUpToSend` and `SendToRoom` those of `SendToStream`, and `Cleanup` is the
store's.  `AssignClose`, `SendConnected` and `SendHistory` are what is left of
`OnOpen`, and `SendEvent` and `LoopEnds` are the goroutine it starts.  The library
closes a channel first (`ChannelCloses`) and calls `OnClose` later, at any point of
`OnOpen`, and `OnClose` does nothing as long as `closeSubscription` has not been
assigned (`canClose`).  `SendText` fails on a channel that is not open, and may fail
at any other time, as it does when the history is too large for one message.

Messages are the numbers of their events.  `idle` stands for the clock: the room's
`lastActivity` is longer ago than the ttl.  It is assumed that the ttl is longer
than a call takes, so that no time passes in that sense between the two lock
sections of a call (`UnderWay`).  `got` (what a peer was sent) and `missed` (who had a
full channel when an event came) are history variables, and `Forget` clears them,
with what nobody will read any more, at the end of a subscription.

Left out: the validation and the rate limit of messages, which only decide
whether `OnMessage` sends; acknowledgements; the forwarder, which `SendToRoom` calls
after its lock section (see `ChatForwarder`); the session API of the store, which nothing but tests
calls.

### KeyframeRequests

`SendPLI` of a viewer and `SendPLI` of a publisher are two limiters in series, each a
load of the last time and a compare-and-swap that takes the slot.  A caller (the
viewer's callbacks, or its sender) stands at one of `viewer`, `find` and `host`
between them; `valid` says whether the value it has loaded is still the stored one,
and `now` how old its reading of the clock has become.  The publisher's slot is
taken before it is known whether the request can be sent, so slots are wasted
while no track is known.  Times are ages in half seconds, cut off at the interval.
That several tracks are asked at once, and that a publisher answers with a
keyframe, is `asked` and the next packet.  `NoKeyframeStorm` is about three
requests in a row and not two, because a slot is stamped with the beginning of the
call: two that pass may be closer together than the interval.

A queue holds one packet, and a keyframe of the publisher before may clear the flag
that `ResetForNewPublisher` has set, as in the code: `WaitingEnds` says that the wait
ends, `ViewerSender` what the viewer is then sent.

### PacketNumbers

`Read` is a writer's step with its differences and their wrap-around, modulo 2^16 in
the code and `Modulus` here; `Send` is `sendVideoPacket`, which writes the viewer's own
number into a copy of the shared header.  `NumbersFollow` says that a viewer sees
between two successive packets of one track the distance they arrived with, and
`SharedUnchanged` that no viewer sees another's number.  Where the code's test for
a packet that comes late looks at a tenth of the range, so does the model.

### Bitstreams and RtpPayloads

Pure functions over sequences of bytes and bits, with recursive functions where the
code has loops.  `Bitstreams` has the splitting at start codes, the removal of
emulation prevention, Exp-Golomb and LEB128 numbers, AV1 units and the H.264
parameter set with its picture size; `RtpPayloads` the keyframe tests of
`codecs/keyframe.go` and the look-ups of `clips/resolution.go`.  The reference they
are checked against is the encoder's side, written from the formats' standards.
The variables `data` and `sps` only enumerate inputs.  Pictures are legal ones: a
parameter set with cropping beyond the picture has no size to be right about.

### ClipFrames, ClipRecorder and MkvWriter

`ClipRecorder` has the channel that drops, the goroutine with one action per branch
of its handlers, and the trimming of the buffer.  A packet stands for a whole frame.
The time of a frame is any within the window (`Drift`) in which the code keeps a
sender's clock.  `mixed` remembers that a reset was dropped, or that a packet of the
old publisher came after the reset: then frames of two publishers are in one
buffer, and `OnePublisher` excepts it.  Three more things the code does can be seen
in the model and are no errors of it: without keyframes the buffer grows without
trimming; after a dropped reset the layer of the old publisher stays the one that is
recorded; and a best layer that pauses leaves the recording without pictures.

`ClipFrames` is what `muxMKV` and `selectFrames` do with frames, as functions that both
modules and `ClipsPlay` use.  A clip always plays if trimming has left a picture at the
front of the buffer, which is then a keyframe.  It need not if audio came first and
let in pictures before the first keyframe: `selectFrames` leaves out a keyframe that is later
than the chosen end, and keeps a picture behind it whose time is earlier, as it
may be when a sender's clock was anchored anew.  For such buffers `ClipsPlay` speaks of the
clips that do not end before the first keyframe, and of their start if it is not before.  `MkvWriter` plans a file (sizes, positions, cues) and
writes it block by block, in bytes counted.  Its frames are any sequence whose
first picture is a keyframe and none of whose pictures is earlier than the first
(`Plannable`): the muxer takes this for granted, as the time of a cluster is
unsigned, and `recorder_drafts` shows a draft that does not have the former.

### ClipDrafts, ClipStore and ClientLimiter

`ClipDrafts` follows a draft from the temporary file to its eviction or expiry, with
readers that have found a draft and not yet opened it, failing writes and a
restart.  `ClipStore` has `Publish` (two objects, the video first), `Delete` (both,
whatever the first said) and `List` (keys first, then one object at a time, then the
cache) with a failure at each call of the storage and a restart at any point.
`onS3` is the difference between the two storages: deleting what is not there is no
error on S3, and a failed save may have stored the object.  `tainted`, `behind` and
`unsure` are history variables for `CachedListRight`: a `List` that overlaps a change
may put back an old list, and one whose request is cancelled or whose storage fails
on one object caches a list without that clip; either stays until the next change or
until it expires.  `ClientLimiter` is the token bucket of a client, forgotten when
unseen; `granted` counts
the requests that were granted within each length of time up to now.

### GifSearch and EmoteLists

Both cache the answers of other services without holding a lock while they ask.  In
`GifSearch` a request asks its sources side by side (`part`), each step (`LookUp`,
`TakeRequest`, the answer) being one lock section; links are resolved by their page or
by a search.  `requests` are ages, cut off at an hour, and the history variable `sent`
counts the same requests apart from the list, within each length of time up to now.  In `EmoteLists` a fetch remembers the list it found (`previous`) and
caches that when it fails; `overtaken` are the requests during which another one has
cached a newer list, which they then take back, so `ListsKept` excepts them.

### ChatForwarder

The queue, the goroutine (`dialing`, `serving`, `sleeping`) with its doubling pause,
and the message in hand, which is written again after a reconnect.  `failed` are the
messages of which a write has failed: only they can arrive twice, since a failed
write may have been read.

That `WriteMessage` returns no error says that the connection has taken a message
(`Takes`), not that it arrives.  A connection may be broken (`Break`) without anything that
says so: the reader has no deadline, and nothing waits for the answer to a ping.  What
it takes then is neither delivered nor kept (`vanished`), until a write or a ping fails or
the read ends (`WriteFails`, `Lost`, both possible at any time).  `NoneLost` excepts these
messages by name.  A message that a connection took just
before it broke, and that did not get through, is one of these: `Break` stands for the
moment after which nothing arrives.  Left out: what is still on its way in a connection
that was closed, and arrives behind messages of the next one.

### DataChannels and Reactions

In `DataChannels` the handlers of a channel run in any order the library allows and
a viewer may open a second channel, so `removeDataChannelPeer` must not remove the
entry of a successor.  In `Reactions` counts are added under a lock and a timer takes them;
`timers` counts the timers that run, and `batches` are the messages on their way.

### Profiles

A profile is a file named by its key and its token, and no step but a single call of
the file system is atomic: `OpenFile` empties, `FillFile` fills, `WriteFails` and `Restart`
come in between.  A stream key is the sequence of its parts between underscores, as
the look-up by prefix lets the profile of `a_b` stand for that of `a`.  History variables
name what the code does not ensure: `twins` are keys that got a second profile by
two requests at once or by such a prefix, `torn` files that a cut-off write has
left, `unsettled` streams whose profile changed while they were starting.

## 3. The runs

Components that share no state are checked together where they ask the same kind of
question: `MCMedia`, `MCLifecycles`, `MCServices`, `MCSessionViews` and `MCSessionLiveness` have
the variables of several modules and a variable that names the one whose steps this
behaviour takes.  Its states are the disjoint union of the modules' states and not
their product, fairness is stated for each module's own behaviours, and a property
is about the behaviours of its own module.

Runs that pass:

| Run | Instance | Shows |
|---|---|---|
| `session_races` | 2 publishers, 2 viewers, 1 DELETE | `NoCloseCycle`, `OfflineReportedOnce`, `NoLeakedPublisher`, `LastOneOutCloses`, `ViewersAccountedFor` |
| `session_liveness` | session: 1 publisher, 2 viewers, limit 1; keyframes: 1 viewer with two callers, 2 publishers, 1 trouble | `EveryCallReturns`, `WaitingEnds`, `RequestsSpaced` |
| `session_views` | views: 2 publishers, 2 viewers, 3 calls at a time; profiles: 2 keys, one a prefix of the other, 2 requests, 1 crash or failed write | `SnapshotAtRest`, `OnlineAtRest`, `ProfilesKept`, `OthersKept` |
| `notifier` | 3 streams, 1 filtered out, 7 calls, channel of 2, failing webhook | the announcer is implemented, `OneLiveMessage`, `AnnouncedAtRest`, `EndedOnlyWhileOffline`, `EndedEventually` |
| `sender` | 2 layers with 5 and 2 packets, queue of 2, 1 change | `FirstIsKeyframe`, `ResumesAtKeyframe`, `NeverToWorseLayer` |
| `chat_room` | 2 data channels, history of 2, channel of 2, 2 rooms, 4 messages | `OneRoom`, `NoGap`, `SubscriptionGivenBack`, `RoomExpires` |
| `lifecycles` | sessions: 3 requests, 2 of publishers; drafts: 2 creators, 1 reader, 4 drafts, 2 kept; forwarder: 2 messages, queue of 1; reactions: 3 kinds, 2 to a message | `ClosedNotFound`, `NothingLeftBehind`, `DraftsKept`, `ReactionsKept`, `MessagesKept`, `NothingLingers` |
| `media` | recorder: 2 publishers, 2 layers, 3 packets, channel of 2; file: 4 frames; payloads: contents of 3 bytes of 7 values; numbers: 2 writers, 2 viewers, 3 packets modulo 16 | `BufferKept`, `ClipsPlay`, `FileRight`, `PayloadsRead`, `NumbersKept` |
| `services` | clips: 2, each published, deleted, listed (1 at most); limiter: burst of 2; GIFs: 2 requests, 2 sources, 2 links, 2 requests an hour; emotes: 2 lists, 2 requests, 2 tokens; 3 data channels of 2 viewers | `ClipsKept`, `RateKept`, `SearchesKept`, `EmotesKept`, `ChannelsKept` |

Runs that find a statement of the documentation or of a comment violated (each is
a finding in `PROJECT.json` that quotes the line):

| Run | The statement | What happens |
|---|---|---|
| `session_views_overlap` | `session.go:30`: add the viewer; README: viewers see what is streamed | the older of two overlapping snapshots is stored last, and the viewer is not in it |
| `manager_duplicate` | `manager.go:52`: get the stream or create it | two first requests make two sessions |
| `recorder_drafts` | `mkv.go:112`, `recorder.go:306`: the first picture is a keyframe | audio comes first, and lets pictures in before the first keyframe |

The bounds.  Two publishers and two viewers are the least for which a takeover,
two racing removals and a last viewer among others happen together.  The program
counters keep every state of every call, so nothing else is bounded in
`StreamSession`; `SessionManager` has a third request, as two of them are needed for
a second session and the third finds it.  In `SessionViews` at most `MaxBusy` = 3 calls are
under way at once: an overlap needs two, and the third is the one that changes
what they are about.  In `Notifier`, `MaxCalls` bounds the calls: seven
for three streams over a channel of two are enough for one stream to fill the channel
that another one's timer waits for, and for a stream to go, come back and go.  In
`ViewerSender` five packets of the better layer are enough to fill the queue of two,
drop, resume and drop again while the other layer's packets and a change come in
between.  In `ChatRoom` four messages are enough to drop the oldest from a history of
two while a subscription that has not begun to send fills its channel of two and
loses the next; two rooms are enough for one to expire and be made again.

In `KeyframeRequests` one viewer has two callers, which is what a race for a slot
needs, and the publisher's limiter is raced by requests that rest on the way; a
second publisher comes while requests to the first are under way.  In `ClipRecorder`
three packets and the resets overrun a channel of two, and a buffer of one unit is
trimmed by the third; in `MkvWriter` times and sizes are chosen on both sides of where a
cluster ends and where an element's size takes a second byte.  The bytes of
`Bitstreams` are those that are part of a start code, an escape or a header, and three of
them hold a whole start code.  In `PacketNumbers` the numbers lie at both ends of the
range.  In `ClipDrafts` four drafts are enough to evict two and expire one while a
reader waits.  In `ClientLimiter` the window is longer than the time after which a
client is forgotten.  In `GifSearch` and `EmoteLists` two requests overlap, a cache holds
one entry of those that compete for it, and two tokens or versions are one change.
In `ChatForwarder` two messages, one in hand and one in the queue, are enough for
a drop by age, by a full queue and by order, and for one to be lost; the pause doubles twice to its maximum.
In `Profiles` two requests race, and one fault cuts one of them off.

Symmetry is used for safety properties only.  Runs do not check for deadlock because all
requests end and the system is then at rest.

Statements that are weaker in the code than in the text, and have no run of their
own:

* The limit of viewers is compared (`whep.go:34`) long before the viewer is inserted
  (`session.go:46`), so that two who ask at one time both get in; the two steps
  are `JoinCheckLimit` and `JoinInsert`.
* A publisher that resumes between the activity test (`session.go:68`) and the
  takeover (`session.go:73`) is replaced although it is sending.
* "Remove all Hosts and clients before closing down session" (`session.go:164`): who
  joins after the closer has copied the map stays inside the closed session.
* "Skip ahead to the next keyframe so the decoder never receives a broken frame"
  (`sender.go:23`): a keyframe that was queued before the packets that were dropped
  clears the flag.  `ResumesAtKeyframe` excepts that (`masked`).
* A reconnect whose event is dropped because the channel is full (`notify.go:144`)
  does not stop the timer of the grace period; `AnnouncedAtRest` excepts such streams
  by name (`lost`).
* "When the connection to SSN drops, messages are queued and delivered when it's back"
  (`README.md:385` of the repository, and `ssn.go:36`): what is written to a connection that
  is broken, before anything says so, is taken without an error (`ssn.go:187`) and
  let go (`ssn.go:196`).  It is lost; `NoneLost` excepts it by name (`vanished`).
* "Clips start at the keyframe at or just before the chosen start, so they always play
  from the first frame" (`README.md:342` of the repository): a clip of a draft that begins
  with audio, and that ends before the first keyframe, may begin with a picture that is not
  one (`service.go:366`).  `ClipsPlay` is about all other clips.
* A stream can be announced as ended before its grace period is over
  (`README.md:361` of the repository says that it is not): generations start again
  at 0 in a new `liveStream` (`notify.go:177`), so that the event of an old timer, when it
  is delayed over a whole cycle of the stream, passes the test of
  `notify.go:206`.  `EndedOnlyWhileOffline` is what does hold.

Fairness.  `FairSpec` of `StreamSession` is weak fairness of every task's next
step: the Go scheduler runs every goroutine that can run.  What clients and
networks do (`Environment`) is not fair; nobody has to come or go.  `FairSpec` of
`Notifier` adds strong fairness for the goroutines of timers, which block on
the channel while others fill it: the runtime queues blocked senders in order, so
one that is waiting gets its place.
`FairSpec` of `ChatRoom` is weak fairness of every handler, of the cleanup's ticker
and of the passing of time; that a peer comes, sends or goes is not fair.
`KeyframeRequests` has weak fairness of the callers, of the sender goroutine, of the
passing of time, and of a publisher that stays and sends; that packets and requests
are lost is bounded, as nothing arrives where everything is lost.  `ClipDrafts` has
weak fairness of time and of `cleanupLoop`.  `Reactions` has that of the timer and of the
goroutines it starts.  `ChatForwarder` has weak fairness of time and of its goroutine,
and strong fairness of `Connect` and `Take`: the other end is reachable again and again
(else messages are dropped only when the queue is full), and a `select` with a
message, a ping and the end of the connection ready does not choose against
the message for ever.

## 4. What is proved

TLAPS proves the following for any number of publishers, viewers, requests, streams,
layers, data channels, drafts, clips and messages, any queue sizes, intervals and
settings.  Only the stream keys of `Profiles` are two, one of which begins with
the other; their requests, texts and tokens are any.

The assumptions are those the modules name, and TLC evaluates them: that bounds and
settings are natural numbers, that the nil values are no members of the sets and
audio is no video packet, and of the settings only what the code sees to:
`MaxDrafts` is at least 1 (`DraftsAssumption`), the forwarder's shortest pause is no
longer than its longest (`ForwarderAssumption`), a bucket is full again when its
client is forgotten (`LimiterAssumption`), a channel is one viewer's
(`ChannelsAssumption`), a file's contents differ from those of one cut off
(`ProfilesAssumption`), the number of a packet is less than the modulus
(`NumbersAssumption`), times are integers and sizes natural numbers
(`WriterAssumption`), an hour and a cache are not empty and the two sources differ
(`SearchesAssumption`; how long they are cached is `MCDuration`, as in the run).

The proof modules of composed runs (`MCLifecycles`, `MCMedia`, `MCServices`,
`MCSessionViews`, `MCSessionLiveness`) prove each contract of its module's own specification, then that
a behaviour of the composition is one of each part (`SpecOfEach`, `ProfilesOfAll`), and
conclude it of the specification that TLC checks (the theorems named `...Always`).

* **Type correctness** of every module with a theorem (`TypeCorrect`, and in the
  proof modules of several components `DraftsTypeCorrect` and the like).  In `StreamSession` it
  says that no task leaves the labels of its own code; in `Notifier` it needs the
  invariant `MessageCounted` beside it (a tracked stream with a message ID has a
  message), in `SessionManager` `Membership`.
* **No deadlock between the `sync.Once` bodies** (`CloseCycleFree`).  The
  inductive invariant is `ViewerPlaces`: a viewer is in the map, in the closer's
  slice or in neither, and only a `SessionClose` that found its viewer in the map
  may go on to `Session.close`.
* **A host is torn down and reported once** (`OfflineOnce`, `PublisherNotLeaked`).
  The inductive invariant is `HostPlaces`: a host that was installed and is no
  longer current is held by exactly one task, the one whose compare-and-swap
  succeeded, until it has been reported.
* **The last one out closes** (`LastOutCloses`), from `LastLooks`: while a session
  that somebody has left is empty and open, some task is at a label from which it
  looks whether the session is empty, or fills it.
* **Viewers are accounted for** (`ViewersAccounted`), from `ViewerKept`: a viewer
  that is in neither the map nor the slice has had its `SessionClose`.
* **The views are right unless updates overlap** (`OnlineRight`, `SnapshotRight`).
  For the flag the inductive invariant `FlagFollows` says that each change of
  `Host` has its own store done or on the way and, if uncontested, no other.  For
  the snapshot, `Origins` says where a viewer can be and `SnapshotFollows` that,
  while at most one snapshot of the current host is built and not stored, either
  some task has still to build one (`Due`), or the one on the way, or else the one
  that is stored, is that of the present viewers (`UpToDate`).
* **The notifier implements the announcer** (`Implements`), ends a stream only
  while it is offline (`EndedWhileOffline`) and leaves no stream stuck in
  its grace period (`GraceEndsAlways`).  The argument is one about parity
  (`ParityInvariant`): generations grow by one when a timer is set or stopped and
  start at 0, so a stream is in its grace period exactly when its generation is
  odd, and events of timers carry odd generations.  A late event can match only a
  stream that is offline, even though generations are not unique.
* **The announcement is the truth at rest** (`AnnouncedRight`) and **every live
  stream has one message** (`OneMessage`).  The first takes three invariants: what
  `run` heard last of a stream, or will hear last of what is in the channel, is what
  was said last (`LastSaid`); a stream heard to be online is tracked
  (`HeardTracked`, which needs the parity); and no grace period is without a timer
  or event to end it (`GraceEnds`), so that none is left at rest.
* **Closed sessions are gone, and none is left behind** (`ClosedGone`,
  `NothingIsLeft`), from `Attended`: the session in the map has a request that
  is on its way in, inside, or on its way out and has still to look.
* **The first packet is a keyframe** (`FirstKeyframe`) and **the automatic choice
  only goes up** (`OnlyToBetterLayer`).
* **The chat of a stream is one room** (`OneRoomInvariant`).  The invariant needs
  `Fresh` beside it, that the room of a call under way is not idle: it is what keeps
  `Cleanup` from the room between a look-up and the subscription.
* **Subscriptions are given back** (`GivenBack`), from `SubscriptionPlaces`: where
  `OnOpen` stands says whether its peer can have a subscription and whether
  `closeSubscription` is assigned, and a channel whose `OnClose` has run is closed,
  so that the next `SendText` of an `OnOpen` that is behind it fails.
* **What a peer of the chat is sent has no gap** (`NoGaps`).  The invariant `FeedsFit`
  follows a message from the history to the backlog, the channel of the
  subscription and the peer: at each place of `OnOpen`, what was sent, what is still
  in the backlog and what is in the channel follow each other and lead up to the
  room's last number.  Since a full channel drops the newest, a gap is followed by a
  greater number and nothing is ever repeated; the backlog and the channel join
  because one lock section copies the one and opens the other.
* **A viewer that missed packets goes on with a keyframe** (`ResumesRight`), from
  `Resuming`: what is queued is in the order of the layer, and nothing was dropped
  between the last packet sent and the one that will be sent next without the flag
  being set, nor behind a keyframe that will clear it.
* **Publishers are not asked for a storm of keyframes** (`RequestsSpacedAlways`), from
  `Paced`.  The limiter's stamp is the time at which the call began, so that two
  requests may be close; but a call that will take the slot has seen the stamp of
  the last one, and therefore began an interval after it and after the request
  before it.
* **Drafts** (`DraftsKeptAlways`): the directory holds the files of drafts and of what
  is being written (`DraftFiles`), there are no more than configured, and what is
  opened is whole, because a draft is entered when its file is and keeps it while
  a reader has it open (`WholeWhenFound`).
* **Forwarded messages** (`MessagesKeptAlways`).  `Ordered` says that the queue is in the
  order of sending, behind the message in hand, behind what connections have taken, where
  the one in hand may be the last that was taken only when a write of it has failed;
  `Somewhere` that none is missing but those that a broken connection has taken
  without an error (`vanished`); `Doubling` that after an attempt in vain the
  next pause will be twice as long.
* **Reactions** (`ReactionsKeptAlways`).  A sum over a list is stated by a list of
  running totals that exists (`AddsUp`), which needs no recursion: `AllCounted` says that
  what viewers were told, the batches and the pending counts add up to what was
  accepted, and `Flushed` that a timer runs exactly when something is counted.
* **Clips** (`ClipsKeptAlways`).  `WholeInv`: a video is stored before its metadata and is
  there while anything leads to it, unless somebody has asked to delete it.
  `DeletedInv`: a clip can be deleted only when its Publish has stored all it ever
  will, so that nothing comes back.  `ListsInv`: a list being built whose keys are not
  out of date has read, or has still to read, what is stored.
* **The rate of a client** (`RateKeptAlways`).  `PaidFor` is a balance: the tokens a client
  has and those it was granted within `w` are at most a full bucket and what is
  earned in `w`.  Forgetting a client keeps the balance because one that was not seen
  for as long has a full bucket.
* **Emotes** (`EmotesKeptAlways`), from `TokensKept` (the stored token was issued and not
  refused) and `VersionsKnown` (a request that was not overtaken remembers what is
  cached).
* **Data channels** (`ChannelsKeptAlways`), from `Relaying`: a channel waits with its next
  message until the recipients of the last have it.
* **GIF searches** (`SearchesKeptAlways`).  `SearchShape`: an entry of the cache is as old as
  its list, and a search that is done without failing has a list that is up to date.
  `CachesSmall` counts the entries, of which storing one more first takes out at least
  one when the cache is full.  `Budgeted` is the quota: the requests of the last `a` units
  of time are the last ones of the list, as many as were sent (`Counted`), so that what
  `take` cuts off the front of the list is no longer in any hour that ends now.
* **The numbers of packets** (`NumbersKeptAlways`), for any modulus, from `Numbering`: a
  packet still has its number and carries the distance to the one its writer read
  before (`Distances`), and a viewer's number is that of the packet it was sent last
  (`CountsOn`).  Adding a distance that has gone round is adding the difference modulo the
  range (`OnceRound`, `DifferenceBounds`).
* **The recorder's buffer** (`BufferKeptAlways`), for any number of packets, layers and
  units of time.  `Recording` says what is in the channel and that the video in the buffer
  is of the layer and the codec that are recorded; `Apart` that, as long as no reset was
  dropped and no packet came late, a reset lies in the channel between the packets of two
  publishers, so that the buffer has frames of one.  Trimming keeps the frames from the
  first keyframe that is recent enough, which exists because numbers are well-founded
  (`SmallestExists`).
* **Clips play** (`ClipsPlayAlways`), wherever a clip is cut of a buffer with a picture at its
  front, and of any other if it does not end before the first keyframe.  The invariant is
  `KeyframeInFront`: a picture at the front of the buffer is a keyframe, since `addFrame`
  lets no other begin it and trimming begins it anew with a keyframe unless there
  are no pictures (`AddFrameKeepsFront`).  A draft of such a buffer begins with that
  keyframe, at time 0, which no clip ends before.  The rest is about functions.  Each of them is defined by its value at the place before; that such a
  function exists is proved once (`StepwiseExists`), as a set of places that is
  closed under going on is all of them (`StepByStep`).  From there, what is chosen has the
  places it was chosen from (`Counting`), what is merged has both tracks, each in its
  order (`Merged`), and so the first block of a clip with video is its first picture.
* **A clip's file** (`FileRightAlways`), for any frames and sizes, from `Writing`: the plan is that of
  the frames that were given, interleaved, and what has been written is what it says
  of the blocks before the next, at the head of a cluster (`WrittenAt`) or within one
  (`WrittenIn`).  That relative times fit is a fact of the clusters (`Clustered`), that no
  picture is lost one of the merge.
* **Profiles** (`ProfilesKeptAlways`, `OthersKeptAlways`).  Five invariants, each of which uses
  those before it: `ProfileShape`, what a call has read at each place; `FilesNamed`, an
  open file is one of the request's key; `TokensDiffer`, a token is given once;
  `OneEach`, a profile that is being created is its key's first; `AloneKnown`, who is not
  alone with a key has unsettled it.  `ShownRight` then says of a stream that what it
  shows is its profile, or there is a call that has read the profile's text and will
  show it.

Invariants that are proved and are no property of a run (type correctness, the
inductive invariants) are not repeated in the runs.

Only model-checked:

* `PayloadsRead`: `Bitstreams` and `RtpPayloads` read bits and bytes with folds, whose
  operator is an argument that the provers cannot instantiate, and with divisions by
  powers of two, which the SMT solver does not know.
* The liveness properties `EveryCallReturns`, `WaitingEnds`, `EndedEventually`, `RoomExpires` and
  `NothingLingers`, since the proof system does not handle fairness.

## 5. Not modelled, and the plan

Not modelled, with the reason:

* The sequence header of AV1 and the frame header of VP9: a picture size at a
  fixed place of a long list of fields; a model would repeat the standard.
* The PATCH handlers, which hand ICE candidates to the WebRTC library; the
  library's set-up (`settings.go`, `peerconnection`, `interceptors`): configuration
  without state of its own.
* The folding of a stream key's characters into a file name.  Keys in `Profiles` differ
  by more than case.
* The JSON of other services, of the webhook and of the status page; the webhook
  client is one request, whose failure is an input of `Notifier`.
* The session API of the chat store, which nothing but tests calls; statistics,
  logs, the console, the front end and the examples.

Left to model: the order in which a host's end and its
successor's start are reported, as a composition of `StreamSession` and `Notifier`.
