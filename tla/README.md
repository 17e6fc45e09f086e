# Sutel: specifications, checks and proofs

Sutel (package `sutel`, Go) plays one SIP trunk endpoint in the tests of a
telephone system, the system under test (SUT). `ExpectOutboundCall` waits for a
call of the SUT and answers it as a scenario says (Sutel is the callee, UAS);
`Call` calls the SUT (Sutel is the caller, UAC). Both return a `Session`, run by
a goroutine of its own until its scenario is played, its timeout passes or
`Close` is called; `Wait` returns what happened, the received audio and digits
included.

This directory holds TLA+ modules of the endpoint, the two call sides, their
timers, the negotiation of media and the RTP stream; the TLC configurations
that check them; and TLAPS proofs about all of these.

## 1. Inventory of the system

| Component | State it keeps | Operations | Talks to |
|---|---|---|---|
| Endpoint (`carrier.go`) | UDP socket, the one active session, closed flag | `beginSession`, `readPump`, `send`, `shutdown`, `Close` | queue of 256 datagrams to the session; answers OPTIONS itself |
| Session (`session.go`) | context with timeout, outcome, events, DTMF records, result | `execute`, `verify`, `Wait`, `Close` | runs one of the two call sides, then the RTP receiver's result |
| Outbound call (`outbound.go`) | position in the behaviour, latest and final response, early media | `runOutbound` and one function per behaviour, ACK wait, CANCEL | dialog, media goroutine, SUT |
| Inbound call (`inbound.go`) | current INVITE, digest retry, CANCEL and ring timers | `runInbound`, INVITE client transaction, late 2xx clean-up, INFO digits | dialog, media goroutine, SUT |
| Dialog (`dialog.go`, `signaling.go`) | tags, local and remote CSeq, route set, cached 200 or ACK | established loop, INFO and BYE transactions, in-dialog request handler, forked 2xx | SUT |
| RTP receiver (`rtpverifier/receiver.go`) | SSRC, reorder window, PCM, telephone-event in progress, statistics | `Configure`, read loop, `Stop` | session result, echo |
| RTP sender (`rtpverifier/sender.go`) | sequence number, timestamp, statistics | `Play`, `SendDTMF`, echo frames | media goroutine |
| Offer and answer (`internal/sip/sdp.go`, both call sides) | none | `ParseSDP`, `chooseCodec`, `GenerateSDP`, `configureMedia` | call sides, RTP receiver |
| Timers (`transaction_clock.go`) | armed timers | `waitForBehaviorDeadline`, `remainingUntil`, retransmissions | call sides |
| Validation (`scenario.go`, `config.go`) | none | `validate` | entry points |
| SIP and SDP text (`internal/sip`) | none | parse, serialise | pump, calls |
| Audio (`audio`, `audio_verify.go`) | none | decode, resample, match | sender, verification |

### What is hard

* Three parties move independently: the session goroutine, the media goroutine
  it starts and must join on every exit, and the context that may end at any
  moment. The `select` in `readSIPWithTimers` takes any ready channel.
* UDP loses, repeats and reorders. CANCEL crosses the final response, BYE
  crosses BYE or overtakes the ACK, a 401 is repeated during its retry, a 2xx
  arrives after the ring timeout, INFO is repeated or arrives stale.
* Sends fail part-way through a sequence of steps (BYE not routable through the
  peer's Record-Route, socket errors), and each failure must leave the SUT
  released and the test informed.
* Five kinds of goroutine share the endpoint: the one that makes the session,
  the read pump, the session, the RTP reader and the callers of `Wait` and
  `Close`. Any of them may be the one that runs `shutdown`, and two sockets,
  two read loops and a queue must be gone when the last one returns.
* RTP numbers wrap, packets are lost, repeated and reordered, the sender skips
  frames when it is late, strangers send to the same port, and the first
  packets may come before negotiation has said what to accept.
* Times of a script are absolute, the waits that implement them relative, and
  every wait ends late.
* Answers are kept in four copies (latest provisional, final, cached 200, ACK),
  each stale as soon as the next message is out.

### What makes each component correct

* Call sides: the outcome says what happened on the wire and is written once;
  an established call is always released, or the test is told why not; success
  is reported only for a scenario that was played; every final response gets
  its ACK; media never outlives the call; every session ends.
* Dialog: an action runs once per request, digits are recorded in order, own
  CSeq numbers increase, one digit at a time.
* Endpoint: at most one session; after `Wait` or `Close` the read pump, the RTP
  reader and the session are gone and the sockets are closed; a full queue loses messages, counts them, and loses
  nothing else; all callers are told the one final result.
* RTP: the sender keeps one timeline whatever it skips; the receiver puts every
  sample at its place once, counts losses exactly, reports each digit once and
  never mixes streams.
* Offer and answer: what is answered was offered, both ends configure the same
  codec and payload types, and media respects the direction.
* Timers: nothing is sent before its time, lateness does not add up, and what
  is unanswered is repeated within T2.

## 2. Modules

| Module | Models | Rests on |
|---|---|---|
| `SipDialog` | datagrams, `isMatching`, CANCEL and ACK matching, `handleDialogRequest` as pure operators | |
| `InviteServer` | abstract: what a callee promises about an INVITE | |
| `OutboundCall` | `runOutbound` and everything under it | `SipDialog`, refines `InviteServer` |
| `InviteClient` | abstract: what a caller promises about its INVITE and its retry | |
| `InboundCall` | `runInbound` and everything under it | `SipDialog`, refines `InviteClient` |
| `SessionHandle` | abstract: what a test may rely on when several goroutines call `Wait` and `Close` | |
| `Endpoint` | the endpoint and the life of its only session: making it, pump and queue, `execute`, `shutdown`, the RTP read loop, the callers | refines `SessionHandle` |
| `AnswerTiming` | the answering side's timers on a discrete clock | |
| `MediaNegotiation` | the policy of `ParseSDP`, `GenerateSDP`, `chooseCodec` and what each end makes of a description | |
| `RtpPackets` | numbers of packets and `unwrap16`, `unwrap32` | |
| `RtpSender` | `Play` with the frames it skips, `SendDTMF`, failed writes | `RtpPackets` |
| `RtpReceiver` | `accept`, `acceptDTMF`, `Configure`, `missingPackets`, `resultLocked` | `RtpPackets` |
| `RtpStream` | one session's sender heard by another's receiver over UDP, with strangers and negotiation | `RtpSender`, `RtpReceiver` |
| `MCOutboundCall`, `MCInboundCall`, `MCAnswerTiming`, `MCMediaNegotiation`, `MCRtpStream` | TLC instances (`Endpoint` needs none) | |
| `OutboundCallProofs` | the callee: types, establishment, release, media, digits | `TLAPS` |
| `OutboundOutcomeProofs` | the callee: outcome against the wire, action properties, refinement | `OutboundCallProofs` |
| `InboundCallProofs` | the caller: every safety and action property, refinement | `TLAPS` |
| `EndpointProofs` | the endpoint: every safety property, refinement | `TLAPS` |
| `RtpProofs` | extension of numbers, the sender's timeline, what is on the wire | `TLAPS` |
| `RtpStreamProofs` | the received stream: types, one stream, losses, digits, recording | `RtpProofs` |
| `AnswerTimingProofs` | the timers | `TLAPS` |
| `MediaNegotiationProofs` | offer and answer, of any length | `TLAPS` |

### How the state and actions correspond to the code

**Call sides.** `pc` is the place the session goroutine stands in: one location
per blocking read (`waitInvite`, one per call of `waitForBehaviorDeadline`,
`waitACK`, `dialog`, `waitBYE`, ...), one per message it is about to send,
`joinMedia` for the receive on the media goroutine's channel (with `resume` for
what follows), `returned` and `done` for the clean-up of `execute`. An action is
what happens between two such places: a read and the whole handler it leads to,
including the answer; a send; a timer. `media` is the other goroutine (`none`,
`running`, `canceled` after `cancelMedia`, `finished` once its error is in the
channel). `ctx` is the session context and, once ended, its error.
`finalStatus`, `established`, `canceled`, `terminatedBy` are `SIPOutcome`;
`runErr` holds the classes of the errors joined into the one that `Wait`
returns.

`in`, `out`, `replied`, `acked`, `bye`, `unacked`, `confirmed`, `untagged` and
`highest` record what crossed the wire, for the properties only: no guard of
the program depends on them except where they stand for a fact the code keeps
in its position (`acked`, for the media that belongs to an answered call).

A datagram keeps what the code compares: method, status, whether the Call-ID is
the call's, the CSeq number (or that it is missing or names another method),
the From and To tags as one of three identities, whether the Via branch is the
INVITE's, and the verdict of `parseDTMFInfo`. The SUT and the network are one
environment: wherever the code reads, any datagram of the constant `Datagrams`
may be there. This covers loss, repetition, reordering and a SUT that follows
no protocol. Time is abstract: a timer that is armed may fire at any moment,
so every order of timers and messages is included, also orders that real
durations would exclude. The SDP offer is one of six kinds (`Offers`), the 2xx
answer of the SUT one of four (`Answers`): what decides the control flow of
negotiation. Errors of writing to the socket and of reading it can happen at
every send and read.

**Endpoint.** One group of actions per goroutine. `maker` is
`ExpectOutboundCall` or `Call`; `once` is `carrier.closeOnce` with the steps of
the function it runs, so that a second goroutine in `shutdown` waits for the
first; `pump` and `hand` are `readPump` with the datagram it has read and not
yet passed on; `loop` is the place of `execute`, its defers included; `rtpLoop`
is `Receiver.readLoop`; `caller[c]` is what one goroutine of the test is
blocked in. `queue` is `Session.sipInput`; `received`, `malformed` and `ignored`
are counters of the result. The call itself is reduced to reading the queue and
ending at any moment. `snapshot` is the result while it is collected, `result`
the field `Session.result`, which callers read only once `done` is closed.

**Timers.** `now` counts from the first valid INVITE. A script is the sequence
of responses with their times that a behaviour sends, the `HangupAfter` and
whether playback may end the call. A tick is refused when the goroutine has
been runnable for `Lag`, or is between waits: this is what "a goroutine runs at
most `Lag` late" means. `remaining` is `remainingUntil(HangupAfter)`, computed
where the code computes it, before the wait for the ACK.

**Negotiation.** A description is the text once split into fields: formats in
order, rtpmap lines in order, direction, payload types whose fmtp is no list of
events, and two verdicts (well formed otherwise; address allowed). Three kinds
of start are covered: a foreign offer to the callee, a foreign answer to the
caller, and Sutel at both ends.

**RTP.** Numbers on the wire are taken mod `SeqModulus` and `TsModulus`, the
receiver's extended numbers are integers. Every packet carries two history
fields, `n`, the number of packets before it, and `at`, the first of its samples
on the sender's timeline; only properties read them. `frame`, `digit` and
`burst` are the sender's position. `seen` is the receiver's slice of accepted
packets, `space` its `sequenceSpace`, `dtmf` and `digits` the events in progress
and those emitted. `MissingPackets`, `PCM` and `Reported` are what
`Result` computes from them; `Audio` is its sort by timestamp and sequence
number (`Earlier`), each packet at the place of its rank.

## 3. Runs

| Run | Shows | Distinct states |
|---|---|---|
| `outbound` | the safety, action and liveness properties of the callee, and that it implements `InviteServer` | 94,000 |
| `inbound` | the same of the caller, and that it implements `InviteClient` | 39,932 |
| `endpoint` | pump, reader and session are joined and the sockets closed, every call of the test returns, `SessionHandle` is implemented | 428,148 |
| `rtp_stream` | a stream is received at its place, once, from one source, and its losses are counted | 1,700,504 |
| `answer_timing` | scripted times are kept, unanswered messages are repeated | 77,339 |
| `media_negotiation` | answers fit offers and both ends agree | 319,042 |
| `early_rtp_after_final`, `no_answer_silence`, `unsent_status`, `invite_after_cancel`, `duplicate_ok_dropped`, `late_ack` | one disagreement each between a document and the code, below | |

### Properties

* `outbound`: `EstablishedMeansConfirmed`, `EstablishedCallIsReleased`,
  `TerminatedByTellsWho`, `NoMediaOutlivesCall`, `DigitsRecordedOnce`,
  `OutcomeStatusAgreesWithWire`, `SuccessMeansScenarioPlayed`; of steps:
  `RetransmissionsRepeatLastResponse`, `OutcomeIsWrittenOnce`,
  `FailureStopsScript`, `NoBYEAfterPeerBYE`, `ImplementsInviteServer`; live:
  `SessionEnds`. That an established call is released in the end is the
  conjunction of `EstablishedCallIsReleased`, which speaks of the end, and
  `SessionEnds`, and is not checked again. `FailureStopsScript` is about the two
  goroutines: early playback may fail while the behaviour still waits, the
  session learns of it only at the join, and nothing scripted may come after.
* `inbound`: `EveryFinalIsACKed`, `EstablishedCallIsReleased`,
  `NoMediaOutlivesCall`, `DigitsAreConfirmed`, `SuccessMeansExpectedStatus`; of
  steps: `OwnCSeqIncreases`, `OutcomeIsWrittenOnce`, `ImplementsInviteClient`;
  live: `SessionEnds`.
* `endpoint`: `NothingRunsAfterwards`, `ResultHoldsAllMedia`,
  `DatagramsAccountedFor`; of steps: `ImplementsSessionHandle`; live:
  `EveryCallReturns`.
* `rtp_stream`: `TimelineKept`, `LossIsCountedExactly`, `SamplesInPlace`,
  `DigitsReportedOnce`, `OneNegotiatedStream`; of steps: `InTimeMeansKept`.
  `SamplesInPlace` compares the recording with a line: the places of the
  sender's timeline from the first frame kept to the last, without those in gaps
  that are too long to be filled (`CutOut`). It has as many samples as the line
  has places, and the sample at a place is that of the frame sent there, or
  silence.
* `answer_timing`: `ScriptedTimesKept`, `RepeatedUntilAnswered`.
* `media_negotiation`: `AnswerFitsOffer`.

Each is stated in words above its definition, and the first four runs check one
type invariant. Each property has a faulty variant of one definition beside it
(marked as such), a plausible bug of the code that makes the property fail;
`PROJECT.json` pairs them.

A call counts as released by the SUT's BYE or by a BYE of ours that was tried;
`bye` is `lost` when that one could not be routed or written, and then the same
property demands that `Wait` reports it. It is a property of the exits of
`answerAndRunDialog` and `runInbound`, not of the network: an exit that forgets
the BYE violates it even when the socket has failed.

### Bounds, and why they are enough

* `MCOutboundCall` has 25 scenarios: each behaviour with every option that
  changes its path (`OmitTrying`, `SendRinging`, `HangupAfter`, playback, echo,
  `ExpectAudio`, two failure statuses). Delays are abstract, so their values do
  not matter.
* `MCInboundCall` has 6: credentials, CANCEL, expected 200, 401 and 487, two
  INFO digits of one action with an interval and of two actions, duration, media.
  Two digits are the least that have an interval and a successor; a third would
  repeat the second.
* `Datagrams` has one representative for each combination of fields that a
  handler tells apart. Dialog requests have the CSeq numbers 2 and 3 (callee) or
  1 and 2 (caller): enough for first, repeated, newer and stale. Responses have
  every number the call itself uses. Nothing else is bounded in the call
  modules: the history variables hold the last step only, and CSeq numbers and
  digits are bounded by the datagrams.
* `Endpoint`: two callers (one may be in `Close` while the other waits), a queue
  of `QueueSize` 2 with `MaxDatagrams` 3 (so that it fills and overflows while
  the session is busy), `MaxPackets` 1 (the packet that arrives during `Stop`).
* `RtpStream`: `SeqModulus` 32 and `TsModulus` 64 with origins just below them,
  so that both wrap; frames of two samples; four frames of audio with `CatchUp`
  2, so that a skip can be in the middle or at the end; two equal digits of three
  packets; `ReorderWindow` 1 with `MaxDelay` 2 (one packet beyond the window);
  `MaxRetained` 6 of at most 11 packets; `MaxGap` 2, so that gaps are filled and
  cut; one repeated packet or stranger. The moduli are more than twice the
  length of the stream, so that the premises of the theorems below
  (`OutagesAreShort`, `TimelineFits`, `DigitsFit`) hold: as in the code, a jump
  of half a modulus cannot be told from a step back.
* `AnswerTiming`: `T1` 1 and `T2` 3 (an interval that is doubled, then bounded),
  `Lag` 1, followed to `MaxTime` 16, past the last scripted time by several
  `T2`. Nine scripts: equal and distinct times, `HangupAfter` absent, already
  over, and ahead when the call is answered.
* `MediaNegotiation`: descriptions of up to two formats out of four and two
  rtpmap lines out of eight, among them remapped static types, repeated lines
  and clock rates that do not count; all directions; every order of codecs.

`rtp_stream`, `answer_timing` and `media_negotiation` do not look for
deadlocks: a stream, a script and an exchange of descriptions end, and time is
not followed beyond its bound. In `outbound`, `inbound` and `endpoint` deadlock
is checked.

### Fairness

*Calls.* `beginSession` gives every session a timeout, so `ContextExpires` is
fair; the runtime schedules both goroutines; a UDP write returns; `Play`, echo
and `SendDTMF` return once their context has ended (`MediaEnds` is fair only
then). Nothing is assumed of the SUT, of the network or of any behaviour timer:
the liveness properties hold because of the context alone.

*Endpoint.* Every goroutine that can run is scheduled; the session has its
timeout; once the context has ended the call is over soon after (`CallIsCut`,
which the call modules justify); the wait for late RTP before `Stop` is bounded
by a timer; a read of a closed socket returns. Nothing obliges a call to end before
its context, a maker to begin, or a peer to send.

The other modules claim no liveness.

### Disagreements found

* `early_rtp_after_final`: a CANCEL during `EarlyFailure` is answered with 487,
  and its ACK awaited, while early RTP is still sent (`outbound.go:264`,
  `439-443`); `spec.md:727` says it "stops early RTP before the final response".
* `no_answer_silence`: `NoAnswer` ignores an out-of-dialog BYE or INFO
  (`outbound.go:231`); `spec.md:429` gives it 481.
* `unsent_status`: the outcome says 488 although sending it failed
  (`outbound.go:74`); `spec.md:1400` has zero for a response not observed.
* `invite_after_cancel`: a 401 that crosses the CANCEL of `CancelAfter` starts
  the authenticated INVITE, so the caller who hung up rings again
  (`inbound.go:48`); `scenario.go:264-267` says the session then waits for 487.
* `duplicate_ok_dropped`: a 200 repeated during an INFO or BYE transaction is
  not acknowledged again (`dialog.go:129`); `spec.md:394` says duplicates cause
  ACK retransmission.
* `late_ack`: what remains until `HangupAfter` is computed when the call is
  answered and waited for once the ACK has come (`outbound.go:337`, `408`), so
  the BYE is as late as the ACK; `spec.md:633-640` makes all times relative to
  the first valid INVITE and `HangupAfter` an upper bound.

Seen while modelling and not checked by a run:

* The result is collected before the SIP socket closes, so messages that arrive
  between the two are not in it (`spec.md:301-308` orders the clean-up).
* The goroutine that turns the timer of `CancelAfter` into a channel
  (`inbound.go:406`) is not joined: it ends by itself with the timer or the
  session's context, perhaps just after `Wait` has returned. `Endpoint` has the
  goroutines that are joined and shows that this context has ended.
* Until negotiation the receiver takes any payload type of its default
  configuration. Digits that come before the first audio are reported but are
  not part of the sequence space, so they do not count towards losses.
* A packet of a stranger that comes before the first audio packet fixes the
  SSRC and the address; the properties of one stream are about receivers that
  chose the sender's (`OwnStream`).
* Digits are reported in the order their first end packets arrive. An event
  ends with its fourth packet (`FirstEnd`), so the order is that of sending when
  no packet is overtaken by more than three others, or the reorder window is
  less than four; `DigitsReportedOnce` says so and `DigitsInOrder` proves it.
  With the default window of 10 two digits change places if every end packet of
  the first that is not lost comes after one of the second; each is still
  reported once.

## 4. Proofs

| Module | Theorems that state a property of a run | Others |
|---|---|---|
| `OutboundCallProofs` | `TypeCorrect`, `EstablishmentCorrect`, `ReleaseCorrect`, `TerminationCorrect`, `MediaJoinCorrect`, `DigitsCorrect` | `Invariance` |
| `OutboundOutcomeProofs` | `StatusCorrect`, `SuccessCorrect`, `OutcomeFixed`, `RetransmissionsCorrect`, `HangupCorrect`, `FailureCorrect`, `InviteServerImplemented` | `OutcomeInvariance` |
| `InboundCallProofs` | `TypeCorrect`, `AcknowledgementCorrect`, `ReleaseCorrect`, `MediaJoinCorrect`, `DigitsCorrect`, `SuccessCorrect`, `CSeqCorrect`, `OutcomeCorrect`, `InviteClientImplemented` | `Invariance` |
| `EndpointProofs` | `TypeCorrect`, `Cleanup`, `CompleteResult`, `NoSilentLoss`, `SessionHandleImplemented` | |
| `RtpProofs` | `Timeline` | `UnwrapExact`, `SenderInvariance`, `WireInOrder`, `WireApart` |
| `RtpStreamProofs` | `TypeCorrect`, `OneStreamCorrect`, `LossCorrect`, `InTimeCorrect`, `DigitsCorrect`, `SamplesCorrect` | `ReceiverInvariance`, `BooksAgree`, `NumbersAligned`, `EventsAgree`, `DigitsInOrder`, `TimesAreTrue` |
| `AnswerTimingProofs` | `ScriptedTimesCorrect`, `RepetitionCorrect` | `TimerInvariance` |
| `MediaNegotiationProofs` | `AgreementCorrect` | `NegotiationInvariance` |

Every safety invariant and every action property that a run checks is the
statement of a theorem. All hold for every value of the constants that the named
assumptions admit, and these only say what the constants are: sets of scenarios, datagrams and scripts
of the right shape, positive sizes and moduli, a null value outside the type it
is null for. `ScriptsAssumption` also says what `validate` guarantees: times in
order and one final response, last. The assumptions of `RtpStream` also say what
`ParseSDP` and `configureMedia` guarantee of a negotiated configuration: one
payload type per codec, an address, no telephone events under the static types
0 and 8 of the default one, and no type that means audio to one end and events
to the other. `SenderAssumption` says of an event what `SendDTMF` writes: the
duration grows up to the first end packet and stays. `2 * MaxDelay <
SeqModulus` keeps a late packet within half a modulus of those that overtook
it.

Some theorems about the received stream have premises besides, since a number
that is reduced can be recovered only within half a modulus:

* `[]OutagesAreShort` (`NumbersAligned`, `LossCorrect`, `InTimeCorrect`,
  `DigitsCorrect`, `SamplesCorrect`): the sender never gets half the sequence
  numbers, 11 minutes of audio, ahead of the last packet kept. It is a condition
  on behaviours; a network that delivers something every few minutes meets it.
* `DigitsFit` (`DigitsInOrder`, `DigitsCorrect`): the digits together take no
  more than the 2^32 timestamps, six days, so that no two have the same one.
* `TimelineFits` (`TimesAreTrue`, `SamplesCorrect`): the whole stream takes less
  than half of them, three days.

The properties say `OwnStream`, as the runs do: the receiver selected the sender,
and nobody else sent under its SSRC.

**The callee.** The properties speak mostly of the end of a call and are not
inductive. `IInv` (theorem `Invariance`) says what has to be known at each stage
so that they hold at the end:

* `Stages`: before the final response there is no outcome and no dialog; while
  the final response awaits its ACK a 200 is in flight only without
  cancellation or error; in the call the outcome is that of a confirmed 200 and
  the BYE is in the state its location says; the join before a hang-up
  remembers who ended the call; an ended call satisfies the properties.
* `MediaAccountedFor`: the locations at which no media goroutine exists, and
  the behaviours and stages that may have one.
* `DigitsInOrder`: recorded digits ascend and lie below `remoteCSeq`.

`OutboundOutcomeProofs` strengthens it (`OutcomeInvariance`) by `Course` (which
locations belong to which behaviour, and which response is the latest there),
`Told` (what has been replied so far is what the location stands for) and
`Concluded` (at the exits the outcome is the final response on the wire and
success that of a scenario played to its end). The action properties follow
step by step (`FailureCorrect` with `Untroubled` besides: an error of the media
is there only once its goroutine has finished, and a scripted failure is about
to be sent only with that goroutine joined and without error), and so does the refinement: `Phase` and `Response` map the
locations to the abstract transaction, and each action is an abstract step or a
stutter. `AbortKeepsStages` and its like state once what every error exit does.

**The caller.** `IInv` of `InboundCallProofs` is the type invariant in parts
(`PlaceOK`, `InviteOK`, `SentOK`, `TakenOK`, `WireOK`, so that a proof cites only
the part it disturbs) and one part per obligation that is open at a location:
`Stages` (what outcome and error each location implies), `Acknowledged` (a final
response that still lacks its ACK is the one in hand, or the error says why),
`MediaAccounted`, `Released` (whose turn the BYE is), `Concluded` (success and
the expected status), `Numbers` (own CSeq) and `InfoSent` (digits confirmed and
the one in flight).

**The endpoint.** `Lifecycle` relates the places of the goroutines: the SIP
socket closes before the pump is joined, the pump has exited before `closeOnce`
is done, and that is before the session is; the RTP socket is closed before its
read loop is joined, and the loop has exited before the result is published. So
no packet is accepted after the snapshot, which makes it complete.
`DatagramsAccountedFor` needs `QueueKinds`: OPTIONS never reach the queue. For
the refinement every step is a stutter of `SessionHandle` except those that
publish, finish, call and return.

**RTP, the sender.** `UnwrapExact`: a number is recovered from its remainder if
it lies less than half a modulus from the highest one so far, for every modulus;
this is the arithmetic on which the receiver rests. `Timeline` follows from three
facts kept by every step: `Sendable` packets, `Progress` (where the sender stands
between the frames and the digits) and `Counts` (the wire numbers are origin plus
count and origin plus position, reduced). `Ordered` adds what each packet on the
wire is, that events come after the audio and one after the other, and how far
the end of one is from the packets of the next; `FramesApart`, that frames do
not overlap.

**RTP, the receiver.** Each invariant rests on those before it:

* `Received` is the receiver's type; `Chosen`: all audio kept has the selected
  SSRC, address and codec under the present configuration; `Configured`: what is
  kept fits the negotiated one. They need each other: `Configure` preserves
  `Chosen` because it looks at what came before, and an early packet stays only
  if it has the same role in both configurations.
* `Tracked` (`BooksAgree`): the fields that summarise what was kept agree with
  it. `highest` is the greatest number of each SSRC, `space` has numbers of the
  selected one only, `newest` is the last audio packet.
* `Aligned` (`NumbersAligned`): the extended number of each of the sender's
  packets is its place in the sequence plus one constant for all. A packet that
  is accepted is at most `MaxDelay` behind the end of the wire, so, while
  outages are short, within half a modulus of the highest one, and `UnwrapExact`
  applies. Then the count of missing packets is that of the places between
  (`LossCorrect`: a shift changes no cardinality), and a packet in time is
  neither refused, nor late, nor taken for another (`InTimeCorrect`).
* `EventsListed` and `OwnEvents` (`EventsAgree`): the list of digits and the
  table of events refer to each other one to one, and an event of the sender is
  listed, with its full duration, exactly if an end packet of it was accepted.
  `ListedInOrder` (`DigitsInOrder`): with `NotOvertaken`, the first end of a
  digit is there before that of the next.
* `Placed` (`TimesAreTrue`): extended timestamps are places on the timeline plus
  one constant.
* The recording (`SamplesCorrect`) is no invariant of steps but a fact about
  `PCM` in any state with `Aligned`, `Placed` and `FramesApart`. `AudioSorted`:
  the ranks give an order without repetition, so `Audio` is the frames in the
  order of their places. `FoldSteps`: `FoldLeft` is the last of a sequence of
  applications of `Place`; this, and the induction over it, are derived from
  the well-foundedness of the natural numbers (`Least`, `Induction`), because
  the library's induction takes an operator. `PlaceStep` says what one application
  adds (silence if the gap is short, then the frame, and a shift of the base if
  it is long), `NextPlaced` that this keeps `Recorded`: the samples so far are
  those of the line so far.

**Offer and answer.** `NInv` says that what an end configured is what the rules
make of a description it accepted. The rest is about the operators, for
descriptions of any length: `MediaIsSound` (one payload type has one encoding,
so audio and events never share one and an answer can always be generated),
`AnswerIsRead` (a generated description says exactly that) and `EndsAgree` (who
accepts it configures the same). The choices by `Min` exist by the
well-foundedness of the natural numbers (`SmallestPlace`).

**Timers.** The invariant says in each phase what the armed timer stands for:
`Expecting` (the next scripted time, not passed by more than `Lag`), `Repeating`
(the next repetition, at most one interval ahead), `Counted` (what remains of
`HangupAfter` and when it was computed), `Lasting` (when the dialog's timer is
due, measured from the ACK); `SentInTime` and `HungUpInTime` say the same of
what has been sent.

Only model-checked: liveness (`SessionEnds` of both call sides and
`EveryCallReturns`), because fairness and ENABLED are out of the prover's reach.

## 5. Not modelled

* Text: parsing and serialisation of SIP and of the lines of SDP, Via, reason
  phrases, headers copied from the INVITE, serialisation failures, digest
  hashing. The modules see the results as fields.
* Samples: G.711, WAV, resampling and the correlation that verifies audio. Pure
  numeric processing without control state.
* Validation of scenarios and configuration: independent range checks; the
  modules start from what they accept.
* Counters that only report, the event and packet logs, rendering.
* The channel of live audio frames and the echo that reads it; in the call
  modules echo is a medium that ends with its context.
* The example program.

## 6. What could come next

1. `OutboundCall` and `InboundCall` against each other over a lossy network, in
   place of two arbitrary peers; what is proved of each against every peer holds
   there too, what would be new is agreement on the outcome.
2. The live audio channel with its bounded buffer and the echo as a second
   reader of the stream.
