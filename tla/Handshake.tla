----------------------------- MODULE Handshake -----------------------------
(***************************************************************************)
(* The handshake between viewer pages (web/src/pages/Viewer.tsx) and the   *)
(* sessions of one agent: run_session of agent/src/main.rs (GStreamer) or  *)
(* run of agent-win and agent-mac session.rs (webrtc-rs).  The room of the *)
(* relay between them is what module Relay promises: a queue in order for  *)
(* each connection, browsers' texts to the seated agent, the agent's to    *)
(* every browser, none kept for who is not there.  What is written to a    *)
(* socket is handed on when the relay's task reads it, which may be after  *)
(* the writer has lost that connection and made another.                   *)
(*                                                                         *)
(* The agent's peer connections (a pipeline, or an RTCPeerConnection) are  *)
(* numbered; an offer is the number of the one that made it, an answer     *)
(* names the viewer and the offer it answers.                              *)
(*                                                                         *)
(* Abstracted: ICE candidates (no state of the handshake depends on them), *)
(* the second offer webrtcbin may make for the data channel, the media,    *)
(* the session a GStreamer agent records and reports.                      *)
(***************************************************************************)
EXTENDS Naturals, Sequences

CONSTANTS
    Viewer,     \* viewer pages; each is mounted once
    Platform,   \* the agent programs considered
    None,       \* the synthetic ready's sender, no answer
    MaxReadies, \* bound: readies a page sends
    MaxFaults,  \* bound: sessions the agent loses to the network or to an error
    MaxOffers,  \* bound: peer connections the agent makes
    MaxStopping \* bound: capture loops told to stop that run at once

ASSUME PlatformAssumption == Platform \subseteq {"gstreamer", "webrtc-rs"}
ASSUME NoneAssumption == None \notin Viewer
ASSUME BoundsAssumption ==
    MaxReadies \in Nat /\ MaxFaults \in Nat /\ MaxOffers \in Nat /\ MaxStopping \in Nat

VARIABLES
    platform,   \* which program the agent is
    agent,      \* where the agent's current session stands
    inbox,      \* texts on their way to the agent
    outbox,     \* signal_rx / out_rx: offers not yet written to the socket
    wire,       \* offers written to it that the relay has not read
    stray,      \* what the relay has not read of connections the agent lost
    late,       \* history: offers the relay handed on after their session
    made,       \* peer connections ever made
    pc,         \* the session's current peer connection, 0 for none
    owing,      \* pc while its pipeline has not made its offer yet, else 0
    remote,     \* the answer set on it
    stopping,   \* how many capture loops run that were told to stop (webrtc-rs)
    orphaned,   \* how many run that no session can tell to stop any more
    faults,     \* sessions lost so far
    page,       \* where the viewer page stands
    delay,      \* its 300 ms timeout for the first ready is pending
    timer,      \* readyIntervalRef: its interval that resends ready runs
    readies,    \* readies it has sent
    sending,    \* texts it has written that the relay has not read
    arriving,   \* offers on their way to it
    latest,     \* the offer pcRef's peer connection is for, 0 for none
    answering   \* offers whose handler awaits the browser's answer

sessionVars == <<outbox, pc, owing, remote>>
captureVars == <<stopping, orphaned>>
agentVars == <<platform, agent, sessionVars, made, captureVars, faults>>
relayVars == <<inbox, wire, stray, late>>
pageVars == <<page, delay, timer, readies, sending, arriving, latest, answering>>
vars == <<agentVars, relayVars, pageVars>>

----------------------------------------------------------------------------

Offer == 1 .. MaxOffers

\* What the agent reads: readies and answers.
Ready == [kind : {"ready"}, from : Viewer \cup {None}, offer : {0}]
Signal == Ready \cup [kind : {"answer"}, from : Viewer, offer : Offer]

Answer == [from : Viewer, offer : Offer]

ASSUME NoAnswerAssumption == None \notin Answer

Watching == {v \in Viewer : page[v] = "open"}

\* The page writes a text to its socket.
Write(v, text) == sending' = [sending EXCEPT ![v] = Append(@, text)]

Init ==
    /\ platform \in Platform
    /\ agent = "away"
    /\ inbox = <<>> /\ outbox = <<>> /\ wire = <<>>
    /\ stray = {} /\ late = {}
    /\ made = 0 /\ pc = 0 /\ owing = 0 /\ remote = None
    /\ stopping = 0 /\ orphaned = 0
    /\ faults = 0
    /\ page = [v \in Viewer |-> "new"]
    /\ delay = [v \in Viewer |-> FALSE]
    /\ timer = [v \in Viewer |-> FALSE]
    /\ readies = [v \in Viewer |-> 0]
    /\ sending = [v \in Viewer |-> <<>>]
    /\ arriving = [v \in Viewer |-> <<>>]
    /\ latest = [v \in Viewer |-> 0]
    /\ answering = [v \in Viewer |-> {}]

----------------------------------------------------------------------------
(* The agent's sessions.                                                   *)

\* The main loop connects, three seconds after the last session: the relay seats
\* the agent, and goes on to announce it if viewers are there.
Join ==
    /\ agent = "away"
    /\ agent' = IF Watching = {} THEN "up" ELSE "seated"
    /\ UNCHANGED <<platform, sessionVars, made, captureVars, faults, relayVars, pageVars>>

\* The synthetic ready, without a session_id; only then is the agent sent anything.
Nudge ==
    /\ agent = "seated"
    /\ agent' = "up"
    /\ inbox' = Append(inbox, [kind |-> "ready", from |-> None, offer |-> 0])
    /\ UNCHANGED <<platform, sessionVars, made, captureVars, faults,
                   wire, stray, late, pageVars>>

\* Variant for mutation: the channel of offers outlives the session.
OffersOutlive ==
    /\ agent' = "away"
    /\ inbox' = <<>> /\ outbox' = outbox
    /\ wire' = <<>> /\ stray' = stray \cup ({wire} \ {<<>>})
    /\ pc' = 0 /\ owing' = 0 /\ remote' = None

\* The session is over: what it held and what was on its way to it are gone; what
\* it wrote may still be read.
SessionOver ==
    /\ agent' = "away"
    /\ inbox' = <<>> /\ outbox' = <<>>
    /\ wire' = <<>> /\ stray' = stray \cup ({wire} \ {<<>>})
    /\ pc' = 0 /\ owing' = 0 /\ remote' = None

\* The capture loops that run for the current peer connection: each is started with
\* one, and runs until it is told to stop (that capturing may fail is left out).
Running == IF platform = "webrtc-rs" /\ pc # 0 THEN 1 ELSE 0

\* Its stop flag is set: the loop runs on until it sees it, as abort() does not
\* interrupt a blocking task.
TellToStop == stopping' = stopping + Running /\ UNCHANGED orphaned

\* The session forgets the loop without telling it anything.
LeaveRunning == orphaned' = orphaned + Running /\ UNCHANGED stopping

\* Reading the socket ends: the loop is left by break, and the cleanup after it
\* tells the capture loop to stop and waits for it 200 ms at most, or finishes the
\* recording and reports the session.
LoseSocket ==
    /\ agent = "up"
    /\ faults < MaxFaults
    /\ faults' = faults + 1
    /\ SessionOver
    /\ TellToStop
    /\ UNCHANGED <<platform, made, late, pageVars>>

\* Writing an offer or a candidate to the socket, or building a pipeline, fails: ?
\* leaves the function past its cleanup.
FailSession ==
    /\ agent = "up"
    /\ faults < MaxFaults
    /\ \/ pc # 0 /\ LeaveRunning
       \/ inbox # <<>> /\ Head(inbox).kind = "ready" /\ TellToStop
    /\ faults' = faults + 1
    /\ SessionOver
    /\ UNCHANGED <<platform, made, late, pageVars>>

\* A loop told to stop sees its flag before its next frame.
CaptureEnds ==
    /\ stopping > 0
    /\ stopping' = stopping - 1
    /\ UNCHANGED <<platform, agent, sessionVars, made, orphaned, faults, relayVars, pageVars>>

\* A ready, whoever sent it: the peer connection there was is given up, its capture
\* loop told to stop, and without waiting for that a new one is made, whose offer
\* webrtc-rs queues at once and GStreamer a little later.
HandleReady ==
    /\ agent = "up"
    /\ inbox # <<>>
    /\ Head(inbox).kind = "ready"
    /\ made < MaxOffers /\ stopping < MaxStopping
    /\ made' = made + 1
    /\ pc' = made + 1
    /\ remote' = None
    /\ TellToStop
    /\ \/ /\ platform = "webrtc-rs"
          /\ outbox' = Append(outbox, made + 1)
          /\ UNCHANGED owing
       \/ /\ platform = "gstreamer"
          /\ owing' = made + 1
          /\ UNCHANGED outbox
    /\ inbox' = Tail(inbox)
    /\ UNCHANGED <<platform, agent, faults, wire, stray, late, pageVars>>

\* on-negotiation-needed: the pipeline's thread makes the offer and queues it.
MakeOffer ==
    /\ owing # 0
    /\ owing' = 0
    /\ outbox' = Append(outbox, owing)
    /\ UNCHANGED <<platform, agent, made, pc, remote, captureVars, faults, relayVars, pageVars>>

\* The loop writes a queued offer to the socket.
SendOffer ==
    /\ agent = "up"
    /\ outbox # <<>>
    /\ outbox' = Tail(outbox)
    /\ wire' = Append(wire, Head(outbox))
    /\ UNCHANGED <<platform, agent, made, pc, owing, remote, captureVars, faults,
                   inbox, stray, late, pageVars>>

\* An answer fits a peer connection that has offered and has none, whatever
\* offer it was made for.
Fits == pc # 0 /\ owing = 0 /\ remote = None

SetAnswer ==
    /\ agent = "up"
    /\ inbox # <<>>
    /\ Head(inbox).kind = "answer"
    /\ Fits
    /\ remote' = [from |-> Head(inbox).from, offer |-> Head(inbox).offer]
    /\ inbox' = Tail(inbox)
    /\ UNCHANGED <<platform, agent, outbox, made, pc, owing, captureVars, faults,
                   wire, stray, late, pageVars>>

\* Variant for mutation: the error is logged and the session goes on.
RefuseQuietly ==
    /\ agent = "up"
    /\ inbox # <<>>
    /\ Head(inbox).kind = "answer"
    /\ ~Fits
    /\ inbox' = Tail(inbox)
    /\ UNCHANGED <<agentVars, wire, stray, late, pageVars>>

\* One that does not fit: GStreamer's promise is not looked at and webrtc-rs
\* without a peer connection does nothing, but with one the error ends the
\* session, past its cleanup.
RefuseAnswer ==
    /\ agent = "up"
    /\ inbox # <<>>
    /\ Head(inbox).kind = "answer"
    /\ ~Fits
    /\ \/ /\ platform = "gstreamer" \/ pc = 0
          /\ inbox' = Tail(inbox)
          /\ UNCHANGED <<agent, sessionVars, captureVars, wire, stray>>
       \/ /\ platform = "webrtc-rs" /\ pc # 0
          /\ SessionOver
          /\ LeaveRunning
    /\ UNCHANGED <<platform, made, faults, late, pageVars>>

----------------------------------------------------------------------------
(* The relay's tasks, one for each connection.                             *)

\* The offer goes to the queue of every page in the room.
Broadcast(g) ==
    arriving' = [v \in Viewer |-> IF v \in Watching THEN Append(arriving[v], g) ELSE arriving[v]]

\* The task of the agent's connection reads an offer and hands it on.
RelayOffer ==
    /\ wire # <<>>
    /\ wire' = Tail(wire)
    /\ Broadcast(Head(wire))
    /\ UNCHANGED <<agentVars, inbox, stray, late, page, delay, timer, readies, sending,
                   latest, answering>>

\* That of a connection the agent has lost does the same with what is left on it.
RelayStray(s) ==
    /\ s \in stray
    /\ stray' = (stray \ {s}) \cup ({Tail(s)} \ {<<>>})
    /\ late' = late \cup {Head(s)}
    /\ Broadcast(Head(s))
    /\ UNCHANGED <<agentVars, inbox, wire, page, delay, timer, readies, sending,
                   latest, answering>>

\* It finds the connection reset.
LoseStray(s) ==
    /\ s \in stray
    /\ stray' = stray \ {s}
    /\ UNCHANGED <<agentVars, inbox, wire, late, pageVars>>

\* A page's task reads a text; while no agent is seated it is dropped.
RelayText(v) ==
    /\ sending[v] # <<>>
    /\ sending' = [sending EXCEPT ![v] = Tail(@)]
    /\ inbox' = IF agent = "away" THEN inbox ELSE Append(inbox, Head(sending[v]))
    /\ UNCHANGED <<agentVars, wire, stray, late, page, delay, timer, readies, arriving,
                   latest, answering>>

----------------------------------------------------------------------------
(* The viewer page.                                                        *)

\* ws.onopen: Hello, and the two timers that send ready.
Open(v) ==
    /\ page[v] = "new"
    /\ page' = [page EXCEPT ![v] = "open"]
    /\ delay' = [delay EXCEPT ![v] = TRUE]
    /\ timer' = [timer EXCEPT ![v] = TRUE]
    /\ UNCHANGED <<agentVars, relayVars, readies, sending, arriving, latest, answering>>

\* sendReady, from the timeout, which nothing cancels, or from the interval.
SendReady(v) ==
    /\ page[v] = "open"
    /\ readies[v] < MaxReadies
    /\ \/ delay[v] /\ delay' = [delay EXCEPT ![v] = FALSE]
       \/ timer[v] /\ UNCHANGED delay
    /\ readies' = [readies EXCEPT ![v] = @ + 1]
    /\ Write(v, [kind |-> "ready", from |-> v, offer |-> 0])
    /\ UNCHANGED <<agentVars, relayVars, page, timer, arriving, latest, answering>>

\* Variant for mutation: a page that has a peer connection keeps it.
TakeFirstOffer(v) ==
    /\ arriving[v] # <<>>
    /\ arriving' = [arriving EXCEPT ![v] = Tail(@)]
    /\ timer' = [timer EXCEPT ![v] = FALSE]
    /\ IF latest[v] = 0
       THEN /\ latest' = [latest EXCEPT ![v] = Head(arriving[v])]
            /\ answering' = [answering EXCEPT ![v] = @ \cup {Head(arriving[v])}]
       ELSE UNCHANGED <<latest, answering>>
    /\ UNCHANGED <<agentVars, relayVars, page, delay, readies, sending>>

\* An offer: the interval stops, a new peer connection takes pcRef, the old one
\* stays open, and the handler goes off to make an answer.
TakeOffer(v) ==
    /\ arriving[v] # <<>>
    /\ arriving' = [arriving EXCEPT ![v] = Tail(@)]
    /\ timer' = [timer EXCEPT ![v] = FALSE]
    /\ latest' = [latest EXCEPT ![v] = Head(arriving[v])]
    /\ answering' = [answering EXCEPT ![v] = @ \cup {Head(arriving[v])}]
    /\ UNCHANGED <<agentVars, relayVars, page, delay, readies, sending>>

\* Variant for mutation: pcRef is set when the answer is ready.
SendAnswerLate(v, g) ==
    /\ g \in answering[v]
    /\ answering' = [answering EXCEPT ![v] = @ \ {g}]
    /\ latest' = [latest EXCEPT ![v] = g]
    /\ Write(v, [kind |-> "answer", from |-> v, offer |-> g])
    /\ UNCHANGED <<agentVars, relayVars, page, delay, timer, readies, arriving>>

\* The handlers of several offers wait on peer connections of their own, so
\* their answers come in any order.
SendAnswer(v, g) ==
    /\ g \in answering[v]
    /\ answering' = [answering EXCEPT ![v] = @ \ {g}]
    /\ Write(v, [kind |-> "answer", from |-> v, offer |-> g])
    /\ UNCHANGED <<agentVars, relayVars, page, delay, timer, readies, arriving, latest>>

\* Disconnect, unmount, or the socket closing: cleanup.  Handlers still waiting
\* find no socket to answer on; what was written is lost or still read.
Close(v) ==
    /\ page[v] = "open"
    /\ page' = [page EXCEPT ![v] = "closed"]
    /\ delay' = [delay EXCEPT ![v] = FALSE]
    /\ timer' = [timer EXCEPT ![v] = FALSE]
    /\ sending' \in {sending, [sending EXCEPT ![v] = <<>>]}
    /\ arriving' = [arriving EXCEPT ![v] = <<>>]
    /\ latest' = [latest EXCEPT ![v] = 0]
    /\ answering' = [answering EXCEPT ![v] = {}]
    /\ UNCHANGED <<agentVars, relayVars, readies>>

----------------------------------------------------------------------------

AgentNext ==
    \/ Join \/ Nudge \/ LoseSocket \/ FailSession
    \/ HandleReady \/ MakeOffer \/ SendOffer \/ SetAnswer \/ RefuseAnswer
    \/ CaptureEnds

RelayNext ==
    \/ RelayOffer
    \/ \E s \in stray : RelayStray(s) \/ LoseStray(s)
    \/ \E v \in Viewer : RelayText(v)

PageNext(v) ==
    \/ Open(v) \/ SendReady(v) \/ TakeOffer(v) \/ Close(v)
    \/ \E g \in Offer : SendAnswer(v, g)

Next == AgentNext \/ RelayNext \/ \E v \in Viewer : PageNext(v)

Spec == Init /\ [][Next]_vars

\* The agent reconnects for ever, and its tasks and the relay's run; timers fire;
\* the browser makes the answers it is asked for.  Pages need not open, nor close.
Fairness ==
    /\ WF_vars(Join) /\ WF_vars(Nudge)
    /\ WF_vars(HandleReady \/ SetAnswer \/ RefuseAnswer)
    /\ WF_vars(CaptureEnds) /\ WF_vars(MakeOffer) /\ WF_vars(SendOffer) /\ WF_vars(RelayOffer)
    /\ WF_vars(\E s \in stray : RelayStray(s) \/ LoseStray(s))
    /\ \A v \in Viewer : WF_vars(SendReady(v)) /\ WF_vars(RelayText(v)) /\ WF_vars(TakeOffer(v))
    /\ \A v \in Viewer : \A g \in Offer : WF_vars(SendAnswer(v, g))

FairSpec == Spec /\ Fairness

----------------------------------------------------------------------------
(* Properties.                                                             *)

\* Every variable has its type; an agent that is away holds nothing, and a page
\* that is not open neither (session.rs:44-46, Viewer.tsx:201-235).
TypeOK ==
    /\ platform \in Platform
    /\ agent \in {"away", "seated", "up"}
    /\ inbox \in Seq(Signal)
    /\ outbox \in Seq(Offer)
    /\ wire \in Seq(Offer)
    /\ stray \subseteq Seq(Offer) \ {<<>>}
    /\ late \subseteq Offer
    /\ made \in 0 .. MaxOffers
    /\ pc \in 0 .. made
    /\ owing \in {0, pc} /\ (owing # 0 => platform = "gstreamer")
    /\ remote \in Answer \cup {None}
    /\ stopping \in Nat /\ orphaned \in Nat
    /\ faults \in 0 .. MaxFaults
    /\ page \in [Viewer -> {"new", "open", "closed"}]
    /\ delay \in [Viewer -> BOOLEAN]
    /\ timer \in [Viewer -> BOOLEAN]
    /\ readies \in [Viewer -> 0 .. MaxReadies]
    /\ sending \in [Viewer -> Seq(Signal)]
    /\ arriving \in [Viewer -> Seq(Offer)]
    /\ latest \in [Viewer -> 0 .. MaxOffers]
    /\ answering \in [Viewer -> SUBSET Offer]
    /\ agent = "away" => /\ inbox = <<>> /\ outbox = <<>> /\ wire = <<>>
                         /\ pc = 0 /\ owing = 0 /\ remote = None
    /\ \A v \in Viewer : page[v] # "open" =>
           arriving[v] = <<>> /\ latest[v] = 0 /\ answering[v] = {}

\* The viewer's answer to the agent's current offer is the one the agent has set:
\* media can flow.
Connected(v) == pc # 0 /\ remote = [from |-> v, offer |-> pc] /\ page[v] = "open"

\* The page has the agent's current peer connection; or, as nothing makes a
\* GStreamer agent start again, an offer that came late and took its place.
WithAgent(v) ==
    /\ pc # 0
    /\ \/ latest[v] = pc
       \/ platform = "gstreamer" /\ latest[v] \in late

\* A page that stays open ends up with pcRef on the agent's current peer
\* connection, whatever order readies, nudges, offers and lost sessions came in
\* (Viewer.tsx:374-395, relay main.rs:161-165).
CatchesUp(v) == <>[](page[v] = "open") => <>[]WithAgent(v)

\* Nothing of the handshake of the agent with page v is under way.
Settled(v) ==
    /\ page[v] = "open" /\ ~delay[v] /\ sending[v] = <<>>
    /\ agent = "up" /\ inbox = <<>> /\ outbox = <<>> /\ wire = <<>> /\ owing = 0
    /\ arriving[v] = <<>> /\ answering[v] = {}

\* However readies, nudges, offers, answers and lost sessions of any number of
\* pages crossed, what they settle in is a page on the agent's current peer
\* connection, and with a webrtc-rs agent one whose answer the agent has set: no
\* offer that comes late stops the page's interval for less
\* (Viewer.tsx:378-395, agent-win/session.rs:69-87).
SettledTogether ==
    \A v \in Viewer : Settled(v) =>
        /\ WithAgent(v)
        /\ platform = "webrtc-rs" => Connected(v)

\* A page goes back to an older offer only when the relay reads it on a connection
\* the agent has lost: through restarts, and answers made in any order, the offers
\* of one connection and of those after it are taken as they were made
\* (Viewer.tsx:378-395).
NoOlderOffer ==
    [][\A v \in Viewer : latest'[v] # latest[v] /\ page'[v] = "open"
                             => latest'[v] > latest[v] \/ latest'[v] \in late]_vars

\* With a webrtc-rs agent it ends up connected and stays so: an answer to an older
\* offer may be set first, but then the right one is an error that ends the
\* session, and the next one starts afresh (agent-win/session.rs:77-84).
StaysConnected(v) ==
    platform = "webrtc-rs" => (<>[](page[v] = "open") => <>[]Connected(v))

\* "The blocking loop checks `stop_flag` so we can cleanly stop it when the session
\* ends" (agent-win/session.rs:301-302): when it has, every loop still running has
\* been told to stop.
CaptureStopsWithSession == agent = "away" => orphaned = 0

=============================================================================
