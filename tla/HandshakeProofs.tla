-------------------------- MODULE HandshakeProofs --------------------------
(* What holds of the handshake for any viewers, platforms and bounds. *)
EXTENDS Handshake, Functions, TLAPS

\* A queue that is emptied is one.
LEMMA Emptied ==
    ASSUME NEW S, NEW f \in [Viewer -> Seq(S)], NEW v \in Viewer
    PROVE  [f EXCEPT ![v] = <<>>] \in [Viewer -> Seq(S)]
<1> DEFINE empty == <<>>
<1>1. empty \in Seq(S)
  OBVIOUS
<1> HIDE DEF empty
<1>2. [f EXCEPT ![v] = empty] \in [Viewer -> Seq(S)]
  BY <1>1
<1> QED BY <1>2 DEF empty

\* Every variable keeps its type; what is away holds nothing (session.rs:44-46,
\* Viewer.tsx:201-235).
THEOREM TypeCorrect == Spec => []TypeOK
<1> USE NoneAssumption, NoAnswerAssumption, BoundsAssumption
<1>1. Init => TypeOK
  BY PlatformAssumption DEF Init, TypeOK
<1>2. TypeOK /\ [Next]_vars => TypeOK'
  <2> SUFFICES ASSUME TypeOK, [Next]_vars PROVE TypeOK'
    OBVIOUS
  <2> USE DEF TypeOK
  <2>1. CASE Join
    BY <2>1 DEF Join, sessionVars, captureVars, relayVars, pageVars
  <2>2. CASE Nudge
    <3>1. inbox' \in Seq(Signal)
      BY <2>2 DEF Nudge, Signal, Ready
    <3> QED BY <2>2, <3>1 DEF Nudge, sessionVars, captureVars, pageVars
  <2>3. ASSUME SessionOver, UNCHANGED <<platform, made, late, pageVars>>,
               faults' \in 0 .. MaxFaults,
               stopping' \in Nat, orphaned' \in Nat
        PROVE  TypeOK'
    <3>1. stray' \subseteq Seq(Offer) \ {<<>>}
      BY <2>3 DEF SessionOver
    <3>2. inbox' \in Seq(Signal) /\ outbox' \in Seq(Offer) /\ wire' \in Seq(Offer)
      BY <2>3 DEF SessionOver
    <3> QED BY <2>3, <3>1, <3>2 DEF SessionOver, pageVars
  <2>4. Running \in Nat
    BY DEF Running
  <2>5. CASE LoseSocket
    <3>1. faults' \in 0 .. MaxFaults
      BY <2>5 DEF LoseSocket
    <3>2. stopping' \in Nat /\ orphaned' \in Nat
      BY <2>4, <2>5 DEF LoseSocket, TellToStop
    <3> QED BY <2>3, <2>5, <3>1, <3>2 DEF LoseSocket
  <2>6. CASE FailSession
    <3>1. faults' \in 0 .. MaxFaults
      BY <2>6 DEF FailSession
    <3>2. stopping' \in Nat /\ orphaned' \in Nat
      BY <2>4, <2>6 DEF FailSession, TellToStop, LeaveRunning
    <3> QED BY <2>3, <2>6, <3>1, <3>2 DEF FailSession
  <2>7. CASE CaptureEnds
    <3>1. stopping' \in Nat
      BY <2>7 DEF CaptureEnds
    <3> QED BY <2>7, <3>1 DEF CaptureEnds, sessionVars, relayVars, pageVars
  <2>8. CASE HandleReady
    <3>1. Head(inbox) \in Signal /\ Tail(inbox) \in Seq(Signal)
      BY <2>8 DEF HandleReady
    <3>2. made' = made + 1 /\ made' \in 1 .. MaxOffers /\ pc' = made' /\ made + 1 \in Offer
      BY <2>8 DEF HandleReady, Offer
    <3>3. stopping' \in Nat /\ orphaned' = orphaned
      BY <2>4, <2>8 DEF HandleReady, TellToStop
    <3>4. CASE platform = "webrtc-rs" /\ outbox' = Append(outbox, made + 1) /\ owing' = owing
      <4>1. owing' = 0
        BY <3>4
      <4>2. outbox' \in Seq(Offer)
        BY <3>2, <3>4
      <4> QED BY <2>8, <3>1, <3>2, <3>3, <4>1, <4>2 DEF HandleReady, pageVars
    <3>5. CASE platform = "gstreamer" /\ owing' = made + 1 /\ outbox' = outbox
      BY <2>8, <3>1, <3>2, <3>3, <3>5 DEF HandleReady, pageVars
    <3> QED BY <2>8, <3>4, <3>5 DEF HandleReady
  <2>9. CASE MakeOffer
    <3>1. owing \in Offer
      BY <2>9 DEF MakeOffer, Offer
    <3> QED BY <2>9, <3>1 DEF MakeOffer, captureVars, relayVars, pageVars
  <2>10. CASE SendOffer
    <3>1. /\ Head(outbox) \in Offer /\ outbox' \in Seq(Offer) /\ wire' \in Seq(Offer)
      BY <2>10 DEF SendOffer
    <3> QED BY <2>10, <3>1 DEF SendOffer, captureVars, pageVars
  <2>11. CASE SetAnswer
    <3>1. Head(inbox) \in Signal /\ Tail(inbox) \in Seq(Signal)
      BY <2>11 DEF SetAnswer
    <3>2. remote' \in Answer
      BY <2>11, <3>1 DEF SetAnswer, Signal, Ready, Answer
    <3> QED BY <2>11, <3>1, <3>2 DEF SetAnswer, captureVars, pageVars
  <2>12. CASE RefuseAnswer
    <3>1. CASE UNCHANGED <<agent, sessionVars, captureVars, wire, stray>> /\ inbox' = Tail(inbox)
      <4>1. inbox' \in Seq(Signal)
        BY <2>12, <3>1 DEF RefuseAnswer
      <4> QED BY <2>12, <3>1, <4>1 DEF RefuseAnswer, sessionVars, captureVars, pageVars
    <3>2. CASE SessionOver /\ LeaveRunning
      <4>1. stopping' \in Nat /\ orphaned' \in Nat
        BY <2>4, <3>2 DEF LeaveRunning
      <4> QED BY <2>3, <2>12, <3>2, <4>1 DEF RefuseAnswer
    <3> QED BY <2>12, <3>1, <3>2 DEF RefuseAnswer
  <2>13. ASSUME NEW g \in Offer, Broadcast(g)
         PROVE  /\ arriving' \in [Viewer -> Seq(Offer)]
                /\ \A v \in Viewer : page[v] # "open" => arriving'[v] = arriving[v]
    BY <2>13 DEF Broadcast, Watching
  <2>14. CASE RelayOffer
    <3>1. Head(wire) \in Offer /\ wire' \in Seq(Offer) /\ agent # "away"
      BY <2>14 DEF RelayOffer
    <3> QED BY <2>13, <2>14, <3>1 DEF RelayOffer, agentVars, sessionVars, captureVars
  <2>15. ASSUME NEW s \in stray, RelayStray(s) PROVE TypeOK'
    <3>1. s \in Seq(Offer) /\ s # <<>> /\ Head(s) \in Offer /\ Tail(s) \in Seq(Offer)
      OBVIOUS
    <3>2. stray' \subseteq Seq(Offer) \ {<<>>} /\ late' \subseteq Offer
      BY <2>15, <3>1 DEF RelayStray
    <3> QED BY <2>13, <2>15, <3>1, <3>2 DEF RelayStray, agentVars, sessionVars, captureVars
  <2>16. ASSUME NEW s \in stray, LoseStray(s) PROVE TypeOK'
    BY <2>16 DEF LoseStray, agentVars, sessionVars, captureVars, pageVars
  <2>17. ASSUME NEW v \in Viewer, RelayText(v) PROVE TypeOK'
    <3>1. Head(sending[v]) \in Signal /\ Tail(sending[v]) \in Seq(Signal)
      BY <2>17 DEF RelayText
    <3>2. inbox' \in Seq(Signal) /\ (agent = "away" => inbox' = inbox)
      BY <2>17, <3>1 DEF RelayText
    <3> QED BY <2>17, <3>1, <3>2 DEF RelayText, agentVars, sessionVars, captureVars
  <2>18. ASSUME NEW v \in Viewer, Open(v) PROVE TypeOK'
    BY <2>18 DEF Open, agentVars, sessionVars, captureVars, relayVars
  <2>19. ASSUME NEW v \in Viewer, NEW x \in Signal, Write(v, x)
         PROVE  sending' \in [Viewer -> Seq(Signal)]
    BY <2>19 DEF Write
  <2>20. ASSUME NEW v \in Viewer, SendReady(v) PROVE TypeOK'
    <3>1. [kind |-> "ready", from |-> v, offer |-> 0] \in Signal
      BY DEF Signal, Ready
    <3>2. sending' \in [Viewer -> Seq(Signal)]
      BY <2>19, <2>20, <3>1 DEF SendReady
    <3>3. delay' \in [Viewer -> BOOLEAN]
      BY <2>20 DEF SendReady
    <3>4. readies' \in [Viewer -> 0 .. MaxReadies]
      BY <2>20 DEF SendReady
    <3> QED BY <2>20, <3>2, <3>3, <3>4 DEF SendReady, agentVars, sessionVars, captureVars, relayVars
  <2>21. ASSUME NEW v \in Viewer, TakeOffer(v) PROVE TypeOK'
    <3>1. Head(arriving[v]) \in Offer /\ Tail(arriving[v]) \in Seq(Offer)
      BY <2>21 DEF TakeOffer
    <3>2. page[v] = "open"
      BY <2>21 DEF TakeOffer
    <3>3. Head(arriving[v]) \in 0 .. MaxOffers
      BY <3>1 DEF Offer
    <3> QED BY <2>21, <3>1, <3>2, <3>3 DEF TakeOffer, agentVars, sessionVars, captureVars, relayVars
  <2>22. ASSUME NEW v \in Viewer, NEW g \in Offer, SendAnswer(v, g) PROVE TypeOK'
    <3>1. [kind |-> "answer", from |-> v, offer |-> g] \in Signal
      BY DEF Signal
    <3>2. sending' \in [Viewer -> Seq(Signal)]
      BY <2>19, <2>22, <3>1 DEF SendAnswer
    <3>3. page[v] = "open"
      BY <2>22 DEF SendAnswer
    <3> QED BY <2>22, <3>2, <3>3 DEF SendAnswer, agentVars, sessionVars, captureVars, relayVars
  <2>23. ASSUME NEW v \in Viewer, Close(v) PROVE TypeOK'
    <3>1. sending' \in [Viewer -> Seq(Signal)]
      <4>1. sending' = sending \/ sending' = [sending EXCEPT ![v] = <<>>]
        BY <2>23 DEF Close
      <4>2. sending \in [Viewer -> Seq(Signal)]
        OBVIOUS
      <4>3. [sending EXCEPT ![v] = <<>>] \in [Viewer -> Seq(Signal)]
        BY <4>2, Emptied
      <4> QED BY <4>1, <4>2, <4>3
    <3>2. arriving' \in [Viewer -> Seq(Offer)] /\ arriving'[v] = <<>>
      BY <2>23, Emptied DEF Close
    <3>3. latest' \in [Viewer -> 0 .. MaxOffers] /\ latest'[v] = 0
      BY <2>23 DEF Close
    <3> QED
      BY <2>23, <3>1, <3>2, <3>3 DEF Close, agentVars, sessionVars, captureVars, relayVars
  <2>24. CASE UNCHANGED vars
    BY <2>24 DEF vars, agentVars, sessionVars, captureVars, relayVars, pageVars
  <2> QED
    BY <2>1, <2>2, <2>5, <2>6, <2>7, <2>8, <2>9, <2>10, <2>11, <2>12, <2>14, <2>15, <2>16,
       <2>17, <2>18, <2>20, <2>21, <2>22, <2>23, <2>24 DEF Next, AgentNext, RelayNext, PageNext
<1> QED BY <1>1, <1>2, PTL DEF Spec

----------------------------------------------------------------------------
(* The order of offers.                                                    *)

Rising(s) == \A i, j \in DOMAIN s : i < j => s[i] < s[j]

\* In a page's queue only an offer that came late stands behind a newer one.
InOrder(s) == \A i, j \in DOMAIN s : i < j /\ s[j] \notin late => s[i] < s[j]

\* An offer the current connection has not handed on.
Ahead == Range(wire) \cup Range(outbox) \cup ({owing} \ {0})

\* An offer of a lost connection, or one that got to a page.
Passed(g) ==
    \/ \E s \in stray : g \in Range(s)
    \/ \E v \in Viewer : g \in Range(arriving[v]) \cup {latest[v]}

\* What the agent has to send is in the order it was made.
AheadInv ==
    /\ pc # 0 => pc = made
    /\ agent # "up" => outbox = <<>> /\ pc = 0 /\ owing = 0
    /\ \A h \in Ahead : h <= made
    /\ Rising(wire) /\ Rising(outbox)
    /\ \A g \in Range(wire), h \in Range(outbox) : g < h
    /\ owing # 0 => \A g \in Range(wire) \cup Range(outbox) : g < owing

\* All else is older.
PassedInv == \A g \in 0 .. MaxOffers : Passed(g) => g <= made /\ \A h \in Ahead : g < h

\* What gets to a page does so in order, but for what comes late.
PageInv ==
    \A v \in Viewer :
        /\ InOrder(arriving[v])
        /\ \A g \in Range(arriving[v]) \ late : latest[v] < g

\* What is appended is the last of its queue.
LEMMA Appended ==
    ASSUME NEW s \in Seq(Offer), NEW x \in Offer
    PROVE  /\ Range(Append(s, x)) = Range(s) \cup {x}
           /\ Rising(s) /\ (\A g \in Range(s) : g < x) => Rising(Append(s, x))
<1> DEFINE t == Append(s, x)
<1>1. /\ DOMAIN t = DOMAIN s \cup {Len(s) + 1} /\ DOMAIN s = 1 .. Len(s)
      /\ Len(s) \in Nat /\ t[Len(s) + 1] = x
      /\ \A i \in DOMAIN s : t[i] = s[i]
  OBVIOUS
<1>2. Range(t) = Range(s) \cup {x}
  BY <1>1 DEF Range
<1>3. ASSUME Rising(s), \A g \in Range(s) : g < x, NEW i \in DOMAIN t, NEW j \in DOMAIN t, i < j
      PROVE  t[i] < t[j]
  <2>1. i \in DOMAIN s /\ t[i] = s[i]
    BY <1>1, <1>3
  <2>2. CASE j \in DOMAIN s
    BY <1>1, <1>3, <2>1, <2>2 DEF Rising
  <2>3. CASE j = Len(s) + 1
    BY <1>1, <1>3, <2>1, <2>3 DEF Range
  <2> QED BY <1>1, <2>2, <2>3
<1> QED BY <1>2, <1>3 DEF Rising

\* What is taken is the first of its queue.
LEMMA Taken ==
    ASSUME NEW S, NEW s \in Seq(S), s # <<>>
    PROVE  /\ Head(s) \in S /\ Range(s) = {Head(s)} \cup Range(Tail(s))
           /\ Rising(s) => /\ Rising(Tail(s))
                           /\ \A g \in Range(Tail(s)) : Head(s) < g
<1>1. /\ DOMAIN s = 1 .. Len(s) /\ Len(s) \in Nat /\ Len(s) # 0 /\ Head(s) = s[1]
      /\ DOMAIN Tail(s) = 1 .. (Len(s) - 1)
      /\ \A i \in DOMAIN Tail(s) : Tail(s)[i] = s[i + 1]
      /\ Head(s) \in S
  OBVIOUS
<1>2. Range(s) = {Head(s)} \cup Range(Tail(s))
  <2>1. ASSUME NEW i \in DOMAIN s PROVE s[i] \in {Head(s)} \cup Range(Tail(s))
    <3>1. CASE i = 1
      BY <1>1, <3>1
    <3>2. CASE i # 1
      <4>1. i - 1 \in DOMAIN Tail(s) /\ Tail(s)[i - 1] = s[i]
        BY <1>1, <3>2
      <4> QED BY <4>1 DEF Range
    <3> QED BY <3>1, <3>2
  <2>2. ASSUME NEW i \in DOMAIN Tail(s) PROVE Tail(s)[i] \in Range(s)
    BY <1>1 DEF Range
  <2>3. Head(s) \in Range(s)
    BY <1>1 DEF Range
  <2> QED BY <2>1, <2>2, <2>3 DEF Range
<1>3. Rising(s) => Rising(Tail(s)) /\ \A g \in Range(Tail(s)) : Head(s) < g
  <2> SUFFICES ASSUME Rising(s)
               PROVE  Rising(Tail(s)) /\ \A g \in Range(Tail(s)) : Head(s) < g
    OBVIOUS
  <2>1. Rising(Tail(s))
    BY <1>1 DEF Rising
  <2>2. \A i \in DOMAIN Tail(s) : 1 \in DOMAIN s /\ i + 1 \in DOMAIN s /\ 1 < i + 1
    BY <1>1
  <2> QED BY <1>1, <2>1, <2>2 DEF Rising, Range
<1> QED BY <1>1, <1>2, <1>3

\* What is appended is in the queue, and what was there stays.
LEMMA AppendRange ==
    ASSUME NEW S, NEW s \in Seq(S), NEW x \in S
    PROVE  Range(Append(s, x)) = Range(s) \cup {x}
<1>1. /\ DOMAIN Append(s, x) = DOMAIN s \cup {Len(s) + 1}
      /\ Append(s, x)[Len(s) + 1] = x
      /\ \A i \in DOMAIN s : Append(s, x)[i] = s[i]
  OBVIOUS
<1> QED BY <1>1 DEF Range

\* An empty queue has nothing in it and is in order.
LEMMA EmptyRange == Range(<<>>) = {} /\ Rising(<<>>)
BY DEF Range, Rising

\* Everything in the order of offers is a number.
LEMMA Numbers ==
    ASSUME TypeOK
    PROVE  /\ made \in Nat /\ Offer \subseteq Nat /\ 0 \notin Offer
           /\ Offer \subseteq 0 .. MaxOffers
           /\ Range(wire) \subseteq Offer /\ Range(outbox) \subseteq Offer /\ Ahead \subseteq Offer
           /\ \A s \in stray : Range(s) \subseteq Offer
           /\ \A v \in Viewer : /\ Range(arriving[v]) \subseteq Offer
                                /\ latest[v] \in 0 .. MaxOffers /\ latest[v] \in Nat
<1>1. made \in Nat /\ Offer \subseteq Nat /\ 0 \notin Offer /\ Offer \subseteq 0 .. MaxOffers
  BY BoundsAssumption DEF TypeOK, Offer
<1>2. \A s \in Seq(Offer) : Range(s) \subseteq Offer
  BY DEF Range
<1>3. owing \in {0} \cup Offer
  BY BoundsAssumption DEF TypeOK, Offer
<1>4. /\ wire \in Seq(Offer) /\ outbox \in Seq(Offer)
      /\ \A s \in stray : s \in Seq(Offer)
      /\ \A v \in Viewer : arriving[v] \in Seq(Offer) /\ latest[v] \in 0 .. MaxOffers
  BY DEF TypeOK
<1>5. \A v \in Viewer : latest[v] \in Nat
  <2>1. 0 .. MaxOffers \subseteq Nat
    BY BoundsAssumption
  <2> QED BY <1>4, <2>1
<1> QED BY <1>1, <1>2, <1>3, <1>4, <1>5 DEF Ahead

\* A session that is over leaves nothing ahead.
LEMMA OverAhead == TypeOK /\ AheadInv /\ SessionOver /\ made' = made => AheadInv'
<1> SUFFICES ASSUME TypeOK, AheadInv, SessionOver, made' = made PROVE AheadInv'
  OBVIOUS
<1>1. wire' = <<>> /\ outbox' = <<>> /\ owing' = 0 /\ pc' = 0
  BY DEF SessionOver
<1>2. Range(wire') = {} /\ Range(outbox') = {} /\ Ahead' = {} /\ Rising(wire') /\ Rising(outbox')
  BY <1>1, EmptyRange DEF Ahead
<1> QED BY <1>1, <1>2 DEF AheadInv

\* A step that makes no offer and moves none leaves those ahead as they are.
LEMMA AheadStays ==
    ASSUME AheadInv, UNCHANGED <<wire, outbox, owing, pc, made>>, agent' # "up" => agent # "up"
    PROVE  AheadInv'
BY DEF AheadInv, Ahead

\* The agent makes, queues and writes its offers in order, and the relay takes
\* them so.
LEMMA AheadInvariant == Spec => []AheadInv
<1>1. Init => AheadInv
  BY EmptyRange DEF Init, AheadInv, Ahead
<1>2. TypeOK /\ AheadInv /\ [Next]_vars => AheadInv'
  <2> SUFFICES ASSUME TypeOK, AheadInv, [Next]_vars PROVE AheadInv'
    OBVIOUS
  <2>1. CASE HandleReady
    <3>1. /\ made' = made + 1 /\ pc' = made' /\ made' \in Offer /\ agent' = "up" /\ wire' = wire
          /\ outbox \in Seq(Offer)
      BY <2>1, BoundsAssumption DEF HandleReady, TypeOK, Offer
    <3>2. ASSUME NEW h \in Ahead
          PROVE  h \in Nat /\ h <= made /\ h < made' /\ h <= made'
      <4>1. h \in Nat /\ made \in Nat
        BY Numbers
      <4>2. h <= made
        BY DEF AheadInv
      <4> QED BY <3>1, <4>1, <4>2
    <3>3. CASE outbox' = Append(outbox, made') /\ owing' = 0
      <4>1. Range(outbox') = Range(outbox) \cup {made'} /\ Rising(outbox')
        BY <3>1, <3>2, <3>3, Appended DEF AheadInv, Ahead
      <4>2. \A g \in Range(wire) \cup Range(outbox) : g \in Ahead
        BY DEF Ahead
      <4> QED BY <3>1, <3>2, <3>3, <4>1, <4>2, Numbers DEF AheadInv, Ahead
    <3>4. CASE outbox' = outbox /\ owing' = made'
      BY <3>1, <3>2, <3>4, Numbers DEF AheadInv, Ahead
    <3>5. platform = "webrtc-rs" => owing = 0
      BY DEF TypeOK
    <3> QED BY <2>1, <3>1, <3>3, <3>4, <3>5 DEF HandleReady
  <2>2. CASE MakeOffer
    <3>1. /\ owing \in Offer /\ outbox \in Seq(Offer) /\ outbox' = Append(outbox, owing)
          /\ owing' = 0 /\ UNCHANGED <<made, pc, agent, wire>> /\ agent = "up"
      BY <2>2, Numbers DEF MakeOffer, AheadInv, Ahead, TypeOK, relayVars
    <3>2. Range(outbox') = Range(outbox) \cup {owing} /\ Rising(outbox')
      BY <2>2, <3>1, Appended DEF AheadInv, MakeOffer
    <3> QED BY <2>2, <3>1, <3>2, Numbers DEF AheadInv, Ahead, MakeOffer
  <2>3. CASE SendOffer
    <3>1. /\ outbox # <<>> /\ outbox \in Seq(Offer) /\ outbox' = Tail(outbox) /\ wire \in Seq(Offer)
          /\ wire' = Append(wire, Head(outbox)) /\ UNCHANGED <<made, pc, owing, agent>> /\ agent = "up"
      BY <2>3 DEF SendOffer, TypeOK
    <3>2. /\ Head(outbox) \in Offer /\ Range(outbox) = {Head(outbox)} \cup Range(outbox')
          /\ Rising(outbox') /\ \A h \in Range(outbox') : Head(outbox) < h
      BY <3>1, Taken DEF AheadInv
    <3>3. Rising(wire') /\ Range(wire') = Range(wire) \cup {Head(outbox)}
      BY <3>1, <3>2, Appended DEF AheadInv
    <3>4. Ahead' = Ahead
      BY <3>1, <3>2, <3>3 DEF Ahead
    <3> QED BY <3>1, <3>2, <3>3, <3>4 DEF AheadInv
  <2>4. CASE RelayOffer
    <3>1. /\ wire # <<>> /\ wire \in Seq(Offer) /\ wire' = Tail(wire)
          /\ UNCHANGED <<made, pc, owing, agent, outbox>>
      BY <2>4 DEF RelayOffer, TypeOK, agentVars, sessionVars
    <3>2. Rising(wire') /\ Range(wire) = {Head(wire)} \cup Range(wire')
      BY <3>1, Taken DEF AheadInv
    <3> QED BY <3>1, <3>2 DEF AheadInv, Ahead
  <2>5. CASE LoseSocket \/ FailSession \/ (RefuseAnswer /\ SessionOver)
    BY <2>5, OverAhead DEF LoseSocket, FailSession, RefuseAnswer
  <2>6. CASE RefuseAnswer /\ ~SessionOver
    BY <2>6, AheadStays DEF RefuseAnswer, sessionVars
  <2>7. CASE \/ Join \/ Nudge \/ CaptureEnds \/ SetAnswer \/ UNCHANGED vars
             \/ \E s \in stray : RelayStray(s) \/ LoseStray(s)
             \/ \E v \in Viewer : \/ RelayText(v) \/ PageNext(v)
    <3>1. UNCHANGED <<wire, outbox, owing, pc, made>> /\ (agent' # "up" => agent # "up")
      BY <2>7 DEF Join, Nudge, CaptureEnds, SetAnswer, vars, RelayStray, LoseStray, RelayText,
         PageNext, Open, SendReady, TakeOffer, SendAnswer, Close, agentVars, sessionVars, relayVars
    <3> QED BY <3>1, AheadStays
  <2> QED BY <2>1, <2>2, <2>3, <2>4, <2>5, <2>6, <2>7 DEF Next, AgentNext, RelayNext
<1> QED BY <1>1, <1>2, TypeCorrect, PTL DEF Spec

\* Where the older offers are found after a step that moves none forward.
LEMMA PassedStays ==
    ASSUME PassedInv, made' = made, Ahead' \subseteq Ahead,
           \A g \in 0 .. MaxOffers : Passed(g)' => Passed(g)
    PROVE  PassedInv'
BY DEF PassedInv

LEMMA PagesPassed ==
    ASSUME UNCHANGED <<stray, arriving, latest>>
    PROVE  \A g \in 0 .. MaxOffers : Passed(g)' <=> Passed(g)
BY DEF Passed

\* When a session is over, what it wrote joins the older offers and nothing is ahead.
LEMMA OverPassed ==
    ASSUME TypeOK, AheadInv, PassedInv, SessionOver, UNCHANGED <<made, pageVars>>
    PROVE  PassedInv'
<1>1. Ahead' = {}
  <2>1. wire' = <<>> /\ outbox' = <<>> /\ owing' = 0
    BY DEF SessionOver
  <2> QED BY <2>1, EmptyRange DEF Ahead
<1>2. \A g \in 0 .. MaxOffers : Passed(g)' => Passed(g) \/ g \in Range(wire)
  BY DEF SessionOver, Passed, pageVars
<1>3. \A g \in Range(wire) : g <= made
  BY DEF AheadInv, Ahead
<1> QED BY <1>1, <1>2, <1>3 DEF PassedInv

\* Who is broadcast to gets the offer behind what was there.
LEMMA BroadcastReaches ==
    ASSUME TypeOK, NEW x \in Offer, Broadcast(x), NEW v \in Viewer
    PROVE  /\ page[v] = "open" => arriving'[v] = Append(arriving[v], x)
           /\ page[v] # "open" => arriving'[v] = arriving[v]
           /\ Range(arriving'[v]) \subseteq Range(arriving[v]) \cup {x}
           /\ arriving'[v] \in Seq(Offer)
           /\ page[v] = "open" => Range(arriving'[v]) = Range(arriving[v]) \cup {x}
<1>1. /\ arriving[v] \in Seq(Offer)
      /\ page[v] = "open" => arriving'[v] = Append(arriving[v], x)
      /\ page[v] # "open" => arriving'[v] = arriving[v]
  BY DEF Broadcast, Watching, TypeOK
<1>2. Range(Append(arriving[v], x)) = Range(arriving[v]) \cup {x}
  BY <1>1, AppendRange
<1>3. Append(arriving[v], x) \in Seq(Offer)
  BY <1>1
<1>4. CASE page[v] = "open"
  BY <1>1, <1>2, <1>3, <1>4
<1>5. CASE page[v] # "open"
  BY <1>1, <1>5
<1> QED BY <1>4, <1>5

\* The offers of lost connections and those that got to a page are older than any
\* the current connection has still to hand on.
LEMMA PassedInvariant == Spec => []PassedInv
<1>1. Init => PassedInv
  BY EmptyRange, BoundsAssumption DEF Init, PassedInv, Passed, Ahead
<1>2. TypeOK /\ AheadInv /\ PassedInv /\ [Next]_vars => PassedInv'
  <2> SUFFICES ASSUME TypeOK, AheadInv, PassedInv, [Next]_vars PROVE PassedInv'
    OBVIOUS
  <2>1. CASE HandleReady
    <3>1. /\ made' = made + 1 /\ made' \in Offer /\ UNCHANGED <<wire, stray, arriving, latest>>
          /\ outbox \in Seq(Offer)
      BY <2>1, BoundsAssumption DEF HandleReady, TypeOK, Offer, pageVars
    <3>2. Ahead' \subseteq Ahead \cup {made'}
      <4>1. CASE outbox' = Append(outbox, made + 1) /\ owing' = owing
        <5>1. Range(outbox') = Range(outbox) \cup {made'}
          BY <3>1, <4>1, AppendRange
        <5> QED BY <3>1, <4>1, <5>1 DEF Ahead
      <4>2. CASE outbox' = outbox /\ owing' = made + 1
        BY <3>1, <4>2 DEF Ahead
      <4> QED BY <2>1, <4>1, <4>2 DEF HandleReady
    <3>3. ASSUME NEW g \in 0 .. MaxOffers, Passed(g)
          PROVE  g <= made' /\ g < made' /\ \A h \in Ahead : g < h
      <4>1. g \in Nat /\ made \in Nat
        BY Numbers, BoundsAssumption
      <4>2. g <= made /\ \A h \in Ahead : g < h
        BY <3>3 DEF PassedInv
      <4> QED BY <3>1, <4>1, <4>2
    <3>4. \A g \in 0 .. MaxOffers : Passed(g)' <=> Passed(g)
      BY <3>1, PagesPassed
    <3> QED BY <3>2, <3>3, <3>4 DEF PassedInv
  <2>2. CASE MakeOffer
    <3>1. /\ owing \in Offer /\ outbox \in Seq(Offer) /\ outbox' = Append(outbox, owing) /\ owing' = 0
          /\ UNCHANGED <<made, wire, stray, arriving, latest>>
      BY <2>2, Numbers DEF MakeOffer, Ahead, TypeOK, relayVars, pageVars
    <3>2. Range(outbox') = Range(outbox) \cup {owing} /\ owing # 0
      BY <3>1, AppendRange, Numbers
    <3>3. Ahead' \subseteq Ahead
      BY <3>1, <3>2 DEF Ahead
    <3> QED BY <3>1, <3>3, PagesPassed, PassedStays
  <2>3. CASE SendOffer
    <3>1. /\ outbox # <<>> /\ outbox \in Seq(Offer) /\ outbox' = Tail(outbox) /\ wire \in Seq(Offer)
          /\ wire' = Append(wire, Head(outbox)) /\ UNCHANGED <<made, owing, stray, arriving, latest>>
      BY <2>3 DEF SendOffer, TypeOK, pageVars
    <3>2. Head(outbox) \in Offer /\ Range(outbox) = {Head(outbox)} \cup Range(outbox')
      BY <3>1, Taken
    <3>3. Range(wire') = Range(wire) \cup {Head(outbox)}
      BY <3>1, <3>2, AppendRange
    <3>4. Ahead' \subseteq Ahead
      BY <3>1, <3>2, <3>3 DEF Ahead
    <3> QED BY <3>1, <3>4, PagesPassed, PassedStays
  <2>4. CASE RelayOffer
    <3> DEFINE x == Head(wire)
    <3>1. /\ wire # <<>> /\ wire \in Seq(Offer) /\ wire' = Tail(wire) /\ Broadcast(x)
          /\ UNCHANGED <<made, owing, outbox, stray, latest>>
      BY <2>4 DEF RelayOffer, TypeOK, agentVars, sessionVars
    <3>2. /\ x \in Offer /\ Range(wire) = {x} \cup Range(wire')
          /\ \A h \in Range(wire') : x < h
      BY <3>1, Taken DEF AheadInv
    <3>3. Ahead' \subseteq Ahead /\ x \in Ahead /\ \A h \in Ahead' : x < h
      BY <3>1, <3>2 DEF AheadInv, Ahead
    <3>4. \A g \in 0 .. MaxOffers : Passed(g)' => Passed(g) \/ g = x
      <4>1. \A v \in Viewer : Range(arriving'[v]) \subseteq Range(arriving[v]) \cup {x}
        BY <3>1, <3>2, BroadcastReaches
      <4> QED BY <3>1, <4>1 DEF Passed
    <3>5. x <= made
      BY <3>3 DEF AheadInv
    <3> QED BY <3>1, <3>3, <3>4, <3>5 DEF PassedInv
  <2>5. ASSUME NEW s \in stray, RelayStray(s) PROVE PassedInv'
    <3>1. /\ s \in Seq(Offer) /\ s # <<>> /\ Broadcast(Head(s))
          /\ stray' \subseteq stray \cup {Tail(s)}
          /\ UNCHANGED <<made, owing, outbox, wire, latest>>
      BY <2>5 DEF RelayStray, TypeOK, agentVars, sessionVars
    <3>2. Head(s) \in Offer /\ Range(s) = {Head(s)} \cup Range(Tail(s))
      BY <3>1, Taken
    <3>3. \A g \in 0 .. MaxOffers : Passed(g)' => Passed(g)
      BY <3>1, <3>2, BroadcastReaches DEF Passed
    <3>4. Ahead' = Ahead
      BY <3>1 DEF Ahead
    <3> QED BY <3>1, <3>3, <3>4, PassedStays
  <2>6. ASSUME NEW v \in Viewer, TakeOffer(v) PROVE PassedInv'
    <3>1. /\ arriving[v] # <<>> /\ arriving[v] \in Seq(Offer)
          /\ UNCHANGED <<made, owing, outbox, wire, stray>>
          /\ \A u \in Viewer : /\ latest'[u] = IF u = v THEN Head(arriving[v]) ELSE latest[u]
                               /\ arriving'[u] = IF u = v THEN Tail(arriving[v]) ELSE arriving[u]
      BY <2>6 DEF TakeOffer, TypeOK, agentVars, sessionVars, relayVars
    <3>2. Range(arriving[v]) = {Head(arriving[v])} \cup Range(Tail(arriving[v]))
      BY <3>1, Taken
    <3>3. \A g \in 0 .. MaxOffers : Passed(g)' => Passed(g)
      BY <3>1, <3>2 DEF Passed
    <3>4. Ahead' = Ahead
      BY <3>1 DEF Ahead
    <3> QED BY <3>1, <3>3, <3>4, PassedStays
  <2>7. ASSUME NEW v \in Viewer, Close(v) PROVE PassedInv'
    <3>1. /\ UNCHANGED <<made, owing, outbox, wire, stray>>
          /\ \A u \in Viewer : /\ latest'[u] = IF u = v THEN 0 ELSE latest[u]
                               /\ arriving'[u] = IF u = v THEN <<>> ELSE arriving[u]
      BY <2>7 DEF Close, TypeOK, agentVars, sessionVars, relayVars
    <3>2. \A g \in 0 .. MaxOffers : Passed(g)' => Passed(g) \/ g = 0
      BY <3>1, EmptyRange DEF Passed
    <3>3. Ahead' = Ahead
      BY <3>1 DEF Ahead
    <3>4. 0 <= made /\ \A h \in Ahead : 0 < h
      <4>1. made \in Nat /\ \A h \in Ahead : h \in Offer
        BY Numbers
      <4> QED BY <4>1, BoundsAssumption DEF Offer
    <3> QED BY <3>1, <3>2, <3>3, <3>4 DEF PassedInv
  <2>8. CASE LoseSocket \/ FailSession \/ (RefuseAnswer /\ SessionOver)
    BY <2>8, OverPassed DEF LoseSocket, FailSession, RefuseAnswer
  <2>9. ASSUME NEW s \in stray, LoseStray(s) PROVE PassedInv'
    <3>1. stray' \subseteq stray /\ UNCHANGED <<made, owing, outbox, wire, arriving, latest>>
      BY <2>9 DEF LoseStray, agentVars, sessionVars, pageVars
    <3>2. \A g \in 0 .. MaxOffers : Passed(g)' => Passed(g)
      BY <3>1 DEF Passed
    <3> QED BY <3>1, <3>2, PassedStays DEF Ahead
  <2>10. CASE \/ Join \/ Nudge \/ CaptureEnds \/ SetAnswer \/ (RefuseAnswer /\ ~SessionOver)
              \/ UNCHANGED vars
              \/ \E v \in Viewer : \/ RelayText(v) \/ Open(v) \/ SendReady(v)
                                   \/ \E g \in Offer : SendAnswer(v, g)
    <3>1. UNCHANGED <<wire, outbox, owing, made, stray, arriving, latest>>
      BY <2>10 DEF Join, Nudge, CaptureEnds, SetAnswer, RefuseAnswer, vars, RelayText, Open,
         SendReady, SendAnswer, agentVars, sessionVars, relayVars, pageVars
    <3>2. Ahead' = Ahead
      BY <3>1 DEF Ahead
    <3> QED BY <3>1, <3>2, PagesPassed, PassedStays
  <2> QED BY <2>1, <2>2, <2>3, <2>4, <2>5, <2>6, <2>7, <2>8, <2>9, <2>10
          DEF Next, AgentNext, RelayNext, PageNext
<1> QED BY <1>1, <1>2, TypeCorrect, AheadInvariant, PTL DEF Spec

\* A page's queue is in order, and so is what it takes from it.
LEMMA PageInvariant == Spec => []PageInv
<1>1. Init => PageInv
  <2> SUFFICES ASSUME Init, NEW v \in Viewer
               PROVE  InOrder(arriving[v]) /\ Range(arriving[v]) = {}
    BY DEF PageInv
  <2>1. arriving[v] = <<>>
    BY DEF Init
  <2>2. Range(arriving[v]) = {} /\ DOMAIN arriving[v] = {}
    BY <2>1, EmptyRange
  <2> QED BY <2>2 DEF InOrder
<1>2. TypeOK /\ AheadInv /\ PassedInv /\ PageInv /\ [Next]_vars => PageInv'
  <2> SUFFICES ASSUME TypeOK, AheadInv, PassedInv, PageInv, [Next]_vars, NEW u \in Viewer
               PROVE  /\ InOrder(arriving[u])'
                      /\ \A g \in Range(arriving'[u]) \ late' : latest'[u] < g
    BY DEF PageInv
  <2>1. InOrder(arriving[u]) /\ \A g \in Range(arriving[u]) \ late : latest[u] < g
    BY DEF PageInv
  <2>2. CASE arriving'[u] = arriving[u] /\ latest'[u] = latest[u] /\ late \subseteq late'
    BY <2>1, <2>2 DEF InOrder
  <2>3. ASSUME NEW x \in Offer, Broadcast(x), latest' = latest, late \subseteq late',
               x \in late' \/ \A g \in Range(arriving[u]) \cup {latest[u]} : g < x
        PROVE  /\ InOrder(arriving[u])'
               /\ \A g \in Range(arriving'[u]) \ late' : latest'[u] < g
    <3>1. CASE page[u] # "open"
      BY <2>2, <2>3, <3>1, BroadcastReaches
    <3>2. CASE page[u] = "open"
      <4> DEFINE t == arriving[u]
      <4>1. t \in Seq(Offer) /\ arriving'[u] = Append(t, x) /\ Range(arriving'[u]) = Range(t) \cup {x}
        BY <2>3, <3>2, BroadcastReaches DEF TypeOK
      <4>2. /\ DOMAIN Append(t, x) = DOMAIN t \cup {Len(t) + 1} /\ DOMAIN t = 1 .. Len(t)
            /\ Len(t) \in Nat /\ Append(t, x)[Len(t) + 1] = x
            /\ \A i \in DOMAIN t : Append(t, x)[i] = t[i] /\ t[i] \in Range(t)
        BY <4>1 DEF Range
      <4>3. ASSUME NEW i \in DOMAIN Append(t, x), NEW j \in DOMAIN Append(t, x), i < j,
                   Append(t, x)[j] \notin late'
            PROVE  Append(t, x)[i] < Append(t, x)[j]
        <5>1. i \in DOMAIN t
          BY <4>2, <4>3
        <5>2. CASE j \in DOMAIN t
          BY <2>1, <2>3, <4>2, <4>3, <5>1, <5>2 DEF InOrder
        <5>3. CASE j = Len(t) + 1
          BY <2>3, <4>2, <4>3, <5>1, <5>3
        <5> QED BY <4>2, <5>2, <5>3
      <4>4. InOrder(arriving[u])'
        BY <4>1, <4>3 DEF InOrder
      <4> QED BY <2>1, <2>3, <4>1, <4>4
    <3> QED BY <3>1, <3>2
  <2>4. CASE RelayOffer
    <3>1. /\ wire # <<>> /\ wire \in Seq(Offer) /\ Broadcast(Head(wire)) /\ UNCHANGED <<late, latest>>
      BY <2>4 DEF RelayOffer, TypeOK
    <3>2. Head(wire) \in Offer /\ Head(wire) \in Ahead
      BY <3>1, Taken DEF Ahead
    <3>3. \A g \in Range(arriving[u]) \cup {latest[u]} : g < Head(wire)
      <4>1. \A g \in Range(arriving[u]) \cup {latest[u]} : g \in 0 .. MaxOffers /\ Passed(g)
        BY Numbers DEF Passed
      <4> QED BY <3>2, <4>1 DEF PassedInv
    <3> QED BY <2>3, <3>1, <3>2, <3>3
  <2>5. ASSUME NEW s \in stray, RelayStray(s)
        PROVE  /\ InOrder(arriving[u])'
               /\ \A g \in Range(arriving'[u]) \ late' : latest'[u] < g
    <3>1. /\ s # <<>> /\ s \in Seq(Offer) /\ Broadcast(Head(s)) /\ latest' = latest
          /\ late' = late \cup {Head(s)}
      BY <2>5 DEF RelayStray, TypeOK
    <3>2. Head(s) \in Offer
      BY <3>1, Taken
    <3> QED BY <2>3, <3>1, <3>2
  <2>6. CASE TakeOffer(u)
    <3> DEFINE t == arriving[u]
    <3>1. /\ t # <<>> /\ t \in Seq(Offer) /\ arriving'[u] = Tail(t) /\ latest'[u] = Head(t)
          /\ late' = late
      BY <2>6 DEF TakeOffer, TypeOK, relayVars
    <3>2. /\ DOMAIN t = 1 .. Len(t) /\ Len(t) \in Nat \ {0} /\ Head(t) = t[1]
          /\ DOMAIN Tail(t) = 1 .. (Len(t) - 1)
          /\ \A i \in DOMAIN Tail(t) : Tail(t)[i] = t[i + 1]
      BY <3>1
    <3>3. InOrder(arriving[u])'
      <4> SUFFICES ASSUME NEW i \in DOMAIN Tail(t), NEW j \in DOMAIN Tail(t), i < j,
                          Tail(t)[j] \notin late
                   PROVE  Tail(t)[i] < Tail(t)[j]
        BY <3>1 DEF InOrder
      <4>1. i + 1 \in DOMAIN t /\ j + 1 \in DOMAIN t /\ i + 1 < j + 1
        BY <3>2
      <4>2. Tail(t)[i] = t[i + 1] /\ Tail(t)[j] = t[j + 1]
        BY <3>2
      <4> QED BY <2>1, <4>1, <4>2 DEF InOrder
    <3>4. ASSUME NEW j \in DOMAIN Tail(t), Tail(t)[j] \notin late
          PROVE  Head(t) < Tail(t)[j]
      <4>1. 1 \in DOMAIN t /\ j + 1 \in DOMAIN t /\ 1 < j + 1 /\ Tail(t)[j] = t[j + 1]
        BY <3>2
      <4> QED BY <2>1, <3>2, <3>4, <4>1 DEF InOrder
    <3> QED BY <3>1, <3>3, <3>4 DEF Range
  <2>7. CASE Close(u)
    <3>1. arriving'[u] = <<>>
      BY <2>7 DEF Close, TypeOK
    <3>2. Range(arriving'[u]) = {} /\ DOMAIN arriving'[u] = {}
      BY <3>1, EmptyRange
    <3> QED BY <3>2 DEF InOrder
  <2>8. ASSUME NEW w \in Viewer, TakeOffer(w) \/ Close(w), w # u
        PROVE  arriving'[u] = arriving[u] /\ latest'[u] = latest[u] /\ late' = late
    BY <2>8 DEF TakeOffer, Close, TypeOK, relayVars
  <2>9. CASE ~ (RelayOffer \/ (\E s \in stray : RelayStray(s))
                  \/ (\E w \in Viewer : TakeOffer(w) \/ Close(w)))
    <3>1. UNCHANGED <<arriving, latest, late>>
      BY <2>9 DEF Next, AgentNext, RelayNext, PageNext, Join, Nudge, CaptureEnds, SetAnswer,
         RefuseAnswer, HandleReady, MakeOffer, SendOffer, LoseSocket, FailSession, LoseStray, vars,
         RelayText, Open, SendReady, SendAnswer, agentVars, sessionVars, relayVars, pageVars
    <3> QED BY <2>2, <3>1
  <2> QED BY <2>2, <2>4, <2>5, <2>6, <2>7, <2>8, <2>9
<1> QED BY <1>1, <1>2, TypeCorrect, AheadInvariant, PassedInvariant, PTL DEF Spec

\* A page goes back to an older offer only when one comes late, off a connection the
\* agent has lost, for any number of pages, offers and lost sessions
\* (Viewer.tsx:378-395, relay main.rs:225-240).
THEOREM OffersInOrder == Spec => NoOlderOffer
<1> DEFINE Newer == \A v \in Viewer : latest'[v] # latest[v] /\ page'[v] = "open"
                                          => latest'[v] > latest[v] \/ latest'[v] \in late
<1>1. TypeOK /\ PageInv /\ [Next]_vars => [Newer]_vars
  <2> SUFFICES ASSUME TypeOK, PageInv, [Next]_vars, NEW v \in Viewer,
                      latest'[v] # latest[v], page'[v] = "open", latest'[v] \notin late
               PROVE  latest'[v] > latest[v]
    OBVIOUS
  <2>1. TakeOffer(v)
    <3>1. PICK u \in Viewer : TakeOffer(u) \/ Close(u)
      BY DEF vars, pageVars, Next, AgentNext, RelayNext, PageNext, Join, Nudge, LoseSocket,
         FailSession, CaptureEnds, HandleReady, MakeOffer, SetAnswer, RefuseAnswer, SendOffer,
         RelayOffer, RelayStray, LoseStray, RelayText, Open, SendReady, SendAnswer
    <3>2. u = v
      BY <3>1 DEF TakeOffer, Close, TypeOK
    <3> QED BY <3>1, <3>2 DEF Close, TypeOK
  <2>2. /\ latest'[v] = Head(arriving[v]) /\ arriving[v] # <<>> /\ arriving[v] \in Seq(Offer)
    BY <2>1 DEF TakeOffer, TypeOK
  <2>3. Head(arriving[v]) \in Range(arriving[v]) /\ Head(arriving[v]) \in Offer
    BY <2>2, Taken
  <2>4. latest[v] < latest'[v]
    BY <2>2, <2>3 DEF PageInv
  <2>5. latest[v] \in Nat /\ latest'[v] \in Nat
    BY <2>2, <2>3, Numbers
  <2> QED BY <2>4, <2>5
<1> QED BY <1>1, TypeCorrect, PageInvariant, PTL DEF NoOlderOffer, Spec

----------------------------------------------------------------------------
(* What the handshake settles in.                                          *)

\* The agent's current peer connection will be offered to every page.
ToSend == pc # 0 /\ (owing = pc \/ pc \in Range(wire) \cup Range(outbox))

ReadySent(v) == \E x \in Range(sending[v]) : x.kind = "ready"

ReadyComing == \E x \in Range(inbox) : x.kind = "ready"

AnswerTo(v, g) == [kind |-> "answer", from |-> v, offer |-> g]

\* The answer to offer g is in the making, on its way or set.
Answered(v, g) ==
    \/ g \in answering[v]
    \/ AnswerTo(v, g) \in Range(sending[v]) \cup Range(inbox)
    \/ remote = [from |-> v, offer |-> g]

\* The page has taken the current offer.  A GStreamer agent can only be replaced by
\* offers that come late; a webrtc-rs agent is owed the answer to whatever came after.
Held(v) ==
    /\ pc # 0
    /\ IF platform = "gstreamer"
       THEN latest[v] \in {pc} \cup late /\ Range(arriving[v]) \subseteq late
       ELSE latest[v] # 0 /\ Answered(v, pc) /\ Answered(v, latest[v])

\* An open page may still ask for an offer, or one is asked for or on its way, or
\* the page has taken the current one.
Served(v) ==
    \/ delay[v] \/ ReadySent(v)
    \/ ReadyComing
    \/ ToSend
    \/ pc # 0 /\ pc \in Range(arriving[v])
    \/ Held(v)

\* The inductive invariant: what the agent has still to send includes the current
\* offer, and every open page is served, its interval or no.
SettlingInv ==
    /\ wire # <<>> \/ outbox # <<>> => ToSend
    /\ \A v \in Viewer : page[v] = "open" /\ agent = "up" => Served(v)

\* The offer of the current peer connection is the newest there is.
LEMMA CurrentIsNewest ==
    ASSUME TypeOK, AheadInv, PassedInv, pc # 0
    PROVE  /\ pc = made /\ pc \in Offer
           /\ \A h \in Ahead : ~(pc < h)
           /\ \A v \in Viewer : \A g \in Range(arriving[v]) : ~(pc < g)
<1>1. pc = made /\ pc \in Offer
  BY BoundsAssumption DEF AheadInv, TypeOK, Offer
<1>2. ASSUME NEW g \in Offer, g <= made PROVE ~(pc < g)
  BY <1>1, <1>2, Numbers
<1>3. \A h \in Ahead : h \in Offer /\ h <= made
  BY Numbers DEF AheadInv
<1>4. \A v \in Viewer : \A g \in Range(arriving[v]) : g \in Offer /\ g <= made
  BY Numbers DEF PassedInv, Passed
<1> QED BY <1>1, <1>2, <1>3, <1>4

\* A ready makes a new peer connection, which will be offered to all.
LEMMA HandleReadySettles ==
    ASSUME TypeOK, HandleReady
    PROVE  SettlingInv'
<1>1. /\ pc' = made + 1 /\ pc' # 0 /\ outbox \in Seq(Offer) /\ made + 1 \in Offer
  BY BoundsAssumption DEF HandleReady, TypeOK, Offer
<1>2. ToSend'
  <2>1. CASE outbox' = Append(outbox, made + 1)
    <3>1. pc' \in Range(outbox')
      BY <1>1, <2>1, AppendRange
    <3> QED BY <1>1, <3>1 DEF ToSend
  <2>2. CASE owing' = made + 1
    BY <1>1, <2>2 DEF ToSend
  <2> QED BY <2>1, <2>2 DEF HandleReady
<1> QED BY <1>2 DEF SettlingInv, Served

\* The current offer goes from the pipeline to the outbox, or on to the socket.
LEMMA MakingSettles ==
    ASSUME TypeOK, AheadInv, SettlingInv, MakeOffer \/ SendOffer
    PROVE  SettlingInv'
<1>1. /\ UNCHANGED <<platform, agent, inbox, pc, remote, late, page, delay, sending, arriving,
                     latest, answering>>
      /\ wire \in Seq(Offer) /\ outbox \in Seq(Offer)
  BY DEF MakeOffer, SendOffer, TypeOK, relayVars, pageVars
<1>2. ToSend' /\ ToSend
  <2>1. CASE MakeOffer
    <3>1. owing = pc /\ pc # 0 /\ owing \in Offer /\ outbox' = Append(outbox, owing)
      BY <2>1, Numbers DEF MakeOffer, TypeOK, Ahead
    <3>2. pc \in Range(outbox')
      BY <1>1, <3>1, AppendRange
    <3> QED BY <1>1, <3>1, <3>2 DEF ToSend
  <2>2. CASE SendOffer
    <3>1. /\ outbox # <<>> /\ outbox' = Tail(outbox) /\ wire' = Append(wire, Head(outbox))
          /\ owing' = owing
      BY <2>2 DEF SendOffer
    <3>2. Head(outbox) \in Offer /\ Range(outbox) = {Head(outbox)} \cup Range(outbox')
      BY <1>1, <3>1, Taken
    <3>3. Range(wire') = Range(wire) \cup {Head(outbox)}
      BY <1>1, <3>1, <3>2, AppendRange
    <3>4. ToSend
      BY <3>1 DEF SettlingInv
    <3> QED BY <1>1, <3>1, <3>2, <3>3, <3>4 DEF ToSend
  <2> QED BY <2>1, <2>2
<1> QED BY <1>2 DEF SettlingInv, Served

\* The current offer is the last of the wire: handing an older one on leaves it
\* there, and handing it on brings it to every open page.
LEMMA RelayOfferSettles ==
    ASSUME TypeOK, AheadInv, PassedInv, SettlingInv, RelayOffer
    PROVE  SettlingInv'
<1> DEFINE x == Head(wire)
<1>1. /\ wire # <<>> /\ wire \in Seq(Offer) /\ wire' = Tail(wire) /\ Broadcast(x)
      /\ UNCHANGED <<agent, pc, owing, outbox, page>>
  BY DEF RelayOffer, TypeOK, agentVars, sessionVars
<1>2. x \in Offer /\ Range(wire) = {x} \cup Range(wire') /\ \A g \in Range(wire') : x < g
  BY <1>1, Taken DEF AheadInv
<1>3. ToSend
  BY <1>1 DEF SettlingInv
<1>4. CASE x = pc
  <2>1. pc # 0 /\ x \in Range(wire)
    BY <1>2, <1>3 DEF ToSend
  <2>2. \A h \in Ahead : ~(pc < h)
    BY <2>1, CurrentIsNewest
  <2>3. wire' = <<>>
    <3>1. SUFFICES ASSUME wire' # <<>> PROVE FALSE
      OBVIOUS
    <3>2. wire' \in Seq(Offer)
      BY <1>1
    <3>3. Head(wire') \in Range(wire')
      BY <3>1, <3>2, Taken
    <3>4. Head(wire') \in Ahead /\ x < Head(wire')
      BY <1>2, <3>3 DEF Ahead
    <3> QED BY <1>4, <2>2, <3>4
  <2>4. outbox' = <<>>
    <3>1. SUFFICES ASSUME outbox # <<>> PROVE FALSE
      BY <1>1
    <3>2. outbox \in Seq(Offer)
      BY DEF TypeOK
    <3>3. Head(outbox) \in Range(outbox)
      BY <3>1, <3>2, Taken
    <3>4. Head(outbox) \in Ahead /\ x < Head(outbox)
      BY <2>1, <3>3 DEF Ahead, AheadInv
    <3> QED BY <1>4, <2>2, <3>4
  <2>5. ASSUME NEW v \in Viewer, page[v] = "open" PROVE pc \in Range(arriving'[v])
    <3>1. Range(arriving'[v]) = Range(arriving[v]) \cup {x}
      BY <1>1, <1>2, <2>5, BroadcastReaches
    <3> QED BY <1>4, <3>1
  <2>6. \A v \in Viewer : page'[v] = "open" => Served(v)'
    <3>1. \A v \in Viewer : page'[v] = "open" => pc' \in Range(arriving'[v])
      BY <1>1, <2>5
    <3> QED BY <1>1, <2>1, <3>1 DEF Served
  <2> QED BY <2>3, <2>4, <2>6 DEF SettlingInv
<1>5. CASE x # pc
  <2>1. ToSend'
    BY <1>1, <1>2, <1>3, <1>5 DEF ToSend
  <2> QED BY <2>1 DEF SettlingInv, Served
<1> QED BY <1>4, <1>5

\* An offer that comes late goes behind the rest.
LEMMA RelayStraySettles ==
    ASSUME TypeOK, SettlingInv, NEW s \in stray, RelayStray(s)
    PROVE  SettlingInv'
<1>1. /\ s # <<>> /\ s \in Seq(Offer) /\ Broadcast(Head(s)) /\ late' = late \cup {Head(s)}
      /\ UNCHANGED <<platform, agent, inbox, pc, owing, remote, wire, outbox, page, delay, sending,
                     latest, answering>>
  BY DEF RelayStray, TypeOK, agentVars, sessionVars
<1>2. Head(s) \in Offer
  BY <1>1, Taken
<1>3. ASSUME NEW v \in Viewer, page[v] = "open", agent = "up" PROVE Served(v)'
  <2>1. Range(arriving'[v]) = Range(arriving[v]) \cup {Head(s)}
    BY <1>1, <1>2, <1>3, BroadcastReaches
  <2>2. Held(v) => Held(v)'
    BY <1>1, <2>1 DEF Held, Answered, AnswerTo
  <2>3. Served(v)
    BY <1>3 DEF SettlingInv
  <2> QED BY <1>1, <2>1, <2>2, <2>3 DEF Served, ReadySent, ReadyComing, ToSend
<1> QED BY <1>1, <1>3 DEF SettlingInv, ToSend

\* A page that takes an offer is waiting for the current one, or takes it, or has
\* taken it before and answers this one too.
LEMMA TakeOfferSettles ==
    ASSUME TypeOK, AheadInv, PassedInv, PageInv, SettlingInv, NEW v \in Viewer, TakeOffer(v)
    PROVE  SettlingInv'
<1> DEFINE x == Head(arriving[v])
<1>1. /\ arriving[v] # <<>> /\ arriving[v] \in Seq(Offer)
      /\ UNCHANGED <<platform, agent, inbox, wire, outbox, pc, owing, remote, late, page, delay, sending>>
      /\ arriving'[v] = Tail(arriving[v])
      /\ latest'[v] = x
      /\ answering'[v] = answering[v] \cup {x}
      /\ \A u \in Viewer \ {v} :
             /\ arriving'[u] = arriving[u] /\ latest'[u] = latest[u]
             /\ answering'[u] = answering[u]
  BY DEF TakeOffer, TypeOK, agentVars, sessionVars, relayVars
<1>2. Range(arriving[v]) = {x} \cup Range(arriving'[v]) /\ x \in Offer
  BY <1>1, Taken
<1>3. Held(v) => Held(v)'
  <2>1. \A g : Answered(v, g) => Answered(v, g)'
    BY <1>1 DEF Answered, AnswerTo
  <2>2. Answered(v, latest[v])' /\ latest'[v] # 0
    BY <1>1, <1>2, Numbers DEF Answered
  <2> QED BY <1>1, <1>2, <2>1, <2>2 DEF Held
<1>4. ASSUME pc # 0, x = pc PROVE Served(v)'
  <2>1. Range(arriving'[v]) \subseteq late
    <3> SUFFICES ASSUME NEW j \in DOMAIN Tail(arriving[v]), Tail(arriving[v])[j] \notin late
                 PROVE  FALSE
      BY <1>1 DEF Range
    <3>1. /\ 1 \in DOMAIN arriving[v] /\ j + 1 \in DOMAIN arriving[v] /\ 1 < j + 1
          /\ Tail(arriving[v])[j] = arriving[v][j + 1] /\ x = arriving[v][1]
      BY <1>1
    <3>2. x < arriving[v][j + 1]
      BY <3>1 DEF PageInv, InOrder
    <3>3. arriving[v][j + 1] \in Range(arriving[v])
      BY <3>1 DEF Range
    <3> QED BY <1>4, <3>2, <3>3, CurrentIsNewest
  <2>2. Held(v)'
    <3>1. pc' = pc /\ latest'[v] = pc /\ pc \in answering'[v] /\ late' = late
      BY <1>1, <1>4
    <3>2. Answered(v, pc)' /\ Answered(v, latest[v])'
      BY <3>1 DEF Answered
    <3> QED BY <1>4, <2>1, <3>1, <3>2 DEF Held
  <2> QED BY <2>2 DEF Served
<1>5. ASSUME NEW u \in Viewer, page[u] = "open", agent = "up" PROVE Served(u)'
  <2>1. Served(u)
    BY <1>5 DEF SettlingInv
  <2>2. CASE u = v
    <3>1. CASE pc # 0 /\ pc \in Range(arriving[v])
      <4>1. CASE x = pc
        BY <1>4, <2>2, <3>1, <4>1
      <4>2. CASE x # pc
        BY <1>1, <1>2, <2>2, <3>1, <4>2 DEF Served
      <4> QED BY <4>1, <4>2
    <3>2. CASE Held(v)
      BY <1>3, <2>2, <3>2 DEF Served
    <3>3. CASE delay[v] \/ ReadySent(v) \/ ReadyComing \/ ToSend
      BY <1>1, <2>2, <3>3 DEF Served, ReadySent, ReadyComing, ToSend
    <3> QED BY <2>1, <2>2, <3>1, <3>2, <3>3 DEF Served
  <2>3. CASE u # v
    BY <1>1, <2>1, <2>3 DEF Served, Held, Answered, AnswerTo, ReadySent, ReadyComing, ToSend
  <2> QED BY <2>2, <2>3
<1> QED BY <1>1, <1>5 DEF SettlingInv, ToSend

\* A text the page writes adds to what is on its way.
LEMMA WritingSettles ==
    ASSUME TypeOK, SettlingInv, NEW v \in Viewer,
           SendReady(v) \/ \E g \in Offer : SendAnswer(v, g)
    PROVE  SettlingInv'
<1>1. /\ UNCHANGED <<platform, agent, inbox, wire, outbox, pc, owing, remote, late, page, arriving,
                     latest>>
      /\ sending[v] \in Seq(Signal)
      /\ \A u \in Viewer \ {v} : /\ sending'[u] = sending[u] /\ delay'[u] = delay[u]
                                 /\ answering'[u] = answering[u]
  BY DEF SendReady, SendAnswer, Write, TypeOK, agentVars, sessionVars, relayVars
<1>2. \A x \in Signal : Write(v, x) => Range(sending'[v]) = Range(sending[v]) \cup {x}
  <2>1. \A x \in Signal : Write(v, x) => sending'[v] = Append(sending[v], x)
    BY DEF Write, TypeOK
  <2>2. \A x \in Signal : Range(Append(sending[v], x)) = Range(sending[v]) \cup {x}
    BY <1>1, AppendRange
  <2> QED BY <2>1, <2>2
<1>3. CASE SendReady(v)
  <2> DEFINE r == [kind |-> "ready", from |-> v, offer |-> 0]
  <2>1. r \in Signal /\ r.kind = "ready"
    BY DEF Signal, Ready
  <2>2. r \in Range(sending'[v])
    BY <1>2, <1>3, <2>1 DEF SendReady
  <2>3. ReadySent(v)'
    BY <2>1, <2>2 DEF ReadySent
  <2>4. answering' = answering
    BY <1>3 DEF SendReady
  <2> QED BY <1>1, <2>3, <2>4
          DEF SettlingInv, Served, Held, Answered, AnswerTo, ReadySent, ReadyComing, ToSend
<1>4. ASSUME NEW g \in Offer, SendAnswer(v, g) PROVE SettlingInv'
  <2>1. AnswerTo(v, g) \in Signal
    BY DEF AnswerTo, Signal
  <2>2. Range(sending'[v]) = Range(sending[v]) \cup {AnswerTo(v, g)}
    BY <1>2, <1>4, <2>1 DEF SendAnswer, AnswerTo
  <2>3. answering'[v] = answering[v] \ {g} /\ delay' = delay
    BY <1>4 DEF SendAnswer, TypeOK
  <2>4. \A h : Answered(v, h) => Answered(v, h)'
    BY <1>1, <2>2, <2>3 DEF Answered, AnswerTo
  <2>5. \A h : \A u \in Viewer \ {v} : Answered(u, h) => Answered(u, h)'
    BY <1>1 DEF Answered, AnswerTo
  <2>6. \A u \in Viewer : ReadySent(u) => ReadySent(u)'
    BY <1>1, <2>2 DEF ReadySent
  <2>7. \A u \in Viewer : Held(u) => Held(u)'
    BY <1>1, <2>4, <2>5 DEF Held
  <2> QED BY <1>1, <2>3, <2>6, <2>7 DEF SettlingInv, Served, ReadyComing, ToSend
<1> QED BY <1>3, <1>4

\* A text that gets to a seated agent is still on its way.
LEMMA RelayTextSettles ==
    ASSUME TypeOK, SettlingInv, NEW v \in Viewer, RelayText(v)
    PROVE  SettlingInv'
<1> DEFINE x == Head(sending[v])
<1>1. /\ UNCHANGED <<platform, agent, wire, outbox, pc, owing, remote, late, page, delay, arriving,
                     latest, answering>>
      /\ sending[v] # <<>> /\ sending[v] \in Seq(Signal) /\ inbox \in Seq(Signal)
      /\ sending'[v] = Tail(sending[v])
      /\ \A u \in Viewer \ {v} : sending'[u] = sending[u]
      /\ agent = "up" => inbox' = Append(inbox, x)
  BY DEF RelayText, TypeOK, agentVars, sessionVars
<1>2. Range(sending[v]) = {x} \cup Range(sending'[v]) /\ x \in Signal
  BY <1>1, Taken
<1>3. agent = "up" => Range(inbox') = Range(inbox) \cup {x}
  <2>1. Range(Append(inbox, x)) = Range(inbox) \cup {x}
    BY <1>1, <1>2, AppendRange
  <2> QED BY <1>1, <2>1
<1>4. ASSUME NEW u \in Viewer, page[u] = "open", agent = "up" PROVE Served(u)'
  <2>1. Served(u)
    BY <1>4 DEF SettlingInv
  <2>2. ReadySent(u) => ReadySent(u)' \/ ReadyComing'
    BY <1>1, <1>2, <1>3, <1>4 DEF ReadySent, ReadyComing
  <2>3. ReadyComing => ReadyComing'
    BY <1>3, <1>4 DEF ReadyComing
  <2>4. \A h : Answered(u, h) => Answered(u, h)'
    BY <1>1, <1>2, <1>3, <1>4 DEF Answered, AnswerTo
  <2>5. Held(u) => Held(u)'
    BY <1>1, <2>4 DEF Held
  <2> QED BY <1>1, <2>1, <2>2, <2>3, <2>5 DEF Served, ToSend
<1> QED BY <1>1, <1>4 DEF SettlingInv, ToSend

\* The agent reads an answer: it sets it, drops it or ends the session.
LEMMA AnswersSettle ==
    ASSUME TypeOK, SettlingInv, SetAnswer \/ RefuseAnswer
    PROVE  SettlingInv'
<1>1. CASE SessionOver
  BY <1>1 DEF SessionOver, SettlingInv
<1>2. CASE ~SessionOver
  <2> DEFINE x == Head(inbox)
  <2>1. /\ inbox # <<>> /\ inbox \in Seq(Signal) /\ x.kind = "answer"
        /\ inbox' = Tail(inbox)
        /\ UNCHANGED <<platform, agent, wire, outbox, pc, owing, late, page, delay, sending, arriving,
                       latest, answering>>
        /\ \/ remote = None /\ remote' = [from |-> x.from, offer |-> x.offer]
           \/ remote' = remote /\ (platform = "gstreamer" \/ pc = 0)
    BY <1>2 DEF SetAnswer, RefuseAnswer, Fits, TypeOK, sessionVars, pageVars
  <2>2. Range(inbox) = {x} \cup Range(inbox')
    BY <2>1, Taken
  <2>3. ReadyComing => ReadyComing'
    BY <2>1, <2>2 DEF ReadyComing
  <2>4. ASSUME NEW v \in Viewer, Held(v) PROVE Held(v)'
    <3>1. CASE platform = "gstreamer"
      BY <2>1, <2>4, <3>1 DEF Held
    <3>2. CASE platform # "gstreamer"
      <4>1. remote = None /\ remote' = [from |-> x.from, offer |-> x.offer]
        BY <2>1, <2>4, <3>2 DEF Held
      <4>2. ASSUME NEW g \in Offer, Answered(v, g) PROVE Answered(v, g)'
        <5>1. CASE remote = [from |-> v, offer |-> g]
          BY <4>1, <5>1, NoAnswerAssumption DEF Answer
        <5>2. CASE AnswerTo(v, g) = x
          <6>1. remote' = [from |-> v, offer |-> g]
            BY <4>1, <5>2 DEF AnswerTo
          <6> QED BY <6>1 DEF Answered
        <5>3. CASE AnswerTo(v, g) # x /\ remote # [from |-> v, offer |-> g]
          BY <2>1, <2>2, <4>2, <5>3 DEF Answered, AnswerTo
        <5> QED BY <5>1, <5>2, <5>3
      <4>3. pc \in Offer /\ latest[v] \in Offer
        BY <2>4, <3>2, BoundsAssumption DEF TypeOK, Held, Offer
      <4> QED BY <2>1, <2>4, <3>2, <4>2, <4>3 DEF Held
    <3> QED BY <3>1, <3>2
  <2> QED BY <2>1, <2>3, <2>4 DEF SettlingInv, Served, ReadySent, ToSend
<1> QED BY <1>1, <1>2

\* Sessions that begin and end, capture loops, pages that come and go, and what is
\* lost with a connection.
LEMMA ComingsSettle ==
    ASSUME TypeOK, AheadInv, SettlingInv,
           \/ Join \/ Nudge \/ LoseSocket \/ FailSession \/ CaptureEnds \/ UNCHANGED vars
           \/ \E s \in stray : LoseStray(s)
           \/ \E v \in Viewer : Open(v) \/ Close(v)
    PROVE  SettlingInv'
<1>1. CASE Join
  BY <1>1 DEF Join, Watching, SettlingInv, TypeOK, sessionVars, relayVars, pageVars
<1>2. CASE Nudge
  <2>1. [kind |-> "ready", from |-> None, offer |-> 0] \in Range(inbox')
    <3>1. [kind |-> "ready", from |-> None, offer |-> 0] \in Signal
      BY DEF Signal, Ready
    <3> QED BY <1>2, <3>1, AppendRange DEF Nudge, TypeOK
  <2>2. ReadyComing'
    BY <2>1 DEF ReadyComing
  <2>3. ToSend => ToSend'
    BY <1>2 DEF Nudge, ToSend, sessionVars
  <2> QED BY <1>2, <2>2, <2>3 DEF Nudge, SettlingInv, Served, sessionVars
<1>3. CASE LoseSocket \/ FailSession
  BY <1>3 DEF LoseSocket, FailSession, SessionOver, SettlingInv
<1>4. CASE CaptureEnds \/ UNCHANGED vars \/ \E s \in stray : LoseStray(s)
  <2>1. UNCHANGED <<platform, agent, inbox, wire, outbox, pc, owing, remote, late, pageVars>>
    BY <1>4 DEF CaptureEnds, LoseStray, vars, agentVars, sessionVars, relayVars
  <2> QED BY <2>1 DEF pageVars, SettlingInv, Served, Held, Answered, AnswerTo, ReadySent,
                      ReadyComing, ToSend
<1>5. ASSUME NEW v \in Viewer, Open(v) \/ Close(v) PROVE SettlingInv'
  <2>1. /\ UNCHANGED <<platform, agent, inbox, wire, outbox, pc, owing, remote, late>>
        /\ \A u \in Viewer \ {v} :
               /\ page'[u] = page[u] /\ delay'[u] = delay[u] /\ sending'[u] = sending[u]
               /\ latest'[u] = latest[u] /\ arriving'[u] = arriving[u] /\ answering'[u] = answering[u]
    BY <1>5 DEF Open, Close, agentVars, sessionVars, relayVars, TypeOK
  <2>2. page'[v] = "open" => delay'[v]
    BY <1>5 DEF Open, Close, TypeOK
  <2>3. ASSUME NEW u \in Viewer, page'[u] = "open", agent = "up" PROVE Served(u)'
    <3>1. CASE u = v
      BY <2>2, <2>3, <3>1 DEF Served
    <3>2. CASE u # v
      BY <2>1, <2>3, <3>2 DEF SettlingInv, Served, Held, Answered, AnswerTo, ReadySent,
                              ReadyComing, ToSend
    <3> QED BY <3>1, <3>2
  <2> QED BY <2>1, <2>3 DEF SettlingInv, ToSend
<1> QED BY <1>1, <1>2, <1>3, <1>4, <1>5

\* A handshake in which nothing is under way any more has put an open page on the
\* agent's current peer connection, and with a webrtc-rs agent has connected it, for
\* any number of pages and lost sessions; only with a GStreamer agent may an offer
\* that came late stand in its place (Viewer.tsx:378-395, agent-win/session.rs:69-87).
THEOREM SettlesTogether == Spec => []SettledTogether
<1>1. Init => SettlingInv
  BY DEF Init, SettlingInv
<1>2. TypeOK /\ AheadInv /\ PassedInv /\ PageInv /\ SettlingInv /\ [Next]_vars => SettlingInv'
  BY HandleReadySettles, MakingSettles, RelayOfferSettles, RelayStraySettles, TakeOfferSettles,
     WritingSettles, RelayTextSettles, AnswersSettle, ComingsSettle
     DEF Next, AgentNext, RelayNext, PageNext
<1>3. TypeOK /\ SettlingInv => SettledTogether
  <2> SUFFICES ASSUME TypeOK, SettlingInv, NEW v \in Viewer, Settled(v)
               PROVE  WithAgent(v) /\ (platform = "webrtc-rs" => Connected(v))
    BY DEF SettledTogether
  <2>1. Served(v)
    BY DEF SettlingInv, Settled
  <2>2. Range(inbox) = {} /\ Range(outbox) = {} /\ Range(wire) = {} /\ Range(sending[v]) = {}
        /\ Range(arriving[v]) = {}
    BY EmptyRange DEF Settled
  <2>3. Held(v)
    BY <2>1, <2>2 DEF Served, ReadySent, ReadyComing, ToSend, Settled
  <2>4. CASE platform = "gstreamer"
    BY <2>3, <2>4 DEF Held, WithAgent
  <2>5. CASE platform # "gstreamer"
    <3>1. remote = [from |-> v, offer |-> pc] /\ remote = [from |-> v, offer |-> latest[v]]
      BY <2>2, <2>3, <2>5 DEF Held, Answered, Settled
    <3>2. latest[v] = pc
      BY <3>1
    <3> QED BY <2>3, <3>1, <3>2 DEF Held, WithAgent, Connected, Settled
  <2> QED BY <2>4, <2>5
<1> QED BY <1>1, <1>2, <1>3, TypeCorrect, AheadInvariant, PassedInvariant, PageInvariant, PTL DEF Spec

=============================================================================
