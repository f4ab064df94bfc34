----------------------------- MODULE RoomProofs -----------------------------
(* The relay hands texts over in order and without a gap, and implements   *)
(* the abstract Room, for any connections and machines.                    *)
EXTENDS RelayProofs

----------------------------------------------------------------------------
(* Order.                                                                  *)

\* A sender's last text has been handed to every connection its next one goes
\* to, or is still in that connection's channel.
Reached(r, s) ==
    (Registered(s) /\ r \in Targets(s) /\ rx[r]) =>
        \/ heard[r][s] = sent[s]
        \/ \E i \in Coming(r, s) : queue[r][i].n = sent[s]

\* The inductive invariant.  NothingSkipped needs Reached, to know that the text
\* a sender appends continues what its receivers already have, and the rest to
\* know that a newcomer starts level with the peers it finds and with those that
\* come after it.
OrderInv ==
    /\ NothingSkipped
    /\ \A r, s \in Conn : heard[r][s] <= sent[s] /\ Reached(r, s)
    /\ \A c \in Conn : ~rx[c] => queue[c] = <<>>
    /\ \A c \in Conn : /\ phase[c] = "hello" => sent[c] = 0 /\ ~rx[c]
                       /\ phase[c] = "announce" => rx[c]

\* One pair keeps its order while the texts of the pair stay where they are.
LEMMA GaplessKept ==
    ASSUME NEW r \in Conn, NEW s \in Conn, TypeOK, TypeOK', Gapless(r, s),
           heard'[r][s] = heard[r][s], sent[s] <= sent'[s],
           Coming(r, s)' = Coming(r, s),
           \A i \in Coming(r, s) : queue'[r][i].n = queue[r][i].n
    PROVE  Gapless(r, s)'
<1>1. /\ sent[s] \in Nat /\ sent'[s] \in Nat /\ heard[r][s] \in Nat
      /\ \A i \in Coming(r, s) : queue[r][i].n \in Nat
  <2>1. \A i \in Coming(r, s) : queue[r][i] \in Message
    BY DEF TypeOK, Coming
  <2> QED BY <2>1 DEF TypeOK, Message
<1>2. \A i \in Coming(r, s)' : /\ i \in Coming(r, s)
                               /\ queue'[r][i].n = queue[r][i].n
  OBVIOUS
<1> QED BY <1>1, <1>2 DEF Gapless

\* The whole invariant is kept by a step that leaves the texts in the channels,
\* makes no connection a target and revives no receiver.
LEMMA OrderKept ==
    ASSUME TypeOK, TypeOK', OrderInv,
           UNCHANGED <<heard, sent, rx>>,
           \A r, s \in Conn :
               /\ Coming(r, s)' = Coming(r, s)
               /\ \A i \in Coming(r, s) : queue'[r][i].n = queue[r][i].n,
           \A s \in Conn : Registered(s)' => Registered(s) /\ Targets(s)' \subseteq Targets(s),
           \A c \in Conn : ~rx[c] => queue'[c] = queue[c],
           \A c \in Conn : /\ phase'[c] = "hello" => phase[c] = "hello"
                           /\ phase'[c] = "announce" => phase[c] = "announce"
    PROVE  OrderInv'
<1>1. NothingSkipped'
  <2> SUFFICES ASSUME NEW r \in Conn, NEW s \in Conn PROVE Gapless(r, s)'
    BY DEF NothingSkipped
  <2>1. Gapless(r, s)
    BY DEF OrderInv, NothingSkipped
  <2>2. sent[s] <= sent'[s]
    BY DEF TypeOK
  <2> QED BY <2>1, <2>2, GaplessKept
<1>2. \A r, s \in Conn : heard'[r][s] <= sent'[s] /\ Reached(r, s)'
  BY DEF OrderInv, Reached
<1>3. \A c \in Conn : ~rx'[c] => queue'[c] = <<>>
  BY DEF OrderInv
<1>4. \A c \in Conn : /\ phase'[c] = "hello" => sent'[c] = 0 /\ ~rx'[c]
                      /\ phase'[c] = "announce" => rx'[c]
  <2> SUFFICES ASSUME NEW c \in Conn
               PROVE  /\ phase'[c] = "hello" => sent'[c] = 0 /\ ~rx'[c]
                      /\ phase'[c] = "announce" => rx'[c]
    OBVIOUS
  <2>1. /\ phase[c] = "hello" => sent[c] = 0 /\ ~rx[c]
        /\ phase[c] = "announce" => rx[c]
    BY DEF OrderInv
  <2>2. /\ phase'[c] = "hello" => phase[c] = "hello"
        /\ phase'[c] = "announce" => phase[c] = "announce"
    OBVIOUS
  <2>3. sent' = sent /\ rx' = rx
    OBVIOUS
  <2> QED BY <2>1, <2>2, <2>3
<1> QED BY <1>1, <1>2, <1>3, <1>4 DEF OrderInv

\* A newcomer starts level with the peers it finds, and with nothing queued; it
\* has said nothing to those it is now heard by.
LEMMA RegisterKeepsOrder ==
    ASSUME TypeOK, TypeOK', RoomInv, RoomInv', OrderInv,
           NEW c \in Conn, NEW h \in Hello, Register(c, h)
    PROVE  OrderInv'
<1>1. /\ queue' = queue /\ sent' = sent
      /\ heard' = [heard EXCEPT ![c] = SpokenBefore(h)]
      /\ rx' = [rx EXCEPT ![c] = TRUE]
      /\ hello' = [hello EXCEPT ![c] = h]
      /\ phase[c] = "hello"
      /\ h.machine_id \in Spelling
  BY DEF Register, Hello
<1>2. /\ Registered(c)'
      /\ \A d \in Conn \ {c} : Registered(d)' <=> Registered(d)
      /\ \A d \in Conn : /\ phase'[d] = "hello" => phase[d] = "hello" /\ d # c
                         /\ phase'[d] = "announce" => phase[d] = "announce" \/ d = c
  BY DEF Register, Registered, TypeOK
<1>3. sent[c] = 0 /\ ~rx[c] /\ queue[c] = <<>>
  BY <1>1 DEF OrderInv
<1>4. \A r, s \in Conn : Coming(r, s)' = Coming(r, s)
  BY <1>1 DEF Coming
<1>5. \A s \in Conn : Coming(c, s) = {}
  BY <1>3 DEF Coming
<1>6. \A s \in Conn :
          /\ heard'[c][s] = IF Registered(s) /\ RoomOf(s) = h.machine_id /\ RoleOf(s) # h.role
                            THEN sent[s] ELSE 0
          /\ \A r \in Conn \ {c} : heard'[r][s] = heard[r][s]
  BY <1>1 DEF TypeOK, SpokenBefore
<1>7. NothingSkipped'
  <2> SUFFICES ASSUME NEW r \in Conn, NEW s \in Conn PROVE Gapless(r, s)'
    BY DEF NothingSkipped
  <2>1. CASE r = c
    BY <1>4, <1>5, <2>1 DEF Gapless
  <2>2. CASE r # c
    <3>1. Gapless(r, s) /\ heard'[r][s] = heard[r][s] /\ sent[s] <= sent'[s]
      BY <1>1, <1>6, <2>2 DEF OrderInv, NothingSkipped, TypeOK
    <3> QED BY <1>1, <1>4, <3>1, GaplessKept
  <2> QED BY <2>1, <2>2
<1>8. ASSUME NEW r \in Conn, NEW s \in Conn PROVE heard'[r][s] <= sent'[s] /\ Reached(r, s)'
  <2>1. heard[r][s] \in Nat /\ sent[s] \in Nat /\ heard[r][s] <= sent[s]
    BY DEF TypeOK, OrderInv
  <2>2. heard'[r][s] <= sent'[s]
    BY <1>1, <1>6, <2>1
  <2>3. Reached(r, s)'
    <3> SUFFICES ASSUME Registered(s)', r \in Targets(s)', rx'[r]
                 PROVE  \/ heard'[r][s] = sent'[s]
                        \/ \E i \in Coming(r, s) : queue[r][i].n = sent[s]
      BY <1>1, <1>4 DEF Reached
    <3>1. CASE s = c
      <4>1. heard'[r][s] \in Nat /\ sent'[s] = 0
        BY <1>1, <1>3, <3>1 DEF TypeOK
      <4> QED BY <1>1, <2>2, <4>1
    <3>2. CASE s # c /\ r = c
      <4>1. Registered(s) /\ hello'[s] = hello[s] /\ hello'[c] = h
        BY <1>1, <1>2, <3>2 DEF TypeOK
      <4>2. hello[s].machine_id \in Spelling /\ hello[s].role \in {"agent", "browser"}
        BY <4>1 DEF TypeOK, Registered, Hello, Role
      <4>3. RoomOf(s) = h.machine_id /\ RoleOf(s) # h.role
        <5>1. CASE hello[s].role = "agent"
          <6>1. c \in browsers'[hello[s].machine_id]
            BY <3>2, <4>1, <5>1 DEF Targets, RoleOf, RoomOf
          <6> QED BY <4>1, <4>2, <5>1, <6>1
                  DEF RoomInv, RoomsConsistent, BrowsersExact, RoleOf, RoomOf
        <5>2. CASE hello[s].role = "browser"
          <6>1. agent'[hello[s].machine_id] = c /\ c # None
            BY <3>2, <4>1, <5>2, NoneAssumption DEF Targets, RoleOf, RoomOf
          <6> QED BY <4>1, <4>2, <5>2, <6>1
                  DEF RoomInv, RoomsConsistent, SeatLive, RoleOf, RoomOf
        <5> QED BY <4>2, <5>1, <5>2
      <4> QED BY <1>1, <1>6, <3>2, <4>1, <4>3
    <3>3. CASE s # c /\ r # c
      <4>1. Registered(s) /\ rx[r] /\ hello'[s] = hello[s]
        BY <1>1, <1>2, <3>3 DEF TypeOK
      <4>2. r \in Targets(s)
        <5>1. hello[s] \in Hello
          BY <4>1 DEF TypeOK, Registered
        <5>2. RoomOf(s) \in Spelling
          BY <5>1 DEF RoomOf, Hello
        <5>3. RoleOf(s)' = RoleOf(s) /\ RoomOf(s)' = RoomOf(s)
          BY <4>1 DEF RoleOf, RoomOf
        <5>4. /\ \A m \in Spelling : r \in browsers'[m] => r \in browsers[m]
              /\ \A m \in Spelling : agent'[m] = r => agent[m] = r
          <6>1. CASE /\ agent' = [agent EXCEPT ![h.machine_id] = c]
                     /\ browsers' = browsers
            BY <1>1, <3>3, <6>1 DEF TypeOK
          <6>2. CASE /\ browsers' = [browsers EXCEPT ![h.machine_id] = @ \cup {c}]
                     /\ agent' = agent
            <7>1. browsers \in [Spelling -> SUBSET Conn]
              BY DEF TypeOK
            <7>2. \A m \in Spelling : browsers'[m] \subseteq browsers[m] \cup {c}
              BY <6>2, <7>1
            <7> QED BY <3>3, <6>2, <7>2
          <6> QED BY <6>1, <6>2 DEF Register
        <5>5. r # None
          BY NoneAssumption
        <5>6. RoomOf(s) \in rooms
          <6>1. CASE RoleOf(s) = "agent"
            BY <5>2, <5>3, <5>4, <6>1 DEF Targets, RoomInv, RoomsConsistent, RoomsExact
          <6>2. CASE RoleOf(s) # "agent"
            <7>1. agent'[RoomOf(s)] = r
              BY <5>3, <6>2 DEF Targets
            <7> QED BY <5>2, <5>4, <5>5, <7>1 DEF RoomInv, RoomsConsistent, RoomsExact
          <6> QED BY <6>1, <6>2
        <5> QED BY <5>2, <5>3, <5>4, <5>5, <5>6 DEF Targets
      <4> QED BY <1>1, <1>6, <3>3, <4>1, <4>2 DEF OrderInv, Reached
    <3> QED BY <3>1, <3>2, <3>3
  <2> QED BY <2>2, <2>3
<1>9. \A d \in Conn : ~rx'[d] => queue'[d] = <<>>
  BY <1>1, <1>3 DEF OrderInv, TypeOK
<1>10. \A d \in Conn : /\ phase'[d] = "hello" => sent'[d] = 0 /\ ~rx'[d]
                       /\ phase'[d] = "announce" => rx'[d]
  BY <1>1, <1>2 DEF OrderInv, TypeOK
<1> QED BY <1>7, <1>8, <1>9, <1>10 DEF OrderInv

\* A text is appended to channels that already hold all its sender said before.
LEMMA RelayTextKeepsOrder ==
    ASSUME TypeOK, TypeOK', OrderInv, NEW c \in Conn, RelayText(c)
    PROVE  OrderInv'
<1> DEFINE x == [kind |-> "relay", from |-> c, n |-> sent[c] + 1]
<1>1. /\ UNCHANGED <<phase, hello, rooms, agent, browsers, heard, rx>>
      /\ phase[c] = "open"
      /\ sent' = [sent EXCEPT ![c] = @ + 1]
      /\ \A d \in Conn : queue'[d] = IF d \in Targets(c) /\ rx[d]
                                     THEN Append(queue[d], x) ELSE queue[d]
  BY DEF RelayText, connVars, roomVars
<1>2. /\ \A s \in Conn : Registered(s)' = Registered(s) /\ Targets(s)' = Targets(s)
      /\ Registered(c)
  BY <1>1 DEF Registered, Targets, RoleOf, RoomOf
<1>3. x \in Message /\ x.kind = "relay" /\ x.from = c /\ x.n = sent[c] + 1
  BY DEF TypeOK, Message
<1>4. /\ sent[c] \in Nat /\ sent'[c] = sent[c] + 1
      /\ \A s \in Conn \ {c} : sent'[s] = sent[s]
      /\ \A s \in Conn : sent[s] <= sent'[s]
  BY <1>1 DEF TypeOK
<1>5. ASSUME NEW r \in Conn, NEW s \in Conn, s # c \/ r \notin Targets(c) \/ ~rx[r]
      PROVE  /\ Coming(r, s)' = Coming(r, s)
             /\ \A i \in Coming(r, s) : queue'[r][i].n = queue[r][i].n
  <2>1. CASE r \in Targets(c) /\ rx[r]
    <3>1. queue'[r] = Append(queue[r], x) /\ queue[r] \in Seq(Message) /\ s # c
      BY <1>1, <1>5, <2>1 DEF TypeOK
    <3>2. /\ DOMAIN queue'[r] = DOMAIN queue[r] \cup {Len(queue[r]) + 1}
          /\ queue'[r][Len(queue[r]) + 1] = x
          /\ \A i \in DOMAIN queue[r] : queue'[r][i] = queue[r][i]
      BY <1>3, <3>1
    <3> QED BY <1>3, <3>1, <3>2 DEF Coming
  <2>2. CASE r \notin Targets(c) \/ ~rx[r]
    BY <1>1, <2>2 DEF Coming
  <2> QED BY <2>1, <2>2
<1>6. ASSUME NEW r \in Conn, r \in Targets(c), rx[r]
      PROVE  /\ Len(queue[r]) + 1 \notin Coming(r, c)
             /\ Coming(r, c)' = Coming(r, c) \cup {Len(queue[r]) + 1}
             /\ \A i \in Coming(r, c) : /\ i \in Nat /\ i < Len(queue[r]) + 1
                                        /\ queue'[r][i].n = queue[r][i].n
                                         /\ queue[r][i].n \in Nat
             /\ queue'[r][Len(queue[r]) + 1].n = sent[c] + 1
             /\ Len(queue[r]) \in Nat
  <2>1. queue'[r] = Append(queue[r], x) /\ queue[r] \in Seq(Message)
    BY <1>1, <1>6 DEF TypeOK
  <2>2. /\ DOMAIN queue'[r] = DOMAIN queue[r] \cup {Len(queue[r]) + 1}
        /\ queue'[r][Len(queue[r]) + 1] = x
        /\ \A i \in DOMAIN queue[r] : /\ queue'[r][i] = queue[r][i]
                                      /\ i \in Nat /\ i < Len(queue[r]) + 1
                                      /\ queue[r][i] \in Message
        /\ Len(queue[r]) \in Nat
        /\ Len(queue[r]) + 1 \notin DOMAIN queue[r]
    BY <1>3, <2>1
  <2>3. \A i \in DOMAIN queue[r] : queue[r][i].n \in Nat
    BY <2>2 DEF Message
  <2> QED BY <1>3, <2>2, <2>3 DEF Coming
<1>7. ASSUME NEW r \in Conn, NEW s \in Conn PROVE Gapless(r, s)'
  <2>1. /\ Gapless(r, s) /\ heard'[r][s] = heard[r][s] /\ heard[r][s] \in Nat
        /\ heard[r][s] <= sent[s]
    BY <1>1 DEF OrderInv, NothingSkipped, TypeOK
  <2>2. CASE s # c \/ r \notin Targets(c) \/ ~rx[r]
    BY <1>4, <1>5, <2>1, <2>2, GaplessKept
  <2>3. CASE s = c /\ r \in Targets(c) /\ rx[r]
    <3>1. \/ heard[r][c] = sent[c]
          \/ \E i \in Coming(r, c) : queue[r][i].n = sent[c]
      BY <1>2, <2>3 DEF OrderInv, Reached
    <3>2. \A i \in Coming(r, c) :
              /\ heard[r][c] < queue[r][i].n /\ queue[r][i].n <= sent[c]
              /\ \/ queue[r][i].n = heard[r][c] + 1
                 \/ \E j \in Coming(r, c) : j < i /\ queue[r][i].n = queue[r][j].n + 1
      BY <2>1, <2>3 DEF Gapless
    <3>3. \A i, j \in Coming(r, c) : i < j => queue[r][i].n < queue[r][j].n
      BY <2>1, <2>3 DEF Gapless
    <3> DEFINE e == Len(queue[r]) + 1
    <3>4. \A i \in Coming(r, c)' :
              /\ heard'[r][c] < queue'[r][i].n /\ queue'[r][i].n <= sent'[c]
              /\ \/ queue'[r][i].n = heard'[r][c] + 1
                 \/ \E j \in Coming(r, c)' : j < i /\ queue'[r][i].n = queue'[r][j].n + 1
      <4> SUFFICES ASSUME NEW i \in Coming(r, c)'
                   PROVE  /\ heard[r][c] < queue'[r][i].n /\ queue'[r][i].n <= sent[c] + 1
                          /\ \/ queue'[r][i].n = heard[r][c] + 1
                             \/ \E j \in Coming(r, c)' :
                                   j < i /\ queue'[r][i].n = queue'[r][j].n + 1
        BY <1>4, <2>1, <2>3
      <4>1. CASE i = e
        <5>1. queue'[r][i].n = sent[c] + 1
          BY <1>6, <2>3, <4>1
        <5>2. CASE heard[r][c] = sent[c]
          BY <1>4, <5>1, <5>2
        <5>3. CASE \E k \in Coming(r, c) : queue[r][k].n = sent[c]
          <6>1. PICK k \in Coming(r, c) : queue[r][k].n = sent[c]
            BY <5>3
          <6>2. k \in Coming(r, c)' /\ k < i /\ queue'[r][k].n = sent[c]
            BY <1>6, <2>3, <4>1, <6>1
          <6> QED BY <1>4, <2>1, <2>3, <5>1, <6>2
        <5> QED BY <3>1, <5>2, <5>3
      <4>2. CASE i # e
        <5>1. i \in Coming(r, c) /\ queue'[r][i].n = queue[r][i].n /\ queue[r][i].n \in Nat
          BY <1>6, <2>3, <4>2
        <5>2. heard[r][c] < queue'[r][i].n /\ queue'[r][i].n <= sent[c] + 1
          BY <1>4, <3>2, <5>1
        <5>3. CASE queue[r][i].n = heard[r][c] + 1
          BY <5>1, <5>2, <5>3
        <5>4. CASE \E j \in Coming(r, c) : j < i /\ queue[r][i].n = queue[r][j].n + 1
          <6>1. PICK j \in Coming(r, c) : j < i /\ queue[r][i].n = queue[r][j].n + 1
            BY <5>4
          <6>2. j \in Coming(r, c)' /\ queue'[r][j].n = queue[r][j].n
            BY <1>6, <2>3, <6>1
          <6> QED BY <5>1, <5>2, <6>1, <6>2
        <5> QED BY <3>2, <5>1, <5>3, <5>4
      <4> QED BY <4>1, <4>2
    <3>5. ASSUME NEW i \in Coming(r, c)', NEW j \in Coming(r, c)', i < j
          PROVE  queue'[r][i].n < queue'[r][j].n
      <4>1. i \in Coming(r, c) /\ queue'[r][i].n = queue[r][i].n /\ queue[r][i].n \in Nat
        BY <1>6, <2>3, <3>5
      <4>2. CASE j = e
        <5>1. queue[r][i].n <= sent[c] /\ queue'[r][j].n = sent[c] + 1
          BY <1>6, <2>3, <3>2, <4>1, <4>2
        <5> QED BY <1>4, <4>1, <5>1
      <4>3. CASE j # e
        <5>1. j \in Coming(r, c) /\ queue'[r][j].n = queue[r][j].n
          BY <1>6, <2>3, <4>3
        <5> QED BY <3>3, <3>5, <4>1, <5>1
      <4> QED BY <4>2, <4>3
    <3> QED BY <2>3, <3>4, <3>5 DEF Gapless
  <2> QED BY <2>2, <2>3
<1>8. ASSUME NEW r \in Conn, NEW s \in Conn PROVE heard'[r][s] <= sent'[s] /\ Reached(r, s)'
  <2>1. /\ heard'[r][s] = heard[r][s] /\ heard[r][s] \in Nat
        /\ heard[r][s] <= sent[s] /\ sent[s] <= sent'[s]
        /\ sent[s] \in Nat /\ sent'[s] \in Nat
    BY <1>1, <1>4 DEF OrderInv, TypeOK
  <2>2. Reached(r, s)'
    <3> SUFFICES ASSUME Registered(s), r \in Targets(s), rx[r]
                 PROVE  \/ heard'[r][s] = sent'[s]
                        \/ \E i \in Coming(r, s)' : queue'[r][i].n = sent'[s]
      BY <1>1, <1>2 DEF Reached
    <3>1. CASE s = c
      BY <1>4, <1>6, <3>1
    <3>2. CASE s # c
      <4>1. \/ heard[r][s] = sent[s]
            \/ \E i \in Coming(r, s) : queue[r][i].n = sent[s]
        BY DEF OrderInv, Reached
      <4> QED BY <1>4, <1>5, <2>1, <3>2, <4>1
    <3> QED BY <3>1, <3>2
  <2> QED BY <2>1, <2>2
<1>9. \A d \in Conn : ~rx'[d] => queue'[d] = <<>>
  BY <1>1 DEF OrderInv
<1>10. \A d \in Conn : /\ phase'[d] = "hello" => sent'[d] = 0 /\ ~rx'[d]
                       /\ phase'[d] = "announce" => rx'[d]
  BY <1>1, <1>4 DEF OrderInv
<1> QED BY <1>7, <1>8, <1>9, <1>10 DEF OrderInv, NothingSkipped

\* Handing the first text of a channel over moves the others up by one.
LEMMA DeliverKeepsOrder ==
    ASSUME TypeOK, TypeOK', OrderInv, NEW c \in Conn, Deliver(c)
    PROVE  OrderInv'
<1> DEFINE q == queue[c]
           x == Head(q)
<1>1. /\ UNCHANGED <<phase, hello, rooms, agent, browsers, sent, rx>>
      /\ q \in Seq(Message) /\ q # <<>>
      /\ queue'[c] = Tail(q)
      /\ \A r \in Conn \ {c} : queue'[r] = queue[r]
      /\ rx[c]
  BY DEF Deliver, connVars, roomVars, TypeOK
<1>2. \A s \in Conn : Registered(s)' = Registered(s) /\ Targets(s)' = Targets(s)
  BY <1>1 DEF Registered, Targets, RoleOf, RoomOf
<1>3. x \in Message /\ x = q[1] /\ 1 \in DOMAIN q
  BY <1>1
<1>4. /\ \A i \in DOMAIN Tail(q) : i \in Nat /\ i + 1 \in DOMAIN q /\ Tail(q)[i] = q[i + 1]
      /\ \A j \in DOMAIN q : j \in Nat /\ j >= 1 /\ q[j] \in Message
  BY <1>1
<1>5. ASSUME NEW s \in Conn
      PROVE  /\ \A i \in Coming(c, s)' : /\ i \in Nat /\ i + 1 \in Coming(c, s)
                                         /\ queue'[c][i] = queue[c][i + 1]
             /\ \A j \in Coming(c, s) : /\ j \in Nat /\ j >= 1 /\ queue[c][j].n \in Nat
                                        /\ j # 1 => /\ j - 1 \in Coming(c, s)'
                                                   /\ queue'[c][j - 1] = queue[c][j]
             /\ 1 \in Coming(c, s) <=> x.kind = "relay" /\ x.from = s
  <2>1. ASSUME NEW i \in Coming(c, s)'
        PROVE  i \in Nat /\ i + 1 \in Coming(c, s) /\ queue'[c][i] = queue[c][i + 1]
    <3>1. i \in DOMAIN Tail(q) /\ Tail(q)[i].kind = "relay" /\ Tail(q)[i].from = s
      BY <1>1 DEF Coming
    <3>2. i \in Nat /\ i + 1 \in DOMAIN q /\ Tail(q)[i] = q[i + 1]
      BY <1>4, <3>1
    <3> QED BY <1>1, <3>1, <3>2 DEF Coming
  <2>2. ASSUME NEW j \in Coming(c, s)
        PROVE  /\ j \in Nat /\ j >= 1 /\ queue[c][j].n \in Nat
               /\ j # 1 => j - 1 \in Coming(c, s)' /\ queue'[c][j - 1] = queue[c][j]
    <3>1. j \in DOMAIN q /\ q[j].kind = "relay" /\ q[j].from = s
      BY DEF Coming
    <3>2. j \in Nat /\ j >= 1 /\ q[j] \in Message
      BY <1>4, <3>1
    <3>3. q[j].n \in Nat
      BY <3>2 DEF Message
    <3>4. ASSUME j # 1
          PROVE  j - 1 \in Coming(c, s)' /\ queue'[c][j - 1] = queue[c][j]
      <4>1. j - 1 \in DOMAIN Tail(q) /\ Tail(q)[j - 1] = q[j]
        BY <1>1, <3>1, <3>2, <3>4
      <4> QED BY <1>1, <3>1, <4>1 DEF Coming
    <3> QED BY <3>2, <3>3, <3>4
  <2>3. 1 \in Coming(c, s) <=> x.kind = "relay" /\ x.from = s
    BY <1>3 DEF Coming
  <2> QED BY <2>1, <2>2, <2>3
<1>6. ASSUME NEW r \in Conn, NEW s \in Conn, r # c \/ x.kind # "relay" \/ x.from # s
      PROVE  heard'[r][s] = heard[r][s]
  BY <1>3, <1>6 DEF Deliver, TypeOK, Message
<1>7. ASSUME x.kind = "relay"
      PROVE  x.from \in Conn /\ heard'[c][x.from] = x.n
  BY <1>3, <1>7 DEF Deliver, TypeOK, Message
<1>8. ASSUME NEW r \in Conn, NEW s \in Conn
      PROVE  Gapless(r, s)' /\ heard'[r][s] <= sent'[s] /\ Reached(r, s)'
  <2>1. /\ Gapless(r, s) /\ heard[r][s] <= sent[s] /\ Reached(r, s)
        /\ heard[r][s] \in Nat /\ sent[s] \in Nat
    BY DEF OrderInv, NothingSkipped, TypeOK
  <2>2. CASE r # c
    <3>1. heard'[r][s] = heard[r][s] /\ queue'[r] = queue[r]
      BY <1>1, <1>6, <2>2
    <3>2. Coming(r, s)' = Coming(r, s)
      BY <3>1 DEF Coming
    <3> QED BY <1>1, <1>2, <2>1, <3>1, <3>2 DEF Gapless, Reached
  <2>3. CASE r = c /\ ~(x.kind = "relay" /\ x.from = s)
    <3>1. heard'[c][s] = heard[c][s] /\ 1 \notin Coming(c, s)
      BY <1>5, <1>6, <2>3
    <3>2. \A i \in Coming(c, s)' :
              /\ heard'[c][s] < queue'[c][i].n /\ queue'[c][i].n <= sent'[s]
              /\ \/ queue'[c][i].n = heard'[c][s] + 1
                 \/ \E j \in Coming(c, s)' : j < i /\ queue'[c][i].n = queue'[c][j].n + 1
      <4> SUFFICES ASSUME NEW i \in Coming(c, s)'
                   PROVE  /\ heard'[c][s] < queue'[c][i].n /\ queue'[c][i].n <= sent'[s]
                          /\ \/ queue'[c][i].n = heard'[c][s] + 1
                             \/ \E j \in Coming(c, s)' :
                                   j < i /\ queue'[c][i].n = queue'[c][j].n + 1
        OBVIOUS
      <4>1. i \in Nat /\ i + 1 \in Coming(c, s) /\ queue'[c][i] = queue[c][i + 1]
        BY <1>5
      <4>2. ASSUME NEW j \in Coming(c, s), j < i + 1, queue[c][i + 1].n = queue[c][j].n + 1
            PROVE  \E k \in Coming(c, s)' : k < i /\ queue'[c][i].n = queue'[c][k].n + 1
        <5>1. j \in Nat /\ j - 1 \in Coming(c, s)' /\ queue'[c][j - 1] = queue[c][j]
          BY <1>5, <3>1
        <5> QED BY <4>1, <4>2, <5>1
      <4> QED BY <1>1, <2>1, <2>3, <3>1, <4>1, <4>2 DEF Gapless
    <3>3. \A i, j \in Coming(c, s)' : i < j => queue'[c][i].n < queue'[c][j].n
      BY <1>5, <2>1, <2>3 DEF Gapless
    <3>4. Gapless(c, s)'
      BY <3>2, <3>3 DEF Gapless
    <3>5. Reached(c, s)'
      <4>1. ASSUME NEW i \in Coming(c, s)
            PROVE  i - 1 \in Coming(c, s)' /\ queue'[c][i - 1] = queue[c][i]
        BY <1>5, <3>1, <4>1
      <4>2. \A n : (\E i \in Coming(c, s) : queue[c][i].n = n) =>
                      \E i \in Coming(c, s)' : queue'[c][i].n = n
        BY <4>1
      <4> QED BY <1>1, <1>2, <2>1, <2>3, <3>1, <4>2 DEF Reached
    <3> QED BY <1>1, <2>1, <2>3, <3>1, <3>4, <3>5
  <2>4. CASE r = c /\ x.kind = "relay" /\ x.from = s
    <3>1. heard'[c][s] = x.n /\ 1 \in Coming(c, s) /\ queue[c][1].n = x.n
      BY <1>3, <1>5, <1>7, <2>4
    <3>2. x.n = heard[c][s] + 1 /\ x.n <= sent[s] /\ x.n \in Nat
      BY <1>3, <1>5, <2>1, <2>4, <3>1 DEF Gapless, Message
    <3>3. \A i \in Coming(c, s)' :
              /\ heard'[c][s] < queue'[c][i].n /\ queue'[c][i].n <= sent'[s]
              /\ \/ queue'[c][i].n = heard'[c][s] + 1
                 \/ \E j \in Coming(c, s)' : j < i /\ queue'[c][i].n = queue'[c][j].n + 1
      <4> SUFFICES ASSUME NEW i \in Coming(c, s)'
                   PROVE  /\ x.n < queue'[c][i].n /\ queue'[c][i].n <= sent[s]
                          /\ \/ queue'[c][i].n = x.n + 1
                             \/ \E j \in Coming(c, s)' :
                                   j < i /\ queue'[c][i].n = queue'[c][j].n + 1
        BY <1>1, <3>1
      <4>1. /\ i \in Nat /\ i + 1 \in Coming(c, s) /\ queue'[c][i] = queue[c][i + 1]
            /\ i + 1 > 1 /\ queue[c][i + 1].n \in Nat
        <5>1. i \in Nat /\ i + 1 \in Coming(c, s) /\ queue'[c][i] = queue[c][i + 1]
          BY <1>5
        <5>2. i \in DOMAIN Tail(q)
          BY <1>1 DEF Coming
        <5>3. i >= 1
          BY <1>1, <5>2
        <5> QED BY <1>5, <5>1, <5>3
      <4>2. x.n < queue[c][i + 1].n /\ queue[c][i + 1].n <= sent[s]
        BY <2>1, <2>4, <3>1, <4>1 DEF Gapless
      <4>3. PICK j \in Coming(c, s) : j < i + 1 /\ queue[c][i + 1].n = queue[c][j].n + 1
        BY <2>1, <2>4, <3>2, <4>1, <4>2 DEF Gapless
      <4>4. CASE j = 1
        BY <3>1, <4>1, <4>2, <4>3, <4>4
      <4>5. CASE j # 1
        <5>1. j \in Nat /\ j - 1 \in Coming(c, s)' /\ queue'[c][j - 1] = queue[c][j]
          BY <1>5, <4>5
        <5> QED BY <4>1, <4>2, <4>3, <5>1
      <4> QED BY <4>4, <4>5
    <3>4. \A i, j \in Coming(c, s)' : i < j => queue'[c][i].n < queue'[c][j].n
      BY <1>5, <2>1, <2>4 DEF Gapless
    <3>5. Gapless(c, s)'
      BY <3>3, <3>4 DEF Gapless
    <3>6. Reached(c, s)'
      <4> SUFFICES ASSUME Registered(s), c \in Targets(s)
                   PROVE  \/ heard'[c][s] = sent[s]
                          \/ \E i \in Coming(c, s)' : queue'[c][i].n = sent[s]
        BY <1>1, <1>2 DEF Reached
      <4>1. PICK i \in Coming(c, s) : queue[c][i].n = sent[s]
        BY <1>1, <2>1, <2>4, <3>2 DEF Reached
      <4>2. CASE i = 1
        BY <3>1, <4>1, <4>2
      <4>3. CASE i # 1
        BY <1>5, <4>1, <4>3
      <4> QED BY <4>2, <4>3
    <3> QED BY <1>1, <2>4, <3>1, <3>2, <3>5, <3>6
  <2> QED BY <2>2, <2>3, <2>4
<1>9. \A d \in Conn : ~rx'[d] => queue'[d] = <<>>
  BY <1>1 DEF OrderInv
<1>10. \A d \in Conn : /\ phase'[d] = "hello" => sent'[d] = 0 /\ ~rx'[d]
                       /\ phase'[d] = "announce" => rx'[d]
  BY <1>1 DEF OrderInv
<1> QED BY <1>8, <1>9, <1>10 DEF OrderInv, NothingSkipped

\* A connection that hears no more, its channel emptied, breaks nobody's order.
LEMMA SilenceKeepsOrder ==
    ASSUME TypeOK, TypeOK', OrderInv, NEW c \in Conn, SendFails(c) \/ Finish(c)
    PROVE  OrderInv'
<1>1. /\ UNCHANGED <<hello, rooms, agent, browsers, sent>>
      /\ queue' = [queue EXCEPT ![c] = <<>>]
      /\ rx' = [rx EXCEPT ![c] = FALSE]
      /\ heard' = heard \/ heard' = [heard EXCEPT ![c] = [d \in Conn |-> 0]]
  BY DEF SendFails, Finish, connVars, roomVars
<1>2. /\ \A s \in Conn : Registered(s)' => Registered(s)
      /\ \A s \in Conn : Targets(s)' = Targets(s)
      /\ \A d \in Conn : /\ phase'[d] = "hello" => phase[d] = "hello"
                         /\ phase'[d] = "announce" => phase[d] = "announce" /\ d # c
  BY <1>1 DEF SendFails, Finish, connVars, Registered, Targets, RoleOf, RoomOf, TypeOK
<1>3. /\ \A r, s \in Conn : r # c => heard'[r][s] = heard[r][s]
      /\ \A r \in Conn : r # c => queue'[r] = queue[r] /\ rx'[r] = rx[r]
      /\ \A s \in Conn : heard'[c][s] = heard[c][s] \/ heard'[c][s] = 0
      /\ queue'[c] = <<>> /\ ~rx'[c]
  <2>1. /\ \A r, s \in Conn : r # c => heard'[r][s] = heard[r][s]
        /\ \A s \in Conn : heard'[c][s] = heard[c][s] \/ heard'[c][s] = 0
    <3>1. CASE heard' = heard
      BY <3>1
    <3>2. CASE heard' = [heard EXCEPT ![c] = [d \in Conn |-> 0]]
      BY <3>2 DEF TypeOK
    <3> QED BY <1>1, <3>1, <3>2
  <2>2. /\ \A r \in Conn : r # c => queue'[r] = queue[r] /\ rx'[r] = rx[r]
        /\ queue'[c] = <<>> /\ ~rx'[c]
    BY <1>1 DEF TypeOK
  <2> QED BY <2>1, <2>2
<1>4. /\ \A r, s \in Conn : r # c => Coming(r, s)' = Coming(r, s)
      /\ \A s \in Conn : Coming(c, s)' = {}
  BY <1>3 DEF Coming
<1>5. ASSUME NEW r \in Conn, NEW s \in Conn
      PROVE  Gapless(r, s)' /\ heard'[r][s] <= sent'[s] /\ Reached(r, s)'
  <2>1. /\ Gapless(r, s) /\ heard[r][s] <= sent[s] /\ Reached(r, s)
        /\ heard[r][s] \in Nat /\ sent[s] \in Nat
    BY DEF OrderInv, NothingSkipped, TypeOK
  <2>2. CASE r = c
    BY <1>1, <1>3, <1>4, <2>1, <2>2 DEF Gapless, Reached
  <2>3. CASE r # c
    BY <1>1, <1>2, <1>3, <1>4, <2>1, <2>3 DEF Gapless, Reached
  <2> QED BY <2>2, <2>3
<1>6. \A d \in Conn : ~rx'[d] => queue'[d] = <<>>
  BY <1>3 DEF OrderInv
<1>7. \A d \in Conn : /\ phase'[d] = "hello" => sent'[d] = 0 /\ ~rx'[d]
                      /\ phase'[d] = "announce" => rx'[d]
  BY <1>1, <1>2, <1>3 DEF OrderInv
<1> QED BY <1>5, <1>6, <1>7 DEF OrderInv, NothingSkipped

\* A synthetic ready or an error is appended like any other text.
LEMMA NudgeAppends ==
    ASSUME TypeOK, NEW c \in Conn, Announce(c) \/ RepeatHello(c)
    PROVE  \E x \in Message : /\ x.kind # "relay"
                             /\ queue' = [queue EXCEPT ![c] = Append(@, x)]
<1>1. /\ [kind |-> "ready", from |-> c, n |-> 0] \in Message
      /\ [kind |-> "error", from |-> c, n |-> 0] \in Message
  BY DEF Message
<1>2. CASE Announce(c)
  BY <1>1, <1>2 DEF Announce
<1>3. CASE RepeatHello(c)
  <2>1. /\ queue[c] = <<>>
        /\ queue' = [queue EXCEPT ![c] = <<[kind |-> "error", from |-> c, n |-> 0]>>]
    BY <1>3 DEF RepeatHello
  <2>2. queue' = [queue EXCEPT ![c] = Append(@, [kind |-> "error", from |-> c, n |-> 0])]
    BY <2>1 DEF TypeOK
  <2> QED BY <1>1, <2>2
<1> QED BY <1>2, <1>3

LEMMA OrderInvariant == Spec => []OrderInv
<1>1. Init => OrderInv
  BY DEF Init, OrderInv, NothingSkipped, Gapless, Coming, Reached, Registered
<1>2. /\ TypeOK /\ TypeOK' /\ RoomInv /\ RoomInv' /\ OrderInv /\ [Next]_vars
      => OrderInv'
  <2> SUFFICES ASSUME TypeOK, TypeOK', RoomInv, RoomInv', OrderInv, [Next]_vars
               PROVE  OrderInv'
    OBVIOUS
  <2>1. ASSUME NEW c \in Conn, NEW h \in Hello, Register(c, h) PROVE OrderInv'
    BY <2>1, RegisterKeepsOrder
  <2>2. ASSUME NEW c \in Conn, RelayText(c) PROVE OrderInv'
    BY <2>2, RelayTextKeepsOrder
  <2>3. ASSUME NEW c \in Conn, Deliver(c) PROVE OrderInv'
    BY <2>3, DeliverKeepsOrder
  <2>4. ASSUME NEW c \in Conn, SendFails(c) \/ Finish(c) PROVE OrderInv'
    BY <2>4, SilenceKeepsOrder
  <2>5. ASSUME NEW c \in Conn, Announce(c) \/ RepeatHello(c) PROVE OrderInv'
    <3>1. PICK x \in Message :
              /\ x.kind # "relay"
              /\ queue' = [queue EXCEPT ![c] = Append(@, x)]
      BY <2>5, NudgeAppends
    <3>2. /\ UNCHANGED <<hello, rooms, agent, browsers, rx, heard, sent>>
          /\ \A s \in Conn : Registered(s)' <=> Registered(s)
          /\ \A d \in Conn : /\ phase'[d] = "hello" => phase[d] = "hello"
                             /\ phase'[d] = "announce" => phase[d] = "announce"
          /\ rx[c]
      BY <2>5 DEF Announce, RepeatHello, connVars, roomVars, Registered, TypeOK, OrderInv
    <3>3. \A s \in Conn : Targets(s)' = Targets(s)
      BY <3>2 DEF Targets, RoleOf, RoomOf
    <3>4. ASSUME NEW r \in Conn, NEW s \in Conn
          PROVE  /\ Coming(r, s)' = Coming(r, s)
                 /\ \A i \in Coming(r, s) : queue'[r][i].n = queue[r][i].n
      <4>1. CASE r = c
        <5>1. queue'[c] = Append(queue[c], x) /\ queue[c] \in Seq(Message)
          BY <3>1 DEF TypeOK
        <5>2. /\ DOMAIN queue'[c] = DOMAIN queue[c] \cup {Len(queue[c]) + 1}
              /\ queue'[c][Len(queue[c]) + 1] = x
              /\ \A i \in DOMAIN queue[c] : queue'[c][i] = queue[c][i]
          BY <5>1
        <5> QED BY <3>1, <4>1, <5>2 DEF Coming
      <4>2. CASE r # c
        BY <3>1, <4>2 DEF Coming, TypeOK
      <4> QED BY <4>1, <4>2
    <3>5. \A d \in Conn : ~rx[d] => queue'[d] = queue[d]
      BY <3>1, <3>2 DEF TypeOK
    <3> QED BY <3>2, <3>3, <3>4, <3>5, OrderKept
  <2>6. CASE \/ \E c \in Conn : Refuse(c) \/ Disconnect(c) \/ Cleanup(c)
             \/ UNCHANGED vars
    <3>1. /\ UNCHANGED <<hello, queue, rx, heard, sent>>
          /\ \A s \in Conn : Registered(s)' => Registered(s)
          /\ \A d \in Conn : /\ phase'[d] = "hello" => phase[d] = "hello"
                             /\ phase'[d] = "announce" => phase[d] = "announce"
      BY <2>6 DEF Refuse, Disconnect, Cleanup, vars, connVars, chanVars, Registered, TypeOK
    <3>2. /\ rooms' \subseteq rooms
          /\ \A m \in Spelling : /\ browsers'[m] \subseteq browsers[m]
                                 /\ agent'[m] = agent[m] \/ agent'[m] = None
      <4>1. ASSUME NEW c \in Conn, Cleanup(c)
            PROVE  /\ rooms' \subseteq rooms
                   /\ \A m \in Spelling : /\ browsers'[m] \subseteq browsers[m]
                                          /\ agent'[m] = agent[m] \/ agent'[m] = None
        <5>1. CASE UNCHANGED <<agent, browsers, rooms>>
          BY <5>1
        <5>2. CASE /\ agent' = [agent EXCEPT ![RoomOf(c)] = SeatAfter(c)]
                   /\ browsers' = [browsers EXCEPT ![RoomOf(c)] = @ \ {c}]
                   /\ rooms' \subseteq rooms
          BY <5>2 DEF TypeOK, SeatAfter
        <5> QED BY <4>1, <5>1, <5>2 DEF Cleanup
      <4> QED BY <2>6, <4>1 DEF Refuse, Disconnect, vars, roomVars
    <3>3. ASSUME NEW s \in Conn, Registered(s)' PROVE Targets(s)' \subseteq Targets(s)
      <4>1. RoomOf(s) \in Spelling
        BY <3>1, <3>3 DEF Registered, TypeOK, RoomOf, Hello
      <4>2. RoleOf(s)' = RoleOf(s) /\ RoomOf(s)' = RoomOf(s)
        BY <3>1 DEF RoleOf, RoomOf
      <4> DEFINE k == RoomOf(s)
      <4>3. ASSUME k \in rooms' PROVE Targets(s)' \subseteq Targets(s)
        <5>1. k \in rooms
          BY <3>2, <4>3
        <5>2. CASE RoleOf(s) = "agent"
          <6>1. Targets(s) = browsers[k]
            BY <5>1, <5>2 DEF Targets
          <6>2. Targets(s)' = browsers'[k]
            BY <4>2, <4>3, <5>2 DEF Targets
          <6> QED BY <3>2, <4>1, <6>1, <6>2
        <5>3. CASE RoleOf(s) # "agent"
          <6>1. Targets(s)' = {agent'[k]} \ {None} /\ Targets(s) = {agent[k]} \ {None}
            BY <4>2, <4>3, <5>1, <5>3 DEF Targets
          <6>2. agent'[k] = agent[k] \/ agent'[k] = None
            BY <3>2, <4>1
          <6> HIDE DEF k
          <6> QED BY <6>1, <6>2
        <5> QED BY <5>2, <5>3
      <4>4. CASE k \notin rooms'
        BY <4>2, <4>4 DEF Targets
      <4> QED BY <4>3, <4>4
    <3>4. \A r, s \in Conn : Coming(r, s)' = Coming(r, s)
      BY <3>1 DEF Coming
    <3> QED BY <3>1, <3>3, <3>4, OrderKept
  <2> QED BY <2>1, <2>2, <2>3, <2>4, <2>5, <2>6 DEF Next, Step
<1> QED BY <1>1, <1>2, TypeCorrect, RoomsInvariant, PTL DEF Spec

\* No text is skipped, repeated or reordered between two connections, however
\* many there are and however their tasks interleave (main.rs:166-183, 225-241).
THEOREM TextsInOrder == Spec => []NothingSkipped
<1>1. OrderInv => NothingSkipped
  BY DEF OrderInv
<1> QED BY <1>1, OrderInvariant, PTL

----------------------------------------------------------------------------
(* The nudge.                                                              *)

\* A task that has its ready still to announce has not read anything yet.
Unread == \A c \in Conn : phase[c] = "announce" => sent[c] = 0

NudgeInv == ReadyOnItsWay /\ Unread

\* What nudges the agent goes on nudging it, as long as its channel only loses
\* what was written to its socket.
LEMMA NudgeStays ==
    ASSUME NEW a \in Conn, NEW b \in Conn, ReadyOnItsWay, Meeting(a, b), sent[b] > 0,
           phase'[a] = phase[a], prompted[a] \subseteq prompted'[a],
           \A i \in DOMAIN queue[a] :
               queue[a][i].kind # "error" =>
                   \/ queue[a][i].from \in prompted'[a]
                   \/ \E j \in DOMAIN queue'[a] : queue'[a][j] = queue[a][i]
    PROVE  Nudged(a, b)'
<1>1. Nudged(a, b)
  BY DEF ReadyOnItsWay
<1>2. CASE phase[a] = "announce" \/ prompted[a] \cap {a, b} # {}
  BY <1>2 DEF Nudged
<1>3. CASE \E i \in DOMAIN queue[a] :
               queue[a][i].kind # "error" /\ queue[a][i].from \in {a, b}
  <2>1. PICK i \in DOMAIN queue[a] :
            queue[a][i].kind # "error" /\ queue[a][i].from \in {a, b}
    BY <1>3
  <2>2. CASE queue[a][i].from \in prompted'[a]
    BY <2>1, <2>2 DEF Nudged
  <2>3. CASE \E j \in DOMAIN queue'[a] : queue'[a][j] = queue[a][i]
    BY <2>1, <2>3 DEF Nudged
  <2> QED BY <2>1, <2>2, <2>3
<1> QED BY <1>1, <1>2, <1>3 DEF Nudged

\* Appending leaves what a channel holds where it is.
LEMMA AppendHolds ==
    ASSUME NEW S, NEW q \in Seq(S), NEW x \in S
    PROVE  /\ \A i \in DOMAIN q : i \in DOMAIN Append(q, x) /\ Append(q, x)[i] = q[i]
           /\ Len(q) + 1 \in DOMAIN Append(q, x) /\ Append(q, x)[Len(q) + 1] = x
OBVIOUS

\* An agent that comes to a waiting browser announces; a browser that comes has
\* not spoken; nobody else's meeting is disturbed.
LEMMA RegisterNudges ==
    ASSUME TypeOK, TypeOK', RoomInv', OrderInv, ReadyOnItsWay,
           NEW c \in Conn, NEW h \in Hello, Register(c, h),
           NEW a \in Conn, NEW b \in Conn, Meeting(a, b)', sent'[b] > 0
    PROVE  Nudged(a, b)'
<1>1. /\ hello' = [hello EXCEPT ![c] = h] /\ phase[c] = "hello" /\ h.machine_id \in Spelling
      /\ UNCHANGED <<queue, prompted, sent>>
      /\ rx' = [rx EXCEPT ![c] = TRUE]
      /\ phase' = [phase EXCEPT ![c] = IF WaitingFor(h) = {} THEN "open" ELSE "announce"]
  BY DEF Register, Hello
<1>2. c # b
  BY <1>1 DEF OrderInv
<1>3. CASE c = a
  <2>1. RoomOf(a)' = h.machine_id /\ RoleOf(a)' = h.role
    BY <1>1, <1>3 DEF TypeOK, RoomOf, RoleOf
  <2>2. agent'[h.machine_id] = a /\ b \in browsers'[h.machine_id]
    BY <2>1 DEF Meeting
  <2>3. h.role = "agent"
    BY <1>1, <2>1, <2>2, NoneAssumption DEF RoomInv, RoomsConsistent, SeatLive
  <2>4. browsers' = browsers
    BY <2>3 DEF Register
  <2>5. WaitingFor(h) # {}
    BY <2>2, <2>3, <2>4 DEF WaitingFor
  <2>6. phase'[a] = "announce"
    BY <1>1, <1>3, <2>5 DEF TypeOK
  <2> QED BY <2>6 DEF Nudged
<1>4. CASE c # a
  <2>1. /\ RoomOf(a)' = RoomOf(a) /\ phase'[a] = phase[a] /\ phase'[b] = phase[b]
        /\ rx'[a] = rx[a]
    BY <1>1, <1>2, <1>4 DEF TypeOK, RoomOf
  <2>2. RoomOf(a) \in Spelling
    BY <2>1 DEF Meeting, TypeOK, RoomOf, Hello
  <2>3. agent[RoomOf(a)] = a /\ b \in browsers[RoomOf(a)]
    <3>1. agent'[RoomOf(a)] = a /\ b \in browsers'[RoomOf(a)]
      BY <2>1 DEF Meeting
    <3>2. CASE agent' = [agent EXCEPT ![h.machine_id] = c] /\ UNCHANGED browsers
      BY <1>4, <2>2, <3>1, <3>2 DEF TypeOK
    <3>3. CASE browsers' = [browsers EXCEPT ![h.machine_id] = @ \cup {c}] /\ UNCHANGED agent
      BY <1>2, <2>2, <3>1, <3>3 DEF TypeOK
    <3> QED BY <3>2, <3>3 DEF Register
  <2>4. Meeting(a, b)
    BY <2>1, <2>3 DEF Meeting
  <2> QED BY <1>1, <2>1, <2>4, NudgeStays
<1> QED BY <1>3, <1>4

\* What a browser says goes to the agent it meets.
LEMMA RelayTextNudges ==
    ASSUME TypeOK, RoomInv, ReadyOnItsWay, NEW c \in Conn, RelayText(c),
           NEW a \in Conn, NEW b \in Conn, Meeting(a, b)', sent'[b] > 0
    PROVE  Nudged(a, b)'
<1> DEFINE x == [kind |-> "relay", from |-> c, n |-> sent[c] + 1]
<1>1. /\ UNCHANGED <<phase, hello, rooms, agent, browsers, prompted, rx>>
      /\ sent' = [sent EXCEPT ![c] = @ + 1]
      /\ queue'[a] = IF a \in Targets(c) /\ rx[a] THEN Append(queue[a], x) ELSE queue[a]
      /\ x \in Message /\ queue[a] \in Seq(Message)
  <2>1. sent[c] + 1 \in Nat /\ queue[a] \in Seq(Message)
    BY DEF TypeOK
  <2>2. x \in Message
    BY <2>1 DEF Message
  <2> QED BY <2>1, <2>2 DEF RelayText, connVars, roomVars
<1>2. Meeting(a, b)
  BY <1>1 DEF Meeting, RoomOf
<1>3. CASE c = b
  <2>1. RoomOf(a) \in Spelling
    BY <1>2 DEF Meeting, TypeOK, RoomOf, Hello
  <2>2. b \in browsers[RoomOf(a)] /\ agent[RoomOf(a)] = a /\ rx[a]
    BY <1>2 DEF Meeting
  <2>3. RoleOf(b) = "browser" /\ RoomOf(b) = RoomOf(a)
    BY <2>1, <2>2 DEF RoomInv, RoomsConsistent, BrowsersExact
  <2>4. RoomOf(a) \in rooms
    BY <2>1, <2>2 DEF RoomInv, RoomsConsistent, RoomsExact
  <2>5. a \in Targets(b)
    BY <2>2, <2>3, <2>4, NoneAssumption DEF Targets
  <2>6. Len(queue[a]) + 1 \in DOMAIN queue'[a] /\ queue'[a][Len(queue[a]) + 1] = x
    BY <1>1, <1>3, <2>2, <2>5, AppendHolds
  <2> QED BY <1>3, <2>6 DEF Nudged
<1>4. CASE c # b
  <2>1. sent[b] > 0
    BY <1>1, <1>4 DEF TypeOK
  <2>2. \A i \in DOMAIN queue[a] : i \in DOMAIN queue'[a] /\ queue'[a][i] = queue[a][i]
    BY <1>1, AppendHolds
  <2> QED BY <1>1, <1>2, <2>1, <2>2, NudgeStays
<1> QED BY <1>3, <1>4

\* What the agent's channel loses is written to its socket.
LEMMA DeliverNudges ==
    ASSUME TypeOK, ReadyOnItsWay, NEW c \in Conn, Deliver(c),
           NEW a \in Conn, NEW b \in Conn, Meeting(a, b)', sent'[b] > 0
    PROVE  Nudged(a, b)'
<1>1. UNCHANGED <<phase, hello, agent, browsers, rx, sent>>
  BY DEF Deliver, connVars, roomVars
<1>2. Meeting(a, b)
  BY <1>1 DEF Meeting, RoomOf
<1>3. CASE c = a
  <2> DEFINE q == queue[a]
             x == Head(q)
  <2>1. /\ q \in Seq(Message) /\ q # <<>> /\ queue'[a] = Tail(q)
        /\ prompted'[a] = IF x.kind = "error" THEN prompted[a]
                          ELSE prompted[a] \cup {x.from}
    BY <1>3 DEF Deliver, TypeOK
  <2>2. /\ \A i \in DOMAIN q : i # 1 =>
              i - 1 \in DOMAIN Tail(q) /\ Tail(q)[i - 1] = q[i]
        /\ x = q[1]
    BY <2>1
  <2>3. ASSUME NEW i \in DOMAIN q, q[i].kind # "error"
        PROVE  \/ q[i].from \in prompted'[a]
               \/ \E j \in DOMAIN queue'[a] : queue'[a][j] = q[i]
    <3>1. CASE i = 1
      BY <2>1, <2>2, <2>3, <3>1
    <3>2. CASE i # 1
      BY <2>1, <2>2, <3>2
    <3> QED BY <3>1, <3>2
  <2> QED BY <1>1, <1>2, <2>1, <2>3, NudgeStays
<1>4. CASE c # a
  <2>1. queue'[a] = queue[a] /\ prompted'[a] = prompted[a]
    BY <1>4 DEF Deliver, TypeOK
  <2> QED BY <1>1, <1>2, <2>1, NudgeStays
<1> QED BY <1>3, <1>4

\* The agent's own task puts the ready it announces into the channel.
LEMMA AnnounceNudges ==
    ASSUME TypeOK, NudgeInv, NEW c \in Conn, Announce(c) \/ RepeatHello(c),
           NEW a \in Conn, NEW b \in Conn, Meeting(a, b)', sent'[b] > 0
    PROVE  Nudged(a, b)'
<1>1. PICK x \in Message : queue' = [queue EXCEPT ![c] = Append(@, x)]
  BY NudgeAppends
<1>2. /\ UNCHANGED <<hello, agent, browsers, rx, sent, prompted>>
      /\ phase[a] \in {"announce", "open"} /\ queue[a] \in Seq(Message)
      /\ \A d \in Conn \ {c} : phase'[d] = phase[d] /\ queue'[d] = queue[d]
  <2>1. UNCHANGED <<hello, agent, browsers, rx, sent, prompted>>
    BY DEF Announce, RepeatHello, connVars, roomVars
  <2>2. queue[a] \in Seq(Message) /\ \A d \in Conn \ {c} : queue'[d] = queue[d]
    BY <1>1 DEF TypeOK
  <2>3. /\ phase[c] \in {"announce", "open"}
        /\ \A d \in Conn \ {c} : phase'[d] = phase[d]
    BY DEF Announce, RepeatHello, connVars, TypeOK
  <2>4. phase[a] \in {"announce", "open"}
    BY <2>3 DEF Meeting
  <2> QED BY <2>1, <2>2, <2>3, <2>4
<1>3. phase[b] = "open"
  BY DEF NudgeInv, Unread, Announce, RepeatHello, connVars, Meeting, TypeOK
<1>4. Meeting(a, b) /\ sent[b] > 0
  BY <1>2, <1>3 DEF Meeting, RoomOf
<1>5. \A i \in DOMAIN queue[a] : i \in DOMAIN queue'[a] /\ queue'[a][i] = queue[a][i]
  <2>1. CASE a = c
    <3>1. queue'[a] = Append(queue[a], x)
      BY <1>1, <2>1 DEF TypeOK
    <3> QED BY <1>2, <3>1, AppendHolds
  <2>2. CASE a # c
    BY <1>2, <2>2
  <2> QED BY <2>1, <2>2
<1>6. CASE Announce(c) /\ c = a
  <2> DEFINE y == [kind |-> "ready", from |-> a, n |-> 0]
  <2>1. queue'[a] = Append(queue[a], y) /\ y \in Message
    BY <1>6 DEF Announce, TypeOK, Message
  <2>2. Len(queue[a]) + 1 \in DOMAIN queue'[a] /\ queue'[a][Len(queue[a]) + 1] = y
    BY <1>2, <2>1, AppendHolds
  <2> QED BY <2>2 DEF Nudged
<1>7. CASE RepeatHello(c) \/ c # a
  <2>1. phase'[a] = phase[a]
    BY <1>2, <1>7 DEF RepeatHello, connVars
  <2> QED BY <1>2, <1>4, <1>5, <2>1, NudgeStays DEF NudgeInv
<1> QED BY <1>6, <1>7

\* Whoever goes ends his own meetings and nobody else's.
LEMMA EndingsNudge ==
    ASSUME TypeOK, ReadyOnItsWay, NEW c \in Conn,
           Refuse(c) \/ Disconnect(c) \/ Cleanup(c) \/ Finish(c) \/ SendFails(c),
           NEW a \in Conn, NEW b \in Conn, Meeting(a, b)', sent'[b] > 0
    PROVE  Nudged(a, b)'
<1>1. c # a
  BY DEF Meeting, Refuse, Disconnect, Cleanup, Finish, SendFails, TypeOK
<1>2. /\ UNCHANGED <<hello, sent>>
      /\ phase'[a] = phase[a] /\ rx'[a] = rx[a]
      /\ queue'[a] = queue[a] /\ prompted'[a] = prompted[a]
  <2>1. UNCHANGED <<hello, sent>> /\ phase'[a] = phase[a]
    BY <1>1 DEF Refuse, Disconnect, Cleanup, Finish, SendFails, TypeOK, connVars, chanVars
  <2>2. rx'[a] = rx[a] /\ queue'[a] = queue[a] /\ prompted'[a] = prompted[a]
    BY <1>1 DEF Refuse, Disconnect, Cleanup, Finish, SendFails, TypeOK, connVars, chanVars
  <2> QED BY <2>1, <2>2
<1>3. phase[b] = "open"
  BY DEF Meeting, Refuse, Disconnect, Cleanup, Finish, SendFails, TypeOK, connVars
<1>4. \A m \in Spelling : /\ browsers'[m] \subseteq browsers[m]
                          /\ agent'[m] = agent[m] \/ agent'[m] = None
  <2>1. CASE Cleanup(c)
    <3>1. CASE UNCHANGED <<agent, browsers>>
      BY <3>1
    <3>2. CASE /\ agent' = [agent EXCEPT ![RoomOf(c)] = SeatAfter(c)]
               /\ browsers' = [browsers EXCEPT ![RoomOf(c)] = @ \ {c}]
      BY <3>2 DEF TypeOK, SeatAfter
    <3> QED BY <2>1, <3>1, <3>2 DEF Cleanup
  <2>2. CASE Refuse(c) \/ Disconnect(c) \/ Finish(c) \/ SendFails(c)
    BY <2>2 DEF Refuse, Disconnect, Finish, SendFails, roomVars
  <2> QED BY <2>1, <2>2
<1>5. RoomOf(a)' = RoomOf(a) /\ RoomOf(a) \in Spelling
  BY <1>2 DEF Meeting, TypeOK, RoomOf, Hello
<1>6. Meeting(a, b) /\ sent[b] > 0
  BY <1>2, <1>3, <1>4, <1>5, NoneAssumption DEF Meeting
<1> QED BY <1>2, <1>6, NudgeStays

\* A seated agent that meets a browser which has spoken is nudged from that
\* moment on, for any connections and machines and whatever their tasks'
\* interleaving (main.rs:161-197).
THEOREM NudgeNeverMissed == Spec => []ReadyOnItsWay
<1>1. Init => NudgeInv
  BY DEF Init, NudgeInv, ReadyOnItsWay, Meeting, Unread
<1>2. /\ TypeOK /\ TypeOK' /\ RoomInv /\ RoomInv' /\ OrderInv /\ NudgeInv /\ [Next]_vars
      => NudgeInv'
  <2> SUFFICES ASSUME TypeOK, TypeOK', RoomInv, RoomInv', OrderInv, NudgeInv, [Next]_vars
               PROVE  NudgeInv'
    OBVIOUS
  <2>1. ReadyOnItsWay'
    <3> SUFFICES ASSUME NEW a \in Conn, NEW b \in Conn, Meeting(a, b)', sent'[b] > 0
                 PROVE  Nudged(a, b)'
      BY DEF ReadyOnItsWay
    <3>1. CASE UNCHANGED vars
      BY <3>1 DEF vars, connVars, roomVars, chanVars, NudgeInv, ReadyOnItsWay, Meeting,
         Nudged, RoomOf
    <3>2. ASSUME NEW c \in Conn, Step(c) PROVE Nudged(a, b)'
      BY <3>2, RegisterNudges, RelayTextNudges, DeliverNudges, AnnounceNudges, EndingsNudge
         DEF Step, NudgeInv
    <3> QED BY <3>1, <3>2 DEF Next
  <2>2. Unread'
    <3> SUFFICES ASSUME NEW d \in Conn, phase'[d] = "announce" PROVE sent'[d] = 0
      BY DEF Unread
    <3>1. CASE UNCHANGED vars
      BY <3>1 DEF vars, connVars, NudgeInv, Unread
    <3>2. ASSUME NEW c \in Conn, NEW h \in Hello, Register(c, h) PROVE sent'[d] = 0
      BY <3>2 DEF Register, NudgeInv, Unread, OrderInv, TypeOK
    <3>3. ASSUME NEW c \in Conn, RelayText(c) PROVE sent'[d] = 0
      BY <3>3 DEF RelayText, connVars, NudgeInv, Unread, TypeOK
    <3>4. ASSUME NEW c \in Conn, Announce(c) \/ RepeatHello(c) \/ Deliver(c) \/ SendFails(c)
          PROVE  sent'[d] = 0
      BY <3>4 DEF Announce, RepeatHello, Deliver, SendFails, connVars, NudgeInv, Unread, TypeOK
    <3>5. ASSUME NEW c \in Conn, Refuse(c) \/ Disconnect(c) \/ Cleanup(c) \/ Finish(c)
          PROVE  sent'[d] = 0
      BY <3>5 DEF Refuse, Disconnect, Cleanup, Finish, NudgeInv, Unread, TypeOK
    <3> QED BY <3>1, <3>2, <3>3, <3>4, <3>5 DEF Next, Step
  <2> QED BY <2>1, <2>2 DEF NudgeInv
<1>3. NudgeInv => ReadyOnItsWay
  BY DEF NudgeInv
<1> QED BY <1>1, <1>2, <1>3, TypeCorrect, RoomsInvariant, OrderInvariant, PTL DEF Spec

----------------------------------------------------------------------------
(* The relay implements Room.                                              *)

\* A registered connection's place is what its token proves.
LEMMA PlaceIsHello ==
    ASSUME TypeOK, HelloAuthentic, NEW d \in Conn, Registered(d)
    PROVE  /\ PlaceOf(d) = [role |-> RoleOf(d), machine |-> IdOf[RoomOf(d)], room |-> RoomOf(d)]
           /\ RoleOf(d) \in {"agent", "browser"} /\ RoomOf(d) \in Spelling
<1>1. hello[d] \in Hello /\ hello[d] # None
  BY NoneAssumption DEF TypeOK, Registered
<1>2. Authentic(hello[d])
  BY <1>1 DEF HelloAuthentic
<1> QED BY <1>1, <1>2 DEF Authentic, RoleOf, RoomOf, Hello, Role, PlaceOf

\* Whom the relay pushes a text to is whom the text is for.
LEMMA TargetsAreAudience ==
    ASSUME TypeOK, RoomInv, HelloAuthentic, NEW c \in Conn, Registered(c)
    PROVE  R!Audience(c) = Targets(c)
<1> DEFINE Faced(d) == RoomOf(d) = RoomOf(c) /\ RoleOf(d) # RoleOf(c)
<1>1. \A d \in Conn : Registered(d) =>
          /\ PlaceOf(d) = [role |-> RoleOf(d), machine |-> IdOf[RoomOf(d)], room |-> RoomOf(d)]
          /\ RoleOf(d) \in {"agent", "browser"} /\ RoomOf(d) \in Spelling
  BY PlaceIsHello
<1>2. R!Audience(c) = {d \in Conn : /\ Registered(d) /\ Faced(d)
                                    /\ RoleOf(d) = "agent" => newest[RoomOf(d)] = d}
  <2>1. R!Audience(c) =
            {d \in {e \in Conn : Registered(e)} :
                /\ R!Facing(PlaceOf(c), PlaceOf(d))
                /\ PlaceOf(d).role = "agent" => newest[PlaceOf(d).room] = d}
    BY DEF R!Audience
  <2>2. ASSUME NEW d \in Conn, Registered(d)
        PROVE  /\ R!Facing(PlaceOf(c), PlaceOf(d)) <=> Faced(d)
               /\ PlaceOf(d).role = RoleOf(d) /\ PlaceOf(d).room = RoomOf(d)
    <3>1. /\ PlaceOf(c) = [role |-> RoleOf(c), machine |-> IdOf[RoomOf(c)], room |-> RoomOf(c)]
          /\ PlaceOf(d) = [role |-> RoleOf(d), machine |-> IdOf[RoomOf(d)], room |-> RoomOf(d)]
      BY <1>1, <2>2
    <3> QED BY <3>1 DEF R!Facing
  <2> HIDE DEF Faced
  <2> QED BY <2>1, <2>2
<1>3. RoomOf(c) \in Spelling /\ RoleOf(c) \in {"agent", "browser"}
  BY <1>1
<1>4. CASE RoleOf(c) = "agent"
  <2>1. Targets(c) = browsers[RoomOf(c)]
    BY <1>3, <1>4 DEF Targets, RoomInv, RoomsConsistent, RoomsExact
  <2>2. browsers[RoomOf(c)] = {d \in Conn : /\ Registered(d)
                                            /\ RoleOf(d) = "browser"
                                            /\ RoomOf(d) = RoomOf(c)}
    BY <1>3 DEF RoomInv, RoomsConsistent, BrowsersExact
  <2> QED BY <1>1, <1>2, <1>4, <2>1, <2>2
<1>5. CASE RoleOf(c) = "browser"
  <2>1. Targets(c) = {agent[RoomOf(c)]} \ {None}
    BY <1>3, <1>5 DEF Targets, RoomInv, RoomsConsistent, RoomsExact
  <2>2. agent[RoomOf(c)] = IF newest[RoomOf(c)] # None /\ Registered(newest[RoomOf(c)])
                           THEN newest[RoomOf(c)] ELSE None
    BY <1>3 DEF RoomInv, NewestAgentSeated
  <2>3. newest[RoomOf(c)] # None =>
            /\ newest[RoomOf(c)] \in Conn
            /\ RoleOf(newest[RoomOf(c)]) = "agent"
            /\ RoomOf(newest[RoomOf(c)]) = RoomOf(c)
    BY <1>3 DEF RoomInv, NewestKnown
  <2>4. R!Audience(c) = {d \in Conn : Registered(d) /\ Faced(d) /\ newest[RoomOf(c)] = d}
    BY <1>1, <1>2, <1>5
  <2> QED BY <1>5, <2>1, <2>2, <2>3, <2>4, NoneAssumption
<1> QED BY <1>3, <1>4, <1>5

\* Registering is joining.
LEMMA RegisterJoins ==
    ASSUME TypeOK, HelloAuthentic, NEW c \in Conn, NEW h \in Hello, Register(c, h)
    PROVE  R!Next
<1> DEFINE p == [role |-> h.role, machine |-> IdOf[h.machine_id], room |-> h.machine_id]
<1>1. /\ PlaceOf(c) = None /\ h # None
      /\ h.token = [role |-> h.role, machine |-> IdOf[h.machine_id]]
      /\ h.role \in {"agent", "browser"} /\ h.machine_id \in Spelling
      /\ hello' = [hello EXCEPT ![c] = h]
      /\ queue' = queue /\ sent' = sent
      /\ rx' = [rx EXCEPT ![c] = TRUE]
      /\ heard' = [heard EXCEPT ![c] = SpokenBefore(h)]
  BY NoneAssumption DEF Register, HelloAuthentic, Authentic, Hello, Role, PlaceOf
<1>2. /\ p \in R!Place
      /\ IdOf[p.room] = p.machine
      /\ p.role = h.role /\ p.room = h.machine_id
  BY <1>1, IdOfAssumption DEF R!Place
<1>3. {d \in Conn : Registered(d)'} = {d \in Conn : Registered(d)} \cup {c}
  BY DEF Register, Registered, TypeOK
<1>4. {d \in Conn : rx'[d]} = {d \in Conn : rx[d]} \cup {c}
  BY <1>1 DEF TypeOK
<1>5. [d \in Conn |-> PlaceOf(d)]' = [[d \in Conn |-> PlaceOf(d)] EXCEPT ![c] = p]
  <2>1. hello'[c] = h
    BY <1>1 DEF TypeOK
  <2>2. PlaceOf(c)' = p
    BY <1>1, <2>1 DEF PlaceOf
  <2>3. \A d \in Conn \ {c} : PlaceOf(d)' = PlaceOf(d)
    BY <1>1 DEF TypeOK, PlaceOf
  <2> HIDE DEF p
  <2> QED BY <2>2, <2>3
<1>6. newest' = IF p.role = "agent" THEN [newest EXCEPT ![p.room] = c] ELSE newest
  BY <1>2 DEF Register
<1>7. SpokenBefore(h) =
        [d \in Conn |-> IF /\ d \in {e \in Conn : Registered(e)}
                           /\ R!Facing([e \in Conn |-> PlaceOf(e)][d], p)
                        THEN sent[d] ELSE 0]
  <2>1. ASSUME NEW d \in Conn, Registered(d)
        PROVE  R!Facing(PlaceOf(d), p)
                   <=> RoomOf(d) = h.machine_id /\ RoleOf(d) # h.role
    <3>1. PlaceOf(d) = [role |-> RoleOf(d), machine |-> IdOf[RoomOf(d)], room |-> RoomOf(d)]
      BY <2>1, PlaceIsHello
    <3> QED BY <1>2, <3>1 DEF R!Facing
  <2> HIDE DEF p
  <2> QED BY <2>1 DEF SpokenBefore
<1>8. [d \in Conn |-> MailOf(d)]' = [d \in Conn |-> MailOf(d)]
  BY <1>1 DEF MailOf
<1>9. R!Join(c)
  <2> HIDE DEF p
  <2> QED BY <1>1, <1>2, <1>3, <1>4, <1>5, <1>6, <1>7, <1>8 DEF R!Join
<1> QED BY <1>9 DEF R!Next

\* Pushing a text into its targets' channels is saying it.
LEMMA RelayTextSays ==
    ASSUME TypeOK, RoomInv, HelloAuthentic, NEW c \in Conn, RelayText(c)
    PROVE  R!Say(c)
<1> DEFINE t == [from |-> c, n |-> sent[c] + 1]
           x == [kind |-> "relay", from |-> c, n |-> sent[c] + 1]
<1>1. /\ UNCHANGED <<phase, hello, newest, heard, rx>>
      /\ phase[c] = "open"
      /\ sent' = [sent EXCEPT ![c] = @ + 1]
      /\ \A d \in Conn : queue'[d] = IF d \in Targets(c) /\ rx[d]
                                     THEN Append(queue[d], x) ELSE queue[d]
  BY DEF RelayText, connVars, roomVars
<1>2. Registered(c) /\ R!Audience(c) = Targets(c)
  BY <1>1, TargetsAreAudience DEF Registered
<1>3. x \in Message
  BY DEF TypeOK, Message
<1>4. ASSUME NEW d \in Conn, d \in Targets(c), rx[d]
      PROVE  MailOf(d)' = MailOf(d) \cup {t}
  <2>1. queue'[d] = Append(queue[d], x) /\ queue[d] \in Seq(Message)
    BY <1>1, <1>4 DEF TypeOK
  <2>2. /\ DOMAIN queue'[d] = DOMAIN queue[d] \cup {Len(queue[d]) + 1}
        /\ queue'[d][Len(queue[d]) + 1] = x
        /\ \A i \in DOMAIN queue[d] : queue'[d][i] = queue[d][i]
    BY <1>3, <2>1
  <2>3. {j \in DOMAIN queue'[d] : queue'[d][j].kind = "relay"}
          = {j \in DOMAIN queue[d] : queue[d][j].kind = "relay"} \cup {Len(queue[d]) + 1}
    BY <2>2
  <2> QED BY <2>2, <2>3 DEF MailOf
<1>5. ASSUME NEW d \in Conn, d \notin Targets(c) \/ ~rx[d]
      PROVE  MailOf(d)' = MailOf(d)
  BY <1>1, <1>5 DEF MailOf
<1>6. [d \in Conn |-> MailOf(d)]' =
        [d \in Conn |-> IF d \in R!Audience(c) \cap {e \in Conn : rx[e]}
                        THEN [e \in Conn |-> MailOf(e)][d] \cup {t}
                        ELSE [e \in Conn |-> MailOf(e)][d]]
  BY <1>2, <1>4, <1>5
<1>7. /\ [d \in Conn |-> PlaceOf(d)]' = [d \in Conn |-> PlaceOf(d)]
      /\ {d \in Conn : Registered(d)}' = {d \in Conn : Registered(d)}
      /\ {d \in Conn : rx[d]}' = {d \in Conn : rx[d]}
  BY <1>1 DEF PlaceOf, Registered
<1> QED BY <1>1, <1>2, <1>6, <1>7 DEF R!Say

\* Handing over a relayed text is hearing it; any other text is no step at all.
LEMMA DeliverHears ==
    ASSUME TypeOK, OrderInv, IsolationInv, NEW c \in Conn, Deliver(c)
    PROVE  R!Next \/ UNCHANGED R!vars
<1> DEFINE q == queue[c]
           x == Head(q)
           t == [from |-> x.from, n |-> x.n]
<1>1. /\ UNCHANGED <<phase, hello, newest, sent, rx>>
      /\ q \in Seq(Message) /\ q # <<>>
      /\ queue'[c] = Tail(q)
      /\ \A r \in Conn \ {c} : queue'[r] = queue[r]
  BY DEF Deliver, connVars, roomVars, TypeOK
<1>2. x \in Message /\ x = q[1] /\ 1 \in DOMAIN q
  BY <1>1
<1>3. /\ \A i \in DOMAIN Tail(q) : i \in Nat /\ i >= 1 /\ i + 1 \in DOMAIN q /\ Tail(q)[i] = q[i + 1]
      /\ \A j \in DOMAIN q : j \in Nat /\ j >= 1 /\ q[j] \in Message
      /\ \A j \in DOMAIN q \ {1} : j - 1 \in DOMAIN Tail(q) /\ Tail(q)[j - 1] = q[j]
  BY <1>1
<1>4. /\ [d \in Conn |-> PlaceOf(d)]' = [d \in Conn |-> PlaceOf(d)]
      /\ {d \in Conn : Registered(d)}' = {d \in Conn : Registered(d)}
      /\ {d \in Conn : rx[d]}' = {d \in Conn : rx[d]}
      /\ newest' = newest /\ sent' = sent
  BY <1>1 DEF PlaceOf, Registered
<1>5. \A d \in Conn \ {c} : MailOf(d)' = MailOf(d)
  BY <1>1 DEF MailOf
<1>6. CASE x.kind # "relay"
  <2>1. MailOf(c)' = MailOf(c)
    <3>1. ASSUME NEW y \in MailOf(c)' PROVE y \in MailOf(c)
      <4>1. PICK i \in DOMAIN Tail(q) : /\ Tail(q)[i].kind = "relay"
                                        /\ y = [from |-> Tail(q)[i].from, n |-> Tail(q)[i].n]
        BY <1>1, <3>1 DEF MailOf
      <4>2. i + 1 \in DOMAIN q /\ Tail(q)[i] = q[i + 1]
        BY <1>3
      <4> QED BY <4>1, <4>2 DEF MailOf
    <3>2. ASSUME NEW y \in MailOf(c) PROVE y \in MailOf(c)'
      <4>1. PICK j \in DOMAIN q : /\ q[j].kind = "relay"
                                  /\ y = [from |-> q[j].from, n |-> q[j].n]
        BY <3>2 DEF MailOf
      <4>2. j # 1
        BY <1>2, <1>6, <4>1
      <4>3. j - 1 \in DOMAIN Tail(q) /\ Tail(q)[j - 1] = q[j]
        BY <1>3, <4>2
      <4> QED BY <1>1, <4>1, <4>3 DEF MailOf
    <3> QED BY <3>1, <3>2
  <2>2. heard' = heard
    BY <1>6 DEF Deliver
  <2> QED BY <1>4, <1>5, <2>1, <2>2 DEF R!vars
<1>7. CASE x.kind = "relay"
  <2>1. /\ t.from = x.from /\ t.n = x.n /\ x.from \in Conn
        /\ 1 \in Coming(c, x.from)
    BY <1>2, <1>7 DEF Coming, Message
  <2>2. t \in MailOf(c)
    BY <1>2, <1>7 DEF MailOf
  <2>3. Gapless(c, x.from)
    BY <2>1 DEF OrderInv, NothingSkipped
  <2>4. ASSUME NEW j \in DOMAIN q, j # 1, q[j].kind = "relay"
        PROVE  [from |-> q[j].from, n |-> q[j].n] # t
    <3>1. CASE q[j].from = x.from
      <4>1. j \in Coming(c, x.from) /\ 1 < j /\ x.n \in Nat /\ q[j].n \in Nat
        BY <1>2, <1>3, <2>4, <3>1 DEF Coming, Message
      <4>2. queue[c][1].n < queue[c][j].n
        BY <2>1, <2>3, <4>1 DEF Gapless
      <4>3. q[j].n # x.n
        BY <1>2, <4>1, <4>2
      <4> QED BY <4>3
    <3>2. CASE q[j].from # x.from
      BY <3>2
    <3> QED BY <3>1, <3>2
  <2>5. MailOf(c)' = MailOf(c) \ {t}
    <3>1. ASSUME NEW y \in MailOf(c)' PROVE y \in MailOf(c) /\ y # t
      <4>1. PICK i \in DOMAIN Tail(q) : /\ Tail(q)[i].kind = "relay"
                                        /\ y = [from |-> Tail(q)[i].from, n |-> Tail(q)[i].n]
        BY <1>1, <3>1 DEF MailOf
      <4>2. i + 1 \in DOMAIN q /\ Tail(q)[i] = q[i + 1] /\ i + 1 # 1
        BY <1>3
      <4> QED BY <2>4, <4>1, <4>2 DEF MailOf
    <3>2. ASSUME NEW y \in MailOf(c), y # t PROVE y \in MailOf(c)'
      <4>1. PICK j \in DOMAIN q : /\ q[j].kind = "relay"
                                  /\ y = [from |-> q[j].from, n |-> q[j].n]
        BY <3>2 DEF MailOf
      <4>2. j # 1
        BY <1>2, <3>2, <4>1
      <4>3. j - 1 \in DOMAIN Tail(q) /\ Tail(q)[j - 1] = q[j]
        BY <1>3, <4>2
      <4> QED BY <1>1, <4>1, <4>3 DEF MailOf
    <3> QED BY <3>1, <3>2
  <2>6. heard' = [heard EXCEPT ![c][x.from] = x.n]
    BY <1>7 DEF Deliver
  <2>7. x.n = heard[c][x.from] + 1
    <3>1. heard[c][x.from] \in Nat /\ x.n \in Nat
      BY <1>2, <2>1 DEF TypeOK, Message
    <3>2. \A j \in Coming(c, x.from) : ~(j < 1)
      BY <1>3 DEF Coming
    <3>3. q[1].n = heard[c][x.from] + 1
      BY <2>1, <2>3, <3>2 DEF Gapless
    <3> QED BY <1>2, <3>3
  <2>8. [d \in Conn |-> MailOf(d)]' =
            [[d \in Conn |-> MailOf(d)] EXCEPT ![c] = @ \ {t}]
    BY <1>5, <2>5
  <2>9. R!Hear(c, t)
    <3> HIDE DEF x, t
    <3> QED BY <1>4, <2>1, <2>2, <2>6, <2>7, <2>8 DEF R!Hear
  <2> QED BY <2>2, <2>9 DEF R!Next
<1> QED BY <1>6, <1>7

\* Ending the send task is losing, cleaning up is leaving, returning is forgetting.
LEMMA EndingsMap ==
    ASSUME TypeOK, HelloAuthentic, NEW c \in Conn,
           SendFails(c) \/ Finish(c) \/ Cleanup(c)
    PROVE  R!Lose(c) \/ R!Forget(c) \/ R!Leave(c)
<1>1. UNCHANGED <<hello, newest, sent>>
  BY DEF SendFails, Finish, Cleanup, roomVars, connVars
<1>2. [d \in Conn |-> PlaceOf(d)]' = [d \in Conn |-> PlaceOf(d)]
  BY <1>1 DEF PlaceOf
<1>3. CASE SendFails(c) \/ Finish(c)
  <2>1. /\ queue' = [queue EXCEPT ![c] = <<>>]
        /\ rx' = [rx EXCEPT ![c] = FALSE]
        /\ \A d \in Conn : Registered(d)' <=> Registered(d)
    BY <1>3 DEF SendFails, Finish, connVars, Registered, TypeOK
  <2>2. {d \in Conn : Registered(d)}' = {d \in Conn : Registered(d)}
    BY <2>1
  <2>3. {d \in Conn : rx[d]}' = {d \in Conn : rx[d]} \ {c}
    BY <2>1 DEF TypeOK
  <2>4. [d \in Conn |-> MailOf(d)]' = [[d \in Conn |-> MailOf(d)] EXCEPT ![c] = {}]
    <3>1. queue'[c] = <<>> /\ \A d \in Conn \ {c} : queue'[d] = queue[d]
      BY <2>1 DEF TypeOK
    <3>2. MailOf(c)' = {}
      BY <3>1 DEF MailOf
    <3>3. \A d \in Conn \ {c} : MailOf(d)' = MailOf(d)
      BY <3>1 DEF MailOf
    <3> QED BY <3>2, <3>3
  <2>5. CASE SendFails(c)
    <3>1. rx[c] /\ heard' = heard
      BY <2>5 DEF SendFails
    <3> QED BY <1>1, <1>2, <2>2, <2>3, <2>4, <3>1 DEF R!Lose
  <2>6. CASE Finish(c)
    <3>1. /\ heard' = [heard EXCEPT ![c] = [d \in Conn |-> 0]]
          /\ phase[c] = "draining" /\ ~Registered(c)
      BY <2>6 DEF Finish, Registered
    <3>2. PlaceOf(c) # None
      <4>1. hello[c] \in Hello /\ hello[c] # None
        BY <3>1, NoneAssumption DEF TypeOK
      <4>2. Authentic(hello[c])
        BY <4>1 DEF HelloAuthentic
      <4>3. PlaceOf(c) \in R!Place
        BY <4>1, <4>2, IdOfAssumption DEF Authentic, Hello, Role, PlaceOf, R!Place
      <4> QED BY <4>3, NoPlaceAssumption
    <3> QED BY <1>1, <1>2, <2>2, <2>3, <2>4, <3>1, <3>2 DEF R!Forget
  <2> QED BY <1>3, <2>5, <2>6
<1>4. CASE Cleanup(c)
  <2>1. /\ UNCHANGED <<queue, rx, heard>>
        /\ phase[c] = "closing"
        /\ phase' = [phase EXCEPT ![c] = "draining"]
    BY <1>4 DEF Cleanup, chanVars
  <2>2. Registered(c) /\ {d \in Conn : Registered(d)}' = {d \in Conn : Registered(d)} \ {c}
    BY <2>1 DEF Registered, TypeOK
  <2>3. [d \in Conn |-> MailOf(d)]' = [d \in Conn |-> MailOf(d)]
    BY <2>1 DEF MailOf
  <2> QED BY <1>1, <1>2, <2>1, <2>2, <2>3 DEF R!Leave
<1> QED BY <1>3, <1>4

\* The relay does what Room promises: for any connections and machines, each of
\* its steps is a step of Room or one no client can tell (main.rs:143-285).
THEOREM RelayImplementsRoom == Spec => RoomSpec
<1>1. Init => R!Init
  <2> SUFFICES ASSUME Init PROVE R!Init
    OBVIOUS
  <2>1. \A d \in Conn : PlaceOf(d) = None /\ MailOf(d) = {} /\ ~Registered(d) /\ ~rx[d]
    BY DEF Init, PlaceOf, MailOf, Registered
  <2> QED BY <2>1 DEF Init, R!Init
<1>2. /\ TypeOK /\ RoomInv /\ IsolationInv /\ OrderInv /\ [Next]_vars
      => [R!Next]_(R!vars)
  <2> SUFFICES ASSUME TypeOK, RoomInv, IsolationInv, OrderInv, [Next]_vars
               PROVE  R!Next \/ UNCHANGED R!vars
    OBVIOUS
  <2>1. ASSUME NEW c \in Conn, NEW h \in Hello, Register(c, h) PROVE R!Next
    BY <2>1, RegisterJoins DEF IsolationInv
  <2>2. ASSUME NEW c \in Conn, RelayText(c) PROVE R!Next
    BY <2>2, RelayTextSays DEF IsolationInv, R!Next
  <2>3. ASSUME NEW c \in Conn, Deliver(c) PROVE R!Next \/ UNCHANGED R!vars
    BY <2>3, DeliverHears
  <2>4. ASSUME NEW c \in Conn, SendFails(c) \/ Finish(c) \/ Cleanup(c) PROVE R!Next
    BY <2>4, EndingsMap DEF IsolationInv, R!Next
  <2>5. ASSUME NEW c \in Conn, Announce(c) \/ RepeatHello(c) PROVE UNCHANGED R!vars
    <3>1. PICK x \in Message :
              /\ x.kind # "relay"
              /\ queue' = [queue EXCEPT ![c] = Append(@, x)]
      BY <2>5, NudgeAppends
    <3>2. UNCHANGED <<hello, newest, rx, heard, sent>>
      BY <2>5 DEF Announce, RepeatHello, connVars, roomVars
    <3>3. \A d \in Conn : Registered(d)' <=> Registered(d)
      BY <2>5 DEF Announce, RepeatHello, connVars, Registered, TypeOK
    <3>4. \A d \in Conn : PlaceOf(d)' = PlaceOf(d)
      BY <3>2 DEF PlaceOf
    <3>5. \A d \in Conn \ {c} : MailOf(d)' = MailOf(d)
      <4>1. \A d \in Conn \ {c} : queue'[d] = queue[d]
        BY <3>1 DEF TypeOK
      <4> QED BY <4>1 DEF MailOf
    <3>6. MailOf(c)' = MailOf(c)
      <4>1. queue'[c] = Append(queue[c], x) /\ queue[c] \in Seq(Message)
        BY <3>1 DEF TypeOK
      <4>2. /\ DOMAIN queue'[c] = DOMAIN queue[c] \cup {Len(queue[c]) + 1}
            /\ queue'[c][Len(queue[c]) + 1] = x
            /\ \A i \in DOMAIN queue[c] : queue'[c][i] = queue[c][i]
        BY <4>1
      <4>3. {j \in DOMAIN queue'[c] : queue'[c][j].kind = "relay"}
              = {j \in DOMAIN queue[c] : queue[c][j].kind = "relay"}
        BY <3>1, <4>2
      <4> QED BY <4>2, <4>3 DEF MailOf
    <3>7. /\ [d \in Conn |-> PlaceOf(d)]' = [d \in Conn |-> PlaceOf(d)]
          /\ [d \in Conn |-> MailOf(d)]' = [d \in Conn |-> MailOf(d)]
          /\ {d \in Conn : Registered(d)}' = {d \in Conn : Registered(d)}
          /\ {d \in Conn : rx[d]}' = {d \in Conn : rx[d]}
      BY <3>2, <3>3, <3>4, <3>5, <3>6
    <3> QED BY <3>2, <3>7 DEF R!vars
  <2>6. CASE \/ \E c \in Conn : Refuse(c) \/ Disconnect(c)
             \/ UNCHANGED vars
    <3>1. UNCHANGED <<hello, newest, queue, rx, heard, sent>>
      BY <2>6 DEF Refuse, Disconnect, vars, roomVars, connVars, chanVars
    <3>2. \A d \in Conn : Registered(d)' <=> Registered(d)
      BY <2>6 DEF Refuse, Disconnect, vars, connVars, Registered, TypeOK
    <3>3. \A d \in Conn : PlaceOf(d)' = PlaceOf(d) /\ MailOf(d)' = MailOf(d)
      BY <3>1 DEF PlaceOf, MailOf
    <3>4. /\ [d \in Conn |-> PlaceOf(d)]' = [d \in Conn |-> PlaceOf(d)]
          /\ [d \in Conn |-> MailOf(d)]' = [d \in Conn |-> MailOf(d)]
          /\ {d \in Conn : Registered(d)}' = {d \in Conn : Registered(d)}
          /\ {d \in Conn : rx[d]}' = {d \in Conn : rx[d]}
      BY <3>1, <3>2, <3>3
    <3> QED BY <3>1, <3>4 DEF R!vars
  <2> QED BY <2>1, <2>2, <2>3, <2>4, <2>5, <2>6 DEF Next, Step
<1> QED
  BY <1>1, <1>2, TypeCorrect, RoomsInvariant, IsolationInvariant, OrderInvariant, PTL
     DEF Spec, RoomSpec, R!Spec

=============================================================================
