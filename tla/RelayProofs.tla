---------------------------- MODULE RelayProofs ----------------------------
(* Invariance proofs for the relay, for any connections, machines and spellings. *)
EXTENDS Relay, TLAPS

----------------------------------------------------------------------------
(* Types.                                                                  *)

\* The state of the relay is always well-typed (main.rs:19-32).
THEOREM TypeCorrect == Spec => []TypeOK
<1>1. Init => TypeOK
  BY DEF Init, TypeOK, Phase
<1>2. TypeOK /\ [Next]_vars => TypeOK'
  <2> SUFFICES ASSUME TypeOK, [Next]_vars
               PROVE  TypeOK'
    OBVIOUS
  <2> USE DEF TypeOK, Phase, connVars, roomVars, chanVars
  <2>1. ASSUME NEW c \in Conn, Refuse(c) PROVE TypeOK'
    BY <2>1 DEF Refuse
  <2>2. ASSUME NEW c \in Conn, NEW h \in Hello, Register(c, h) PROVE TypeOK'
    <3>1. h.machine_id \in Spelling
      BY DEF Hello
    <3>2. SpokenBefore(h) \in [Conn -> Nat]
      BY DEF SpokenBefore
    <3>4. /\ agent' \in [Spelling -> Conn \cup {None}]
          /\ newest' \in [Spelling -> Conn \cup {None}]
          /\ browsers' \in [Spelling -> SUBSET Conn]
          /\ rooms' \subseteq Spelling
      <4>1. CASE /\ agent' = [agent EXCEPT ![h.machine_id] = c]
                 /\ newest' = [newest EXCEPT ![h.machine_id] = c]
                 /\ UNCHANGED browsers
        BY <2>2, <3>1, <4>1 DEF Register
      <4>2. CASE /\ browsers' = [browsers EXCEPT ![h.machine_id] = @ \cup {c}]
                 /\ UNCHANGED <<agent, newest>>
        BY <2>2, <3>1, <4>2 DEF Register
      <4> QED BY <2>2, <4>1, <4>2 DEF Register
    <3>5. /\ heard' \in [Conn -> [Conn -> Nat]]
          /\ rx' \in [Conn -> BOOLEAN]
          /\ UNCHANGED <<queue, prompted, sent>>
      BY <2>2, <3>2 DEF Register
    <3>6. /\ hello' = [hello EXCEPT ![c] = h]
          /\ \/ phase' = [phase EXCEPT ![c] = "open"]
             \/ phase' = [phase EXCEPT ![c] = "announce"]
      BY <2>2 DEF Register
    <3>7. /\ hello' \in [Conn -> Hello \cup {None}]
          /\ phase' \in [Conn -> Phase]
          /\ \A d \in Conn : phase'[d] \notin {"hello", "closed"} => hello'[d] \in Hello
      BY <3>6
    <3> QED BY <3>4, <3>5, <3>7
  <2>3. ASSUME NEW c \in Conn, Announce(c) PROVE TypeOK'
    <3>1. [kind |-> "ready", from |-> c, n |-> 0] \in Message
      BY DEF Message
    <3> QED BY <2>3, <3>1 DEF Announce
  <2>4. ASSUME NEW c \in Conn, RelayText(c) PROVE TypeOK'
    <3>1. [kind |-> "relay", from |-> c, n |-> sent[c] + 1] \in Message
      BY DEF Message
    <3>2. queue' \in [Conn -> Seq(Message)]
      BY <2>4, <3>1 DEF RelayText
    <3>3. sent' \in [Conn -> Nat]
      BY <2>4 DEF RelayText
    <3> QED BY <2>4, <3>2, <3>3 DEF RelayText
  <2>5. ASSUME NEW c \in Conn, RepeatHello(c) PROVE TypeOK'
    <3>1. <<[kind |-> "error", from |-> c, n |-> 0]>> \in Seq(Message)
      BY DEF Message
    <3> QED BY <2>5, <3>1 DEF RepeatHello
  <2>6. ASSUME NEW c \in Conn, Disconnect(c) PROVE TypeOK'
    BY <2>6 DEF Disconnect
  <2>7. ASSUME NEW c \in Conn, Cleanup(c) PROVE TypeOK'
    <3>1. RoomOf(c) \in Spelling
      BY <2>7 DEF Cleanup, RoomOf, Hello
    <3>2. SeatAfter(c) \in Conn \cup {None}
      BY <3>1 DEF SeatAfter
    <3> DEFINE m == RoomOf(c)
    <3>3. /\ agent' \in [Spelling -> Conn \cup {None}]
          /\ browsers' \in [Spelling -> SUBSET Conn]
      <4>1. CASE /\ agent' = [agent EXCEPT ![m] = SeatAfter(c)]
                 /\ browsers' = [browsers EXCEPT ![m] = @ \ {c}]
        BY <3>1, <3>2, <4>1
      <4>2. CASE UNCHANGED <<agent, browsers>>
        BY <4>2
      <4> QED BY <2>7, <4>1, <4>2 DEF Cleanup
    <3>4. rooms' \subseteq Spelling
      BY <2>7, <3>1 DEF Cleanup
    <3> QED BY <2>7, <3>3, <3>4 DEF Cleanup
  <2>8. ASSUME NEW c \in Conn, Finish(c) PROVE TypeOK'
    BY <2>8 DEF Finish
  <2>9. ASSUME NEW c \in Conn, Deliver(c) PROVE TypeOK'
    <3>1. Head(queue[c]) \in Message /\ Tail(queue[c]) \in Seq(Message)
      BY <2>9 DEF Deliver
    <3>2. heard' \in [Conn -> [Conn -> Nat]]
      BY <2>9, <3>1 DEF Deliver, Message
    <3>3. prompted' \in [Conn -> SUBSET Conn]
      BY <2>9, <3>1 DEF Deliver, Message
    <3> QED BY <2>9, <3>1, <3>2, <3>3 DEF Deliver
  <2>10. ASSUME NEW c \in Conn, SendFails(c) PROVE TypeOK'
    BY <2>10 DEF SendFails
  <2>11. CASE UNCHANGED vars
    BY <2>11 DEF vars
  <2> QED
    BY <2>1, <2>2, <2>3, <2>4, <2>5, <2>6, <2>7, <2>8, <2>9, <2>10, <2>11
       DEF Next, Step
<1> QED BY <1>1, <1>2, PTL DEF Spec

----------------------------------------------------------------------------
(* Rooms.                                                                  *)

\* newest[m] names a connection that registered as an agent of m.
NewestKnown ==
    \A m \in Spelling :
        newest[m] # None => /\ newest[m] \in Conn
                            /\ phase[newest[m]] # "hello"
                            /\ RoleOf(newest[m]) = "agent"
                            /\ RoomOf(newest[m]) = m

\* The inductive invariant.  NewestAgentSeated needs NewestKnown, to know that
\* the cleanup of one room's connection is not the newest agent of another;
\* RoomsExact needs the exact membership before a step, to know that a cleanup
\* that finds no room has nothing to remove.
RoomInv == RoomsConsistent /\ NewestAgentSeated /\ NewestKnown

\* A step that registers and unregisters nobody changes nothing in the rooms.
LEMMA QuietStep ==
    ASSUME RoomInv,
           UNCHANGED <<rooms, agent, browsers, newest, hello>>,
           \A c \in Conn : Registered(c)' <=> Registered(c),
           \A c \in Conn : phase[c] # "hello" => phase'[c] # "hello"
    PROVE  RoomInv'
<1> USE DEF RoomInv, RoleOf, RoomOf
<1>1. BrowsersExact'
  BY DEF RoomsConsistent, BrowsersExact
<1>2. SeatLive'
  BY DEF RoomsConsistent, SeatLive
<1>3. RoomsExact'
  BY DEF RoomsConsistent, RoomsExact
<1>4. NewestKnown'
  BY DEF NewestKnown
<1>5. NewestAgentSeated'
  BY DEF NewestAgentSeated, NewestKnown
<1> QED BY <1>1, <1>2, <1>3, <1>4, <1>5 DEF RoomsConsistent

LEMMA RegisterKeepsRooms ==
    ASSUME TypeOK, RoomInv, NEW c \in Conn, NEW h \in Hello, Register(c, h)
    PROVE  RoomInv'
<1> DEFINE m == h.machine_id
<1> USE DEF RoleOf, RoomOf
<1>1. /\ m \in Spelling
      /\ h.role = "agent" \/ h.role = "browser"
      /\ phase[c] = "hello"
      /\ hello' = [hello EXCEPT ![c] = h]
      /\ rooms' = rooms \cup {m}
  BY DEF Register, Hello, Role
<1>2. /\ ~Registered(c)
      /\ Registered(c)'
      /\ \A d \in Conn \ {c} : Registered(d)' <=> Registered(d)
      /\ \A d \in Conn : phase'[d] = "hello" => phase[d] = "hello" /\ d # c
  BY DEF Register, Registered, TypeOK
<1>3. hello'[c] = h /\ \A d \in Conn \ {c} : hello'[d] = hello[d]
  BY <1>1 DEF TypeOK
<1>4. c # None /\ \A k \in Spelling : agent[k] # c /\ newest[k] # c /\ c \notin browsers[k]
  BY <1>1, <1>2, NoneAssumption
     DEF RoomInv, RoomsConsistent, SeatLive, BrowsersExact, NewestKnown
<1>5. CASE h.role = "agent"
  <2>1. /\ agent' = [agent EXCEPT ![m] = c]
        /\ newest' = [newest EXCEPT ![m] = c]
        /\ browsers' = browsers
    BY <1>5 DEF Register
  <2>2. /\ agent'[m] = c /\ newest'[m] = c
        /\ \A k \in Spelling \ {m} : agent'[k] = agent[k] /\ newest'[k] = newest[k]
    BY <1>1, <2>1 DEF TypeOK
  <2>3. BrowsersExact'
    BY <1>2, <1>3, <1>4, <1>5, <2>1 DEF RoomInv, RoomsConsistent, BrowsersExact
  <2>4. SeatLive'
    BY <1>2, <1>3, <1>4, <1>5, <2>2 DEF RoomInv, RoomsConsistent, SeatLive
  <2>5. RoomsExact'
    BY <1>1, <1>4, <2>1, <2>2 DEF RoomInv, RoomsConsistent, RoomsExact
  <2>6. NewestKnown'
    BY <1>2, <1>3, <1>4, <1>5, <2>2 DEF RoomInv, NewestKnown
  <2>7. NewestAgentSeated'
    BY <1>2, <1>4, <2>2 DEF RoomInv, NewestAgentSeated, NewestKnown
  <2> QED BY <2>3, <2>4, <2>5, <2>6, <2>7 DEF RoomInv, RoomsConsistent
<1>6. CASE h.role = "browser"
  <2>1. /\ browsers' = [browsers EXCEPT ![m] = @ \cup {c}]
        /\ agent' = agent /\ newest' = newest
    BY <1>6 DEF Register
  <2>2. /\ browsers'[m] = browsers[m] \cup {c}
        /\ \A k \in Spelling \ {m} : browsers'[k] = browsers[k]
    BY <1>1, <2>1 DEF TypeOK
  <2>3. BrowsersExact'
    BY <1>2, <1>3, <1>4, <1>6, <2>2 DEF RoomInv, RoomsConsistent, BrowsersExact
  <2>4. SeatLive'
    BY <1>2, <1>3, <1>4, <2>1 DEF RoomInv, RoomsConsistent, SeatLive
  <2>5. RoomsExact'
    BY <1>1, <2>1, <2>2 DEF RoomInv, RoomsConsistent, RoomsExact
  <2>6. NewestKnown'
    BY <1>2, <1>3, <1>4, <2>1 DEF RoomInv, NewestKnown
  <2>7. NewestAgentSeated'
    BY <1>2, <1>4, <2>1 DEF RoomInv, NewestAgentSeated, NewestKnown
  <2> QED BY <2>3, <2>4, <2>5, <2>6, <2>7 DEF RoomInv, RoomsConsistent
<1> QED BY <1>1, <1>5, <1>6

LEMMA CleanupKeepsRooms ==
    ASSUME TypeOK, RoomInv, NEW c \in Conn, Cleanup(c)
    PROVE  RoomInv'
<1> DEFINE m == RoomOf(c)
<1>1. /\ hello[c] \in Hello
      /\ m \in Spelling
      /\ RoleOf(c) = "agent" \/ RoleOf(c) = "browser"
      /\ c # None
      /\ hello' = hello /\ newest' = newest
  BY NoneAssumption DEF Cleanup, TypeOK, Hello, Role, RoleOf, RoomOf
<1>2. /\ Registered(c)
      /\ ~Registered(c)'
      /\ \A d \in Conn \ {c} : Registered(d)' <=> Registered(d)
      /\ \A d \in Conn : phase'[d] = "hello" => phase[d] = "hello"
  BY DEF Cleanup, Registered, TypeOK
<1>3. /\ agent'[m] = SeatAfter(c)
      /\ browsers'[m] = browsers[m] \ {c}
      /\ \A k \in Spelling \ {m} : agent'[k] = agent[k] /\ browsers'[k] = browsers[k]
  <2>1. CASE m \in rooms
    BY <1>1, <2>1 DEF Cleanup, TypeOK
  <2>2. CASE m \notin rooms
    <3>1. agent' = agent /\ browsers' = browsers
      BY <2>2 DEF Cleanup
    <3>2. agent[m] = None /\ browsers[m] = {}
      BY <1>1, <2>2 DEF RoomInv, RoomsConsistent, RoomsExact
    <3> QED BY <1>1, <3>1, <3>2 DEF SeatAfter
  <2> QED BY <2>1, <2>2
<1>4. rooms' = {k \in Spelling : agent'[k] # None \/ browsers'[k] # {}}
  <2>1. rooms = {k \in Spelling : agent[k] # None \/ browsers[k] # {}}
    BY DEF RoomInv, RoomsConsistent, RoomsExact
  <2>2. CASE m \in rooms
    <3>1. rooms' = IF agent'[m] = None /\ browsers'[m] = {} THEN rooms \ {m} ELSE rooms
      BY <2>2 DEF Cleanup, IsEmpty
    <3> QED BY <1>1, <1>3, <2>1, <2>2, <3>1
  <2>3. CASE m \notin rooms
    <3>1. rooms' = rooms /\ agent' = agent /\ browsers' = browsers
      BY <2>3 DEF Cleanup
    <3> QED BY <2>1, <3>1
  <2> QED BY <2>2, <2>3
<1>5. BrowsersExact'
  BY <1>1, <1>2, <1>3 DEF RoomInv, RoomsConsistent, BrowsersExact, RoleOf, RoomOf
<1>6. SeatLive'
  BY <1>1, <1>2, <1>3 DEF RoomInv, RoomsConsistent, SeatLive, SeatAfter, RoleOf, RoomOf
<1>7. NewestKnown'
  BY <1>1, <1>2 DEF RoomInv, NewestKnown, RoleOf, RoomOf
<1>8. NewestAgentSeated'
  <2> SUFFICES ASSUME NEW k \in Spelling
               PROVE  agent'[k] = IF newest[k] # None /\ Registered(newest[k])'
                                  THEN newest[k] ELSE None
    BY <1>1 DEF NewestAgentSeated, Registered
  <2>1. agent[k] = IF newest[k] # None /\ Registered(newest[k]) THEN newest[k] ELSE None
    BY DEF RoomInv, NewestAgentSeated
  <2>2. newest[k] # None => /\ newest[k] \in Conn
                            /\ RoleOf(newest[k]) = "agent"
                            /\ RoomOf(newest[k]) = k
    BY DEF RoomInv, NewestKnown
  <2>3. CASE newest[k] = c
    BY <1>1, <1>2, <1>3, <2>1, <2>2, <2>3 DEF SeatAfter
  <2>4. CASE newest[k] # c
    BY <1>1, <1>2, <1>3, <2>1, <2>2, <2>4 DEF SeatAfter
  <2> QED BY <2>3, <2>4
<1> QED BY <1>4, <1>5, <1>6, <1>7, <1>8 DEF RoomInv, RoomsConsistent, RoomsExact

LEMMA RoomsInvariant == Spec => []RoomInv
<1>1. Init => RoomInv
  BY NoneAssumption
     DEF Init, RoomInv, RoomsConsistent, BrowsersExact, SeatLive, RoomsExact,
         NewestAgentSeated, NewestKnown, Registered
<1>2. TypeOK /\ RoomInv /\ [Next]_vars => RoomInv'
  <2> SUFFICES ASSUME TypeOK, RoomInv, [Next]_vars
               PROVE  RoomInv'
    OBVIOUS
  <2>1. ASSUME NEW c \in Conn, NEW h \in Hello, Register(c, h) PROVE RoomInv'
    BY <2>1, RegisterKeepsRooms
  <2>2. ASSUME NEW c \in Conn, Cleanup(c) PROVE RoomInv'
    BY <2>2, CleanupKeepsRooms
  <2>3. ASSUME NEW c \in Conn,
               \/ Refuse(c) \/ Announce(c) \/ Disconnect(c) \/ Finish(c)
        PROVE  RoomInv'
    <3>1. UNCHANGED <<rooms, agent, browsers, newest, hello>>
      BY <2>3 DEF Refuse, Announce, Disconnect, Finish, roomVars
    <3>2. /\ \A d \in Conn : Registered(d)' <=> Registered(d)
          /\ \A d \in Conn : phase[d] # "hello" => phase'[d] # "hello"
      BY <2>3 DEF Refuse, Announce, Disconnect, Finish, Registered, TypeOK
    <3> QED BY <3>1, <3>2, QuietStep
  <2>4. ASSUME NEW c \in Conn,
               \/ RelayText(c) \/ RepeatHello(c) \/ Deliver(c) \/ SendFails(c)
        PROVE  RoomInv'
    <3>1. UNCHANGED <<rooms, agent, browsers, newest, hello, phase>>
      BY <2>4 DEF RelayText, RepeatHello, Deliver, SendFails, roomVars, connVars
    <3> QED BY <3>1, QuietStep DEF Registered
  <2>5. CASE UNCHANGED vars
    <3>1. UNCHANGED <<rooms, agent, browsers, newest, hello, phase>>
      BY <2>5 DEF vars, roomVars, connVars
    <3> QED BY <3>1, QuietStep DEF Registered
  <2> QED BY <2>1, <2>2, <2>3, <2>4, <2>5 DEF Next, Step
<1> QED BY <1>1, <1>2, TypeCorrect, PTL DEF Spec

\* Rooms hold exactly the registered connections, and exist exactly while they
\* hold one (main.rs:166-183, 262-285).
THEOREM RoomsAlwaysConsistent == Spec => []RoomsConsistent
<1>1. RoomInv => RoomsConsistent
  BY DEF RoomInv
<1> QED BY <1>1, RoomsInvariant, PTL

\* However many agents of a room come, overlap and go, its seat belongs to the
\* newest one for as long as that one is registered (main.rs:268-276).
THEOREM SeatBelongsToNewest == Spec => []NewestAgentSeated
<1>1. RoomInv => NewestAgentSeated
  BY DEF RoomInv
<1> QED BY <1>1, RoomsInvariant, PTL

----------------------------------------------------------------------------
(* Isolation.                                                              *)

\* A connection has a Hello exactly once it has registered, and that Hello was
\* authentic.
HelloAuthentic ==
    \A c \in Conn :
        /\ phase[c] = "hello" => hello[c] = None
        /\ hello[c] # None => Authentic(hello[c])

IsolationInv == Isolation /\ HelloAuthentic

\* Who a relay message goes to is authenticated for the sender's machine and for
\* the other role.
LEMMA TargetsInRoom ==
    ASSUME TypeOK, RoomInv, HelloAuthentic,
           NEW c \in Conn, Registered(c), NEW d \in Targets(c)
    PROVE  d \in Conn /\ Registered(d) /\ SameRoom(c, d)
<1> USE DEF RoleOf, RoomOf
<1>1. hello[c] \in Hello /\ hello[c] # None /\ hello[c].machine_id \in Spelling
  BY NoneAssumption DEF TypeOK, Hello, Registered
<1>2. /\ d \in Conn /\ Registered(d)
      /\ hello[d].machine_id = hello[c].machine_id
      /\ hello[d].role # hello[c].role
  <2>1. CASE hello[c].role = "agent"
    <3>1. d \in browsers[hello[c].machine_id]
      BY <2>1 DEF Targets
    <3> QED BY <1>1, <2>1, <3>1 DEF RoomInv, RoomsConsistent, BrowsersExact
  <2>2. CASE hello[c].role # "agent"
    <3>1. d = agent[hello[c].machine_id] /\ d # None
      BY <2>2 DEF Targets
    <3> QED BY <1>1, <2>2, <3>1 DEF RoomInv, RoomsConsistent, SeatLive
  <2> QED BY <2>1, <2>2
<1>3. hello[d] \in Hello /\ hello[d] # None
  BY <1>2, NoneAssumption DEF TypeOK, Registered
<1>4. Authentic(hello[c]) /\ Authentic(hello[d])
  BY <1>1, <1>2, <1>3 DEF HelloAuthentic
<1> QED BY <1>1, <1>2, <1>3, <1>4 DEF SameRoom, Authentic

\* A step that leaves every Hello alone and only shortens queues, or adds to them
\* what is not relayed, keeps the isolation.
LEMMA NothingRelayed ==
    ASSUME TypeOK, IsolationInv, UNCHANGED hello,
           \A d \in Conn : phase'[d] = "hello" => phase[d] = "hello",
           \A d \in Conn : \A i \in DOMAIN queue'[d] :
               queue'[d][i].kind = "relay" =>
                   \E j \in DOMAIN queue[d] : queue'[d][i] = queue[d][j]
    PROVE  IsolationInv'
<1>1. HelloAuthentic'
  BY DEF IsolationInv, HelloAuthentic, Authentic
<1>2. Isolation'
  <2> SUFFICES ASSUME NEW r \in Conn, NEW i \in DOMAIN queue'[r],
                      queue'[r][i].kind = "relay"
               PROVE  SameRoom(queue'[r][i].from, r)
    BY DEF Isolation, SameRoom
  <2>1. PICK j \in DOMAIN queue[r] : queue'[r][i] = queue[r][j]
    OBVIOUS
  <2> QED BY <2>1 DEF IsolationInv, Isolation
<1> QED BY <1>1, <1>2 DEF IsolationInv

LEMMA TailIsRest ==
    ASSUME NEW S, NEW q \in Seq(S), q # <<>>, NEW i \in DOMAIN Tail(q)
    PROVE  i + 1 \in DOMAIN q /\ Tail(q)[i] = q[i + 1]
<1>1. Len(q) \in Nat /\ DOMAIN q = 1 .. Len(q) /\ Len(q) # 0
  OBVIOUS
<1>2. DOMAIN Tail(q) = 1 .. (Len(q) - 1)
  BY <1>1
<1> QED BY <1>1, <1>2

LEMMA IsolationInvariant == Spec => []IsolationInv
<1>1. Init => IsolationInv
  BY DEF Init, IsolationInv, Isolation, HelloAuthentic
<1>2. TypeOK /\ RoomInv /\ IsolationInv /\ [Next]_vars => IsolationInv'
  <2> SUFFICES ASSUME TypeOK, RoomInv, IsolationInv, [Next]_vars
               PROVE  IsolationInv'
    OBVIOUS
  <2> USE DEF roomVars, connVars, chanVars
  <2>1. ASSUME NEW c \in Conn, NEW h \in Hello, Register(c, h) PROVE IsolationInv'
    <3>1. /\ phase[c] = "hello" /\ hello[c] = None
          /\ Authentic(h) /\ h # None
          /\ hello' = [hello EXCEPT ![c] = h]
          /\ queue' = queue
      BY <2>1, NoneAssumption DEF Register, IsolationInv, HelloAuthentic
    <3>2. \A d \in Conn : phase'[d] = "hello" => phase[d] = "hello" /\ d # c
      BY <2>1 DEF Register, TypeOK
    <3>3. HelloAuthentic'
      BY <3>1, <3>2 DEF IsolationInv, HelloAuthentic, TypeOK, Authentic
    <3>4. Isolation'
      <4> SUFFICES ASSUME NEW r \in Conn, NEW i \in DOMAIN queue[r],
                          queue[r][i].kind = "relay"
                   PROVE  SameRoom(queue[r][i].from, r)'
        BY <3>1 DEF Isolation, SameRoom
      <4>1. SameRoom(queue[r][i].from, r)
        BY DEF IsolationInv, Isolation
      <4>2. queue[r][i].from # c /\ r # c
        BY <3>1, <4>1 DEF SameRoom
      <4>3. queue[r][i] \in Message
        BY DEF TypeOK
      <4> QED BY <3>1, <4>1, <4>2, <4>3 DEF SameRoom, TypeOK, Message
    <3> QED BY <3>3, <3>4 DEF IsolationInv
  <2>2. ASSUME NEW c \in Conn, RelayText(c) PROVE IsolationInv'
    <3> DEFINE x == [kind |-> "relay", from |-> c, n |-> sent[c] + 1]
    <3>1. UNCHANGED <<phase, hello>> /\ phase[c] = "open"
      BY <2>2 DEF RelayText
    <3>2. HelloAuthentic'
      BY <3>1 DEF IsolationInv, HelloAuthentic, Authentic
    <3>3. Isolation'
      <4> SUFFICES ASSUME NEW r \in Conn, NEW i \in DOMAIN queue'[r],
                          queue'[r][i].kind = "relay"
                   PROVE  SameRoom(queue'[r][i].from, r)
        BY <3>1 DEF Isolation, SameRoom
      <4>1. CASE r \in Targets(c) /\ queue'[r] = Append(queue[r], x)
        <5>1. SameRoom(c, r)
          BY <3>1, <4>1, TargetsInRoom DEF IsolationInv, Registered
        <5>2. queue[r] \in Seq(Message) /\ x \in Message
          <6>1. queue[r] \in Seq(Message) /\ sent[c] + 1 \in Nat
            BY DEF TypeOK
          <6> QED BY <6>1 DEF Message
        <5>3. CASE i = Len(queue[r]) + 1
          BY <4>1, <5>1, <5>2, <5>3
        <5>4. CASE i # Len(queue[r]) + 1
          <6>1. i \in DOMAIN queue[r] /\ queue'[r][i] = queue[r][i]
            BY <4>1, <5>2, <5>4
          <6> QED BY <6>1 DEF IsolationInv, Isolation
        <5> QED BY <5>3, <5>4
      <4>2. CASE queue'[r] = queue[r]
        BY <4>2 DEF IsolationInv, Isolation
      <4> QED BY <2>2, <4>1, <4>2 DEF RelayText
    <3> QED BY <3>2, <3>3 DEF IsolationInv
  <2>3. ASSUME NEW c \in Conn, Announce(c) PROVE IsolationInv'
    <3> DEFINE x == [kind |-> "ready", from |-> c, n |-> 0]
    <3>1. /\ UNCHANGED hello
          /\ queue' = [queue EXCEPT ![c] = Append(@, x)]
          /\ \A d \in Conn : phase'[d] = "hello" => phase[d] = "hello"
      BY <2>3 DEF Announce, TypeOK
    <3>2. x \in Message /\ x.kind # "relay"
      BY DEF Message
    <3>3. \A d \in Conn : \A i \in DOMAIN queue'[d] :
              queue'[d][i].kind = "relay" =>
                  \E j \in DOMAIN queue[d] : queue'[d][i] = queue[d][j]
      BY <3>1, <3>2 DEF TypeOK
    <3> QED BY <3>1, <3>3, NothingRelayed
  <2>4. ASSUME NEW c \in Conn, RepeatHello(c) PROVE IsolationInv'
    <3> DEFINE x == [kind |-> "error", from |-> c, n |-> 0]
    <3>1. UNCHANGED <<hello, phase>> /\ queue' = [queue EXCEPT ![c] = <<x>>]
      BY <2>4 DEF RepeatHello
    <3>2. \A d \in Conn : \A i \in DOMAIN queue'[d] :
              queue'[d][i].kind = "relay" =>
                  \E j \in DOMAIN queue[d] : queue'[d][i] = queue[d][j]
      BY <3>1 DEF TypeOK
    <3> QED BY <3>1, <3>2, NothingRelayed
  <2>5. ASSUME NEW c \in Conn, Deliver(c) PROVE IsolationInv'
    <3>1. /\ UNCHANGED <<hello, phase>>
          /\ queue[c] # <<>>
          /\ queue' = [queue EXCEPT ![c] = Tail(@)]
      BY <2>5 DEF Deliver
    <3>2. \A d \in Conn : \A i \in DOMAIN queue'[d] :
              \E j \in DOMAIN queue[d] : queue'[d][i] = queue[d][j]
      <4> SUFFICES ASSUME NEW d \in Conn, NEW i \in DOMAIN queue'[d]
                   PROVE  \E j \in DOMAIN queue[d] : queue'[d][i] = queue[d][j]
        OBVIOUS
      <4>1. CASE d = c
        <5>1. queue[c] \in Seq(Message) /\ queue'[c] = Tail(queue[c])
          BY <3>1 DEF TypeOK
        <5>2. i \in DOMAIN Tail(queue[c])
          BY <4>1, <5>1
        <5>3. i + 1 \in DOMAIN queue[c] /\ queue'[c][i] = queue[c][i + 1]
          BY <3>1, <5>1, <5>2, TailIsRest
        <5> QED BY <4>1, <5>3
      <4>2. CASE d # c
        BY <3>1, <4>2 DEF TypeOK
      <4> QED BY <4>1, <4>2
    <3> QED BY <3>1, <3>2, NothingRelayed
  <2>6. ASSUME NEW c \in Conn, SendFails(c) \/ Finish(c) PROVE IsolationInv'
    <3>1. UNCHANGED hello /\ queue' = [queue EXCEPT ![c] = <<>>]
      BY <2>6 DEF SendFails, Finish
    <3>2. \A d \in Conn : phase'[d] = "hello" => phase[d] = "hello"
      BY <2>6 DEF SendFails, Finish, TypeOK
    <3>3. \A d \in Conn : \A i \in DOMAIN queue'[d] :
              \E j \in DOMAIN queue[d] : queue'[d][i] = queue[d][j]
      BY <3>1 DEF TypeOK
    <3> QED BY <3>1, <3>2, <3>3, NothingRelayed
  <2>7. ASSUME NEW c \in Conn, Refuse(c) \/ Disconnect(c) \/ Cleanup(c)
        PROVE  IsolationInv'
    <3>1. UNCHANGED <<hello, queue>>
      BY <2>7 DEF Refuse, Disconnect, Cleanup
    <3>2. \A d \in Conn : phase'[d] = "hello" => phase[d] = "hello"
      BY <2>7 DEF Refuse, Disconnect, Cleanup, TypeOK
    <3> QED BY <3>1, <3>2, NothingRelayed
  <2>8. CASE UNCHANGED vars
    BY <2>8, NothingRelayed DEF vars
  <2> QED BY <2>1, <2>2, <2>3, <2>4, <2>5, <2>6, <2>7, <2>8 DEF Next, Step
<1> QED BY <1>1, <1>2, TypeCorrect, RoomsInvariant, PTL DEF Spec

\* Signalling never crosses between machines, whatever rooms, replacements and
\* queues are in play (main.rs:225-241, auth.rs:41-46, 67-71).
THEOREM RoomsIsolated == Spec => []Isolation
<1>1. IsolationInv => Isolation
  BY DEF IsolationInv
<1> QED BY <1>1, IsolationInvariant, PTL

=============================================================================
