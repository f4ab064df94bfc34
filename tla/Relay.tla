------------------------------- MODULE Relay -------------------------------
(***************************************************************************)
(* The signalling relay (crates/relay/src/main.rs, auth.rs).  Every        *)
(* WebSocket is served by one task running handle_connection; tasks share  *)
(* the map of rooms behind a lock and push text into each other's          *)
(* unbounded channels.  A connection c is one run of handle_connection,    *)
(* so c stands for the conn_id that NEXT_ID hands out.                     *)
(*                                                                         *)
(* Abstracted: payloads (a relayed text is its sender and its number), the *)
(* wording of errors, pings, binary frames and unparsable text in the read *)
(* loop, all of which change nothing.                                      *)
(***************************************************************************)
EXTENDS Integers, Sequences, FiniteSetsExt

CONSTANTS
    Conn,       \* the connections that may be made, each at most once
    Machine,    \* the machines, by their id (a Uuid)
    Spelling,   \* the strings Uuid::parse reads as an id: with or without hyphens, any case
    IdOf,       \* the machine each of them names: Uuid::parse
    None,       \* "no agent in this room", "no Hello yet"
    MaxRelays   \* bound: relay messages sent by all clients together

ASSUME IdOfAssumption == IdOf \in [Spelling -> Machine]
ASSUME MaxRelaysAssumption == MaxRelays \in Nat

VARIABLES
    phase,      \* where c's handle_connection task stands
    hello,      \* c's accepted Hello: role, machine_id and what its token proves
    rooms,      \* keys of the map of rooms
    agent,      \* Room.agent
    browsers,   \* Room.browsers
    queue,      \* c's channel: texts pushed and not yet written to the socket
    rx,         \* c's channel still has its receiver
    sent,       \* relay messages read from c so far
    heard,      \* history: how far c has heard each sender since it registered
    prompted,   \* history: whose readies or messages were written to c's socket
    newest      \* history: the last agent to register in a room

connVars == <<phase, hello>>
roomVars == <<rooms, agent, browsers, newest>>
chanVars == <<queue, rx, heard, prompted>>
vars == <<connVars, roomVars, chanVars, sent>>

----------------------------------------------------------------------------

Role == {"agent", "browser"}

\* What a token proves: the role and machine of an agent_token's row or of a
\* session JWT; None stands for a missing, unknown or expired token.
Place == [role : Role, machine : Machine]
Proof == Place \cup {None}

\* The machine_id of a Hello is a string, and keys the rooms as it stands.
Hello == [role : Role, machine_id : Spelling, token : Proof]

ASSUME NoneAssumption == None \notin Conn /\ None \notin Hello /\ None \notin Place

\* "relay": forwarded text; "ready": the synthetic nudge an agent's own task
\* queues; "error": the reply to a second Hello.
Message == [kind : {"relay", "ready", "error"}, from : Conn, n : Nat]

Phase == {"hello", "announce", "open", "closing", "draining", "closed"}

\* c is between its registration and its cleanup.
Registered(c) == phase[c] \in {"announce", "open", "closing"}

RoleOf(c) == hello[c].role
RoomOf(c) == hello[c].machine_id

----------------------------------------------------------------------------

Init ==
    /\ phase = [c \in Conn |-> "hello"]
    /\ hello = [c \in Conn |-> None]
    /\ rooms = {}
    /\ agent = [m \in Spelling |-> None]
    /\ browsers = [m \in Spelling |-> {}]
    /\ queue = [c \in Conn |-> <<>>]
    /\ rx = [c \in Conn |-> FALSE]
    /\ sent = [c \in Conn |-> 0]
    /\ heard = [c \in Conn |-> [d \in Conn |-> 0]]
    /\ prompted = [c \in Conn |-> {}]
    /\ newest = [m \in Spelling |-> None]

----------------------------------------------------------------------------
(* The Hello, its authentication and the registration.                     *)

\* Variant for mutation: the token's machine is not compared.
AuthenticAnywhere(h) == h.token # None /\ h.token.role = h.role

\* validate_agent_token and validate_session_token: the token is good for the
\* role's own kind of credential and names the machine whose id the Hello spells.
Authentic(h) == h.token = [role |-> h.role, machine |-> IdOf[h.machine_id]]

\* The first text is not a Hello, its machine_id is no Uuid, its token is missing
\* or refused, or the client leaves before: the task returns and leaves no trace.
Refuse(c) ==
    /\ phase[c] = "hello"
    /\ phase' = [phase EXCEPT ![c] = "closed"]
    /\ UNCHANGED <<roomVars, chanVars, hello, sent>>

\* Variant for mutation: the browsers already there are not counted.
WaitingUncounted(h) == {}

\* waiting_browsers, counted under the lock that registers.
WaitingFor(h) == IF h.role = "agent" THEN browsers[h.machine_id] ELSE {}

\* How much the peers it finds in its room have said before it came.
SpokenBefore(h) ==
    [d \in Conn |-> IF /\ Registered(d)
                       /\ RoomOf(d) = h.machine_id
                       /\ RoleOf(d) # h.role
                    THEN sent[d] ELSE 0]

\* A Hello passes authentication and c enters the room its Hello names, in one
\* critical section of the rooms lock.  An agent takes the seat whoever had it.
Register(c, h) ==
    /\ phase[c] = "hello"
    /\ Authentic(h)
    /\ hello' = [hello EXCEPT ![c] = h]
    /\ rooms' = rooms \cup {h.machine_id}
    /\ \/ /\ h.role = "agent"
          /\ agent' = [agent EXCEPT ![h.machine_id] = c]
          /\ newest' = [newest EXCEPT ![h.machine_id] = c]
          /\ UNCHANGED browsers
       \/ /\ h.role = "browser"
          /\ browsers' = [browsers EXCEPT ![h.machine_id] = @ \cup {c}]
          /\ UNCHANGED <<agent, newest>>
    /\ rx' = [rx EXCEPT ![c] = TRUE]
    /\ phase' = [phase EXCEPT ![c] = IF WaitingFor(h) = {} THEN "open" ELSE "announce"]
    /\ heard' = [heard EXCEPT ![c] = SpokenBefore(h)]
    /\ UNCHANGED <<queue, prompted, sent>>

\* With browsers waiting, the agent's task queues the synthetic ready for its
\* own client, after the lock is released.
Announce(c) ==
    /\ phase[c] = "announce"
    /\ queue' = [queue EXCEPT ![c] = Append(@, [kind |-> "ready", from |-> c, n |-> 0])]
    /\ phase' = [phase EXCEPT ![c] = "open"]
    /\ UNCHANGED <<roomVars, hello, rx, heard, prompted, sent>>

----------------------------------------------------------------------------
(* The read loop.                                                          *)

\* Variant for mutation: replaced agents are still sent what browsers say.
TargetsEveryAgent(c) ==
    LET m == RoomOf(c) IN
    IF RoleOf(c) = "agent" THEN browsers[m]
    ELSE {d \in Conn : Registered(d) /\ RoleOf(d) = "agent" /\ RoomOf(d) = m}

\* Whose channels a relay message of c goes to: all browsers of the room, or
\* the agent seated in it.  A replaced agent still reaches the browsers.
Targets(c) ==
    LET m == RoomOf(c) IN
    IF m \notin rooms THEN {}
    ELSE IF RoleOf(c) = "agent" THEN browsers[m] ELSE {agent[m]} \ {None}

\* A push into a channel whose receiver is gone is silently lost.
RelayText(c) ==
    /\ phase[c] = "open"
    /\ MapThenSumSet(LAMBDA d : sent[d], Conn) < MaxRelays
    /\ sent' = [sent EXCEPT ![c] = @ + 1]
    /\ queue' = [d \in Conn |->
                   IF d \in Targets(c) /\ rx[d]
                   THEN Append(queue[d], [kind |-> "relay", from |-> c, n |-> sent[c] + 1])
                   ELSE queue[d]]
    /\ UNCHANGED <<connVars, roomVars, rx, heard, prompted>>

\* A second Hello is answered with an error; bound: asked only with nothing queued.
RepeatHello(c) ==
    /\ phase[c] = "open"
    /\ rx[c]
    /\ queue[c] = <<>>
    /\ queue' = [queue EXCEPT ![c] = <<[kind |-> "error", from |-> c, n |-> 0]>>]
    /\ UNCHANGED <<connVars, roomVars, rx, heard, prompted, sent>>

\* Variant for mutation: the Hello is forgotten before the cleanup needs it.
DisconnectForgets(c) ==
    /\ phase[c] = "open"
    /\ phase' = [phase EXCEPT ![c] = "closing"]
    /\ hello' = [hello EXCEPT ![c] = None]
    /\ UNCHANGED <<roomVars, chanVars, sent>>

\* Close frame, end of stream or read error.
Disconnect(c) ==
    /\ phase[c] = "open"
    /\ phase' = [phase EXCEPT ![c] = "closing"]
    /\ UNCHANGED <<roomVars, chanVars, hello, sent>>

----------------------------------------------------------------------------
(* Cleanup, one critical section of the rooms lock, and the end of the     *)
(* task.                                                                   *)

\* Variants for mutation: any agent's cleanup empties the seat; the seat goes
\* back to an agent that was replaced.
SeatCleared(c) == IF RoleOf(c) = "agent" THEN None ELSE agent[RoomOf(c)]

SeatHandedBack(c) ==
    LET m == RoomOf(c)
        others == {d \in Conn \ {c} :
                     Registered(d) /\ RoleOf(d) = "agent" /\ RoomOf(d) = m}
    IN IF RoleOf(c) = "agent" /\ agent[m] = c /\ others # {}
       THEN CHOOSE d \in others : TRUE
       ELSE IF RoleOf(c) = "agent" /\ agent[m] = c THEN None ELSE agent[m]

\* The agent left in c's room: only the current one gives its seat up.
SeatAfter(c) ==
    LET m == RoomOf(c) IN
    IF RoleOf(c) = "agent" /\ agent[m] = c THEN None ELSE agent[m]

\* Variant for mutation: the seat is not looked at.
EmptyOfBrowsers(seat, crowd) == crowd = {}

\* Room::is_empty, asked of the room as the cleanup leaves it.
IsEmpty(seat, crowd) == seat = None /\ crowd = {}

Cleanup(c) ==
    LET m == RoomOf(c) IN
    /\ phase[c] = "closing"
    /\ phase' = [phase EXCEPT ![c] = "draining"]
    /\ \/ /\ m \in rooms
          /\ agent' = [agent EXCEPT ![m] = SeatAfter(c)]
          /\ browsers' = [browsers EXCEPT ![m] = @ \ {c}]
          /\ rooms' = IF IsEmpty(agent'[m], browsers'[m]) THEN rooms \ {m} ELSE rooms
       \/ /\ m \notin rooms
          /\ UNCHANGED <<agent, browsers, rooms>>
    /\ UNCHANGED <<newest, chanVars, hello, sent>>

\* done_tx stops the send task whatever is still queued, and the task returns:
\* its channel and its locals are gone.
Finish(c) ==
    /\ phase[c] = "draining"
    /\ phase' = [phase EXCEPT ![c] = "closed"]
    /\ rx' = [rx EXCEPT ![c] = FALSE]
    /\ queue' = [queue EXCEPT ![c] = <<>>]
    /\ heard' = [heard EXCEPT ![c] = [d \in Conn |-> 0]]
    /\ prompted' = [prompted EXCEPT ![c] = {}]
    /\ UNCHANGED <<roomVars, hello, sent>>

----------------------------------------------------------------------------
(* The send task, spawned once the connection is announced.                *)

Deliver(c) ==
    /\ phase[c] \in {"open", "closing", "draining"}
    /\ rx[c]
    /\ queue[c] # <<>>
    /\ LET x == Head(queue[c]) IN
       /\ heard' = IF x.kind = "relay" THEN [heard EXCEPT ![c][x.from] = x.n] ELSE heard
       /\ prompted' = IF x.kind = "error" THEN prompted
                       ELSE [prompted EXCEPT ![c] = @ \cup {x.from}]
    /\ queue' = [queue EXCEPT ![c] = Tail(@)]
    /\ UNCHANGED <<connVars, roomVars, rx, sent>>

\* Writing to the socket fails: the send task ends and drops its receiver,
\* with all that is queued.
SendFails(c) ==
    /\ phase[c] \in {"open", "closing", "draining"}
    /\ rx[c]
    /\ queue[c] # <<>>
    /\ rx' = [rx EXCEPT ![c] = FALSE]
    /\ queue' = [queue EXCEPT ![c] = <<>>]
    /\ UNCHANGED <<connVars, roomVars, heard, prompted, sent>>

----------------------------------------------------------------------------

Step(c) ==
    \/ Refuse(c) \/ (\E h \in Hello : Register(c, h)) \/ Announce(c)
    \/ RelayText(c) \/ RepeatHello(c) \/ Disconnect(c) \/ Cleanup(c) \/ Finish(c)
    \/ Deliver(c) \/ SendFails(c)

Next == \E c \in Conn : Step(c)

Spec == Init /\ [][Next]_vars

\* tokio runs every task that can run; clients owe nothing, except that a
\* socket that fails a write soon ends its reads too.
Fairness ==
    \A c \in Conn :
        /\ WF_vars(Announce(c))
        /\ WF_vars(Deliver(c))
        /\ WF_vars(~rx[c] /\ Disconnect(c))
        /\ WF_vars(Cleanup(c))
        /\ WF_vars(Finish(c))

FairSpec == Spec /\ Fairness

----------------------------------------------------------------------------
(* Properties.                                                             *)

\* Every variable has its type, and a task past its Hello has one (main.rs:19-32).
TypeOK ==
    /\ phase \in [Conn -> Phase]
    /\ hello \in [Conn -> Hello \cup {None}]
    /\ \A c \in Conn : phase[c] \notin {"hello", "closed"} => hello[c] \in Hello
    /\ rooms \subseteq Spelling
    /\ agent \in [Spelling -> Conn \cup {None}]
    /\ browsers \in [Spelling -> SUBSET Conn]
    /\ queue \in [Conn -> Seq(Message)]
    /\ rx \in [Conn -> BOOLEAN]
    /\ sent \in [Conn -> Nat]
    /\ heard \in [Conn -> [Conn -> Nat]]
    /\ prompted \in [Conn -> SUBSET Conn]
    /\ newest \in [Spelling -> Conn \cup {None}]

\* The browsers of a room are exactly the registered browser connections that
\* named it: none is missed and no dead entry is left behind (main.rs:178-181,
\* 277-279).
BrowsersExact ==
    \A m \in Spelling :
        browsers[m] = {c \in Conn : /\ Registered(c)
                                    /\ RoleOf(c) = "browser"
                                    /\ RoomOf(c) = m}

\* The agent of a room is a registered agent connection that named it
\* (main.rs:171-177, 268-276).
SeatLive ==
    \A m \in Spelling :
        agent[m] # None => /\ agent[m] \in Conn
                           /\ Registered(agent[m])
                           /\ RoleOf(agent[m]) = "agent"
                           /\ RoomOf(agent[m]) = m

\* The map holds a room exactly while somebody is in it: rooms are neither
\* leaked nor dropped under a member (main.rs:281-284).
RoomsExact ==
    rooms = {m \in Spelling : agent[m] # None \/ browsers[m] # {}}

RoomsConsistent == BrowsersExact /\ SeatLive /\ RoomsExact

\* A room's newest agent keeps the seat until its own cleanup, however late
\* the tasks of the agents it replaced are cleaned up, and nobody sits there
\* afterwards (main.rs:268-276: "disconnect only removes the current one").
NewestAgentSeated ==
    \A m \in Spelling :
        agent[m] = IF newest[m] # None /\ Registered(newest[m]) THEN newest[m] ELSE None

\* Text crosses from a sender to a receiver only when their tokens are for the
\* same machine and for opposite roles: sessions of different machines, hence of
\* different tenants, never see each other's signalling (main.rs:225-241,
\* auth.rs:41-46, 67-71).
SameRoom(s, r) ==
    /\ hello[s] # None
    /\ hello[r] # None
    /\ hello[s].token.machine = hello[r].token.machine
    /\ hello[s].token.role # hello[r].token.role

Isolation ==
    \A r \in Conn : \A i \in DOMAIN queue[r] :
        queue[r][i].kind = "relay" => SameRoom(queue[r][i].from, r)

\* A receiver is handed every message its peers send from the moment it
\* registers, gapless and in order: offers, answers and candidates are never
\* reordered, repeated or skipped, and an agent that lost its seat hears no more
\* (main.rs:166-183, 225-241).
Coming(r, s) ==
    {i \in DOMAIN queue[r] : queue[r][i].kind = "relay" /\ queue[r][i].from = s}

Gapless(r, s) ==
    /\ \A i \in Coming(r, s) :
          /\ heard[r][s] < queue[r][i].n /\ queue[r][i].n <= sent[s]
          /\ \/ queue[r][i].n = heard[r][s] + 1
             \/ \E j \in Coming(r, s) : j < i /\ queue[r][i].n = queue[r][j].n + 1
    /\ \A i, j \in Coming(r, s) : i < j => queue[r][i].n < queue[r][j].n

NothingSkipped == \A r, s \in Conn : Gapless(r, s)

\* The handshake starts: while a browser that has spoken shares a room with the
\* seated agent, the agent is eventually handed a synthetic ready or a message
\* of that browser, unless one of the two goes away (main.rs:161-165: without
\* the nudge a ready sent "before the agent's WebSocket was up" is dropped and
\* the agent sits "idle forever").
Meeting(a, b) ==
    /\ phase[a] \in {"announce", "open"} /\ rx[a]
    /\ phase[b] = "open"
    /\ a = agent[RoomOf(a)]
    /\ b \in browsers[RoomOf(a)]

\* While they meet, that ready or message is there from the first moment on: said
\* already to the agent, in its channel, or about to be put there by its own task,
\* whichever of the two registered first and whatever connections came and went
\* in their room before (main.rs:161-197).
Nudged(a, b) ==
    \/ phase[a] = "announce"
    \/ prompted[a] \cap {a, b} # {}
    \/ \E i \in DOMAIN queue[a] : queue[a][i].kind # "error" /\ queue[a][i].from \in {a, b}

ReadyOnItsWay ==
    \A a, b \in Conn : Meeting(a, b) /\ sent[b] > 0 => Nudged(a, b)

HandshakeStarts(a, b) ==
    (Meeting(a, b) /\ sent[b] > 0) ~> (prompted[a] \cap {a, b} # {} \/ ~Meeting(a, b))

----------------------------------------------------------------------------
(* The relay implements Room: a member is present from its registration to *)
(* its cleanup, and its mail is the relayed texts in its channel.          *)

PlaceOf(c) ==
    IF hello[c] = None THEN None
    ELSE [role |-> hello[c].token.role,
          machine |-> hello[c].token.machine,
          room |-> hello[c].machine_id]

MailOf(c) ==
    {[from |-> queue[c][i].from, n |-> queue[c][i].n] :
        i \in {j \in DOMAIN queue[c] : queue[c][j].kind = "relay"}}

R == INSTANCE Room WITH
        place <- [c \in Conn |-> PlaceOf(c)],
        present <- {c \in Conn : Registered(c)},
        latest <- newest,
        reachable <- {c \in Conn : rx[c]},
        mail <- [c \in Conn |-> MailOf(c)],
        said <- sent,
        heard <- heard

ASSUME NoPlaceAssumption == None \notin R!Place

\* Every step of the relay is a step of Room or changes nothing a client can
\* tell: joining a room of the machine the token names, routing by seat and role
\* within it, order and loss are as promised whatever the tasks' interleaving, and
\* clients that spell one id differently are in rooms of their own (main.rs:143-285).
RoomSpec == R!Spec

=============================================================================
