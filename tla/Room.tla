-------------------------------- MODULE Room --------------------------------
(***************************************************************************)
(* What the signalling relay promises its clients, without its tasks, its  *)
(* lock, its map and its channels: clients meet in a room of the machine   *)
(* their token names, a text goes to the members of the other role who are *)
(* there when it is sent, the seat of a room's agent is the latest         *)
(* agent's, and a member that can be reached hears each sender's texts in  *)
(* order and without a gap.  A machine has as many rooms, and as many      *)
(* seats, as its id has spellings: clients that spell it differently do    *)
(* not meet.  Relay implements it.                                         *)
(***************************************************************************)
EXTENDS Integers

CONSTANTS
    Conn,       \* the clients
    Machine,    \* the machines
    Spelling,   \* the ways to write a machine's id: a room each
    IdOf,       \* whose id each of them is
    None        \* "has not joined", "no agent yet"

VARIABLES
    place,      \* the role and machine c's token proves and c's room, once c has joined
    present,    \* who is in the room of their place
    latest,     \* the last agent to have joined a room
    reachable,  \* who can still be handed a text
    mail,       \* the texts on their way to c
    said,       \* how many texts c has sent
    heard       \* the last text of each sender that c was handed or came too late for

vars == <<place, present, latest, reachable, mail, said, heard>>

Place == [role : {"agent", "browser"}, machine : Machine, room : Spelling]

\* A text: who sent it, and its number among that sender's texts.
Text == [from : Conn, n : Nat]

----------------------------------------------------------------------------

Init ==
    /\ place = [c \in Conn |-> None]
    /\ present = {}
    /\ latest = [m \in Spelling |-> None]
    /\ reachable = {}
    /\ mail = [c \in Conn |-> {}]
    /\ said = [c \in Conn |-> 0]
    /\ heard = [c \in Conn |-> [d \in Conn |-> 0]]

\* p and q are places on the two sides of one room.
Facing(p, q) == p.room = q.room /\ p.role # q.role

\* A client's room is one of the machine its token names.  What the members it
\* finds there have said is not for the newcomer.
Join(c) ==
    /\ place[c] = None
    /\ present' = present \cup {c}
    /\ reachable' = reachable \cup {c}
    /\ \E p \in Place :
          /\ IdOf[p.room] = p.machine
          /\ place' = [place EXCEPT ![c] = p]
          /\ latest' = IF p.role = "agent" THEN [latest EXCEPT ![p.room] = c] ELSE latest
          /\ heard' = [heard EXCEPT ![c] =
                          [d \in Conn |-> IF d \in present /\ Facing(place[d], p)
                                          THEN said[d] ELSE 0]]
    /\ UNCHANGED <<mail, said>>

\* Whom a text of c is for: the members it faces, of the agents only the latest.
Audience(c) ==
    {d \in present : /\ Facing(place[c], place[d])
                     /\ place[d].role = "agent" => latest[place[d].room] = d}

Say(c) ==
    /\ c \in present
    /\ said' = [said EXCEPT ![c] = @ + 1]
    /\ mail' = [d \in Conn |->
                  IF d \in Audience(c) \cap reachable
                  THEN mail[d] \cup {[from |-> c, n |-> said[c] + 1]}
                  ELSE mail[d]]
    /\ UNCHANGED <<place, present, latest, reachable, heard>>

\* c is handed the text that follows the last one it heard of that sender.
Hear(c, t) ==
    /\ t \in mail[c]
    /\ t.n = heard[c][t.from] + 1
    /\ heard' = [heard EXCEPT ![c][t.from] = t.n]
    /\ mail' = [mail EXCEPT ![c] = @ \ {t}]
    /\ UNCHANGED <<place, present, latest, reachable, said>>

\* c's socket fails: what was on its way, and all that follows, is lost.
Lose(c) ==
    /\ c \in reachable
    /\ reachable' = reachable \ {c}
    /\ mail' = [mail EXCEPT ![c] = {}]
    /\ UNCHANGED <<place, present, latest, said, heard>>

\* c leaves its room; what is on its way may still be handed over, or not.
Leave(c) ==
    /\ c \in present
    /\ present' = present \ {c}
    /\ UNCHANGED <<place, latest, reachable, mail, said, heard>>

Forget(c) ==
    /\ c \notin present
    /\ place[c] # None
    /\ reachable' = reachable \ {c}
    /\ mail' = [mail EXCEPT ![c] = {}]
    /\ heard' = [heard EXCEPT ![c] = [d \in Conn |-> 0]]
    /\ UNCHANGED <<place, present, latest, said>>

----------------------------------------------------------------------------

Next ==
    \E c \in Conn :
        \/ Join(c) \/ Say(c) \/ Lose(c) \/ Leave(c) \/ Forget(c)
        \/ \E t \in mail[c] : Hear(c, t)

Spec == Init /\ [][Next]_vars

=============================================================================
