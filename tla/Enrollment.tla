----------------------------- MODULE Enrollment -----------------------------
(***************************************************************************)
(* How an agent gets its identity and how the API keeps track of it: the   *)
(* agent's first start (agent-core/config.rs, enrollment.rs, the mains of  *)
(* the agents), the tables machines and adhoc_machines with the handlers   *)
(* that change them (api/routes/enrollment.rs, adhoc.rs, agent.rs,         *)
(* delete_machine of machines.rs), and the sweeps of api/main.rs.          *)
(*                                                                         *)
(* A row's agent token and access code are random and drawn with the row,  *)
(* so they are named after the id of the row they were drawn for: token i  *)
(* is the token drawn for row i, in whatever row it stands now.  Time      *)
(* passes as flags: fresh falls when last_seen is 90 seconds old, expired  *)
(* rises at expires_at, a session token leaves jwts after two minutes.     *)
(* Every transaction, and every statement outside one, is one step; a      *)
(* failed one changes nothing.                                             *)
(*                                                                         *)
(* Abstracted: the tenant a machine belongs to, names, hostnames, the PIN  *)
(* (a wrong one is refused and changes nothing), audit events.             *)
(***************************************************************************)
EXTENDS FiniteSets, Naturals

CONSTANTS
    Computer,   \* computers an installer was run on
    Public,     \* those with the public installer: no enrollment token
    Uuid,       \* ids the database may draw: bounds how many rows are ever made
    None

ASSUME PublicAssumption == Public \subseteq Computer
ASSUME NoneAssumption == None \notin Uuid

VARIABLES
    process,    \* how far a computer's agent has come since it was started
    reply,      \* the id in the registration reply it has not saved yet
    conf,       \* the id in its agent.conf: MACHINE_ID, with its AGENT_TOKEN
    beat,       \* how far the API has come with the computer's heartbeat
    machines,   \* the table machines
    adhoc,      \* the table adhoc_machines
    drawn,      \* ids drawn so far
    jwts,       \* machine ids that unexpired session tokens of adhoc connects name
    connecting, \* ids of the rows that connects under way have found
    sweeper     \* the statement the API's sweep loop runs next

agentVars == <<process, reply, conf>>
vars == <<agentVars, beat, machines, adhoc, drawn, jwts, connecting, sweeper>>

----------------------------------------------------------------------------

\* A row of machines; fresh: last_seen is set and at most 90 seconds old.
MachineRow == [token : Uuid, online : BOOLEAN, fresh : BOOLEAN]

\* A row of adhoc_machines; the token or code None stands for 'CLAIMED:<id>'.
AdhocRow == [token : Uuid \cup {None}, code : Uuid \cup {None}, claimed : BOOLEAN,
             online : BOOLEAN, fresh : BOOLEAN, expired : BOOLEAN]

ASSUME RowAssumption == None \notin MachineRow /\ None \notin AdhocRow

\* The ids of the rows there are.
Owned == {i \in Uuid : machines[i] # None}
Guests == {i \in Uuid : adhoc[i] # None}

\* SELECT id FROM machines / adhoc_machines WHERE agent_token = $1
OwnedBy(token) == {i \in Owned : machines[i].token = token}
GuestOf(token) == {i \in Guests : adhoc[i].token = token}

\* UPDATE machines / adhoc_machines SET last_seen = now(), online WHERE id = $1
Seen(row) == [row EXCEPT !.online = TRUE, !.fresh = TRUE]
TouchOwned(i) == IF i \in Owned THEN [machines EXCEPT ![i] = Seen(@)] ELSE machines
TouchGuest(i) == IF i \in Guests THEN [adhoc EXCEPT ![i] = Seen(@)] ELSE adhoc

Process == {"down", "asking", "saving", "running"}
Beat == {"none", "machines", "adhoc", "touchMachine", "touchAdhoc"}
Sweeper == {"machines", "adhoc", "purge"}

Init ==
    /\ process = [c \in Computer |-> "down"]
    /\ reply = [c \in Computer |-> None]
    /\ conf = [c \in Computer |-> None]
    /\ beat = [c \in Computer |-> "none"]
    /\ machines = [i \in Uuid |-> None]
    /\ adhoc = [i \in Uuid |-> None]
    /\ drawn = {}
    /\ jwts = {}
    /\ connecting = {}
    /\ sweeper = "machines"

----------------------------------------------------------------------------
(* The agent: first start, registration, restart.                          *)

\* Variant for mutation: an agent without credentials runs.
StartAnyway(c) ==
    /\ process[c] = "down"
    /\ process' = [process EXCEPT ![c] = "running"]
    /\ UNCHANGED <<reply, conf, beat, machines, adhoc, drawn, jwts, connecting, sweeper>>

\* AgentConfig::load: saved credentials win, else the agent asks for some.
Start(c) ==
    /\ process[c] = "down"
    /\ process' = [process EXCEPT ![c] = IF conf[c] # None THEN "running" ELSE "asking"]
    /\ UNCHANGED <<reply, conf, beat, machines, adhoc, drawn, jwts, connecting, sweeper>>

\* The row enroll inserts, and the one register (adhoc.rs) inserts.
EnrolledRow(i) == [token |-> i, online |-> FALSE, fresh |-> FALSE]
RegisteredRow(i) ==
    [token |-> i, code |-> i, claimed |-> FALSE,
     online |-> FALSE, fresh |-> TRUE, expired |-> FALSE]

\* The API makes the row the agent asks for.  The reply may get lost, or come
\* after the agent's timeout: the agent then exits and the row is nobody's.
MakeRow(c, i) ==
    /\ process[c] = "asking"
    /\ i \notin drawn
    /\ drawn' = drawn \cup {i}
    /\ \/ /\ c \in Public
          /\ adhoc' = [adhoc EXCEPT ![i] = RegisteredRow(i)]
          /\ UNCHANGED machines
       \/ /\ c \notin Public
          /\ machines' = [machines EXCEPT ![i] = EnrolledRow(i)]
          /\ UNCHANGED adhoc
    /\ \/ /\ process' = [process EXCEPT ![c] = "saving"]
          /\ reply' = [reply EXCEPT ![c] = i]
       \/ /\ process' = [process EXCEPT ![c] = "down"]
          /\ UNCHANGED reply
    /\ UNCHANGED <<conf, beat, jwts, connecting, sweeper>>

\* save_to_config and save_adhoc_to_config: a temporary file and a rename, so
\* the credentials are saved whole or not at all.
Save(c) ==
    /\ process[c] = "saving"
    /\ conf' = [conf EXCEPT ![c] = reply[c]]
    /\ reply' = [reply EXCEPT ![c] = None]
    /\ process' = [process EXCEPT ![c] = "running"]
    /\ UNCHANGED <<beat, machines, adhoc, drawn, jwts, connecting, sweeper>>

\* The computer is shut down, the agent crashes or an error ends it.
Crash(c) ==
    /\ process[c] # "down"
    /\ process' = [process EXCEPT ![c] = "down"]
    /\ reply' = [reply EXCEPT ![c] = None]
    /\ UNCHANGED <<conf, beat, machines, adhoc, drawn, jwts, connecting, sweeper>>

----------------------------------------------------------------------------
(* heartbeat: three statements with no transaction around them.  Bound: the *)
(* API serves one heartbeat of a computer at a time.                       *)

SendBeat(c) ==
    /\ process[c] = "running"
    /\ beat[c] = "none"
    /\ beat' = [beat EXCEPT ![c] = "machines"]
    /\ UNCHANGED <<agentVars, machines, adhoc, drawn, jwts, connecting, sweeper>>

\* Looks the token up in machines: the row found must be the one the agent names.
BeatMachines(c) ==
    /\ beat[c] = "machines"
    /\ beat' = [beat EXCEPT ![c] =
                  IF OwnedBy(conf[c]) = {} THEN "adhoc"
                  ELSE IF conf[c] \in OwnedBy(conf[c]) THEN "touchMachine"
                  ELSE "none"]
    /\ UNCHANGED <<agentVars, machines, adhoc, drawn, jwts, connecting, sweeper>>

\* Not in machines: looks it up in adhoc_machines.
BeatAdhoc(c) ==
    /\ beat[c] = "adhoc"
    /\ beat' = [beat EXCEPT ![c] =
                  IF conf[c] \in GuestOf(conf[c]) THEN "touchAdhoc" ELSE "none"]
    /\ UNCHANGED <<agentVars, machines, adhoc, drawn, jwts, connecting, sweeper>>

\* Variant for mutation: the adhoc heartbeat follows the token wherever it went.
BeatTouchToken(c) ==
    /\ \/ beat[c] = "touchMachine" /\ machines' = TouchOwned(conf[c]) /\ UNCHANGED adhoc
       \/ beat[c] = "touchAdhoc" /\ adhoc' = TouchGuest(conf[c])
          /\ machines' = [i \in Uuid |-> IF i \in OwnedBy(conf[c]) THEN Seen(machines[i])
                                         ELSE machines[i]]
    /\ beat' = [beat EXCEPT ![c] = "none"]
    /\ UNCHANGED <<agentVars, drawn, jwts, connecting, sweeper>>

\* The row found by token is updated by id, even if it changed hands meanwhile.
BeatTouch(c) ==
    /\ \/ beat[c] = "touchMachine" /\ machines' = TouchOwned(conf[c]) /\ UNCHANGED adhoc
       \/ beat[c] = "touchAdhoc" /\ adhoc' = TouchGuest(conf[c]) /\ UNCHANGED machines
    /\ beat' = [beat EXCEPT ![c] = "none"]
    /\ UNCHANGED <<agentVars, drawn, jwts, connecting, sweeper>>

\* The request is lost, cancelled with its connection, or a statement fails.
LoseBeat(c) ==
    /\ beat[c] # "none"
    /\ beat' = [beat EXCEPT ![c] = "none"]
    /\ UNCHANGED <<agentVars, machines, adhoc, drawn, jwts, connecting, sweeper>>

----------------------------------------------------------------------------
(* People: a viewer connects with a code, a tenant's admin claims a machine *)
(* with it, or deletes one.                                                *)

\* SELECT ... WHERE access_code = $1, in connect and in claim.
WithCode(code) == {i \in Guests : adhoc[i].code = code}

\* connect, its SELECT: neither claimed_at nor online is looked at.  Bound: one
\* connect of a row at a time.
FindByCode(code) ==
    \E i \in WithCode(code) \ connecting :
        /\ ~adhoc[i].expired
        /\ connecting' = connecting \cup {i}
        /\ UNCHANGED <<agentVars, beat, machines, adhoc, drawn, jwts, sweeper>>

\* connect, once the row has come back: the PIN matches that row's and the session
\* token is minted for its id, whatever has become of the row since.
Mint(i) ==
    /\ i \in connecting
    /\ connecting' = connecting \ {i}
    /\ jwts' = jwts \cup {i}
    /\ UNCHANGED <<agentVars, beat, machines, adhoc, drawn, sweeper>>

\* The PIN is another one, or the viewer hangs up and the request is dropped.
ConnectFails(i) ==
    /\ i \in connecting
    /\ connecting' = connecting \ {i}
    /\ UNCHANGED <<agentVars, beat, machines, adhoc, drawn, jwts, sweeper>>

\* Variant for mutation: the claimed row keeps its agent token.
ClaimedKeepingToken(row) == [row EXCEPT !.claimed = TRUE, !.code = None]

\* Variant for mutation: the claimed row keeps its access code.
ClaimedKeepingCode(row) == [row EXCEPT !.claimed = TRUE, !.token = None]

\* What is left of a claimed row: kept for audit, its code and token cleared.
Claimed(row) == [row EXCEPT !.claimed = TRUE, !.code = None, !.token = None]

\* claim: the token moves, with what is known of the agent, to a new row of
\* machines under an id of its own.  expires_at is not looked at.
ClaimRow(i, new) ==
    /\ ~adhoc[i].claimed
    /\ new \notin drawn
    /\ OwnedBy(adhoc[i].token) = {}    \* machines.agent_token is UNIQUE
    /\ drawn' = drawn \cup {new}
    /\ machines' = [machines EXCEPT ![new] = [token |-> adhoc[i].token,
                                              online |-> adhoc[i].online,
                                              fresh |-> adhoc[i].fresh]]
    /\ adhoc' = [adhoc EXCEPT ![i] = Claimed(@)]
    /\ UNCHANGED <<agentVars, beat, jwts, connecting, sweeper>>

Claim(code, new) == \E i \in WithCode(code) : ClaimRow(i, new)

DeleteMachine(i) ==
    /\ i \in Owned
    /\ machines' = [machines EXCEPT ![i] = None]
    /\ UNCHANGED <<agentVars, beat, adhoc, drawn, jwts, connecting, sweeper>>

----------------------------------------------------------------------------
(* Time and the sweep loop.                                                *)

Aged(row) == [row EXCEPT !.fresh = FALSE]

LastSeenAges(i) ==
    /\ \/ /\ i \in Owned /\ machines[i].fresh
          /\ machines' = [machines EXCEPT ![i] = Aged(@)]
          /\ UNCHANGED adhoc
       \/ /\ i \in Guests /\ adhoc[i].fresh
          /\ adhoc' = [adhoc EXCEPT ![i] = Aged(@)]
          /\ UNCHANGED machines
    /\ UNCHANGED <<agentVars, beat, drawn, jwts, connecting, sweeper>>

RowExpires(i) ==
    /\ i \in Guests
    /\ ~adhoc[i].expired
    /\ adhoc' = [adhoc EXCEPT ![i] = [@ EXCEPT !.expired = TRUE]]
    /\ UNCHANGED <<agentVars, beat, machines, drawn, jwts, connecting, sweeper>>

JwtExpires(i) ==
    /\ i \in jwts
    /\ jwts' = jwts \ {i}
    /\ UNCHANGED <<agentVars, beat, machines, adhoc, drawn, connecting, sweeper>>

\* sweep_stale, and the first statement of sweep_expired.
SweepMachines ==
    /\ sweeper = "machines"
    /\ sweeper' = "adhoc"
    /\ machines' = [i \in Uuid |->
                      IF i \in Owned /\ ~machines[i].fresh
                      THEN [machines[i] EXCEPT !.online = FALSE] ELSE machines[i]]
    /\ UNCHANGED <<agentVars, beat, adhoc, drawn, jwts, connecting>>

\* Variant for mutation: claimed rows are passed over.
SweepUnclaimed ==
    /\ sweeper = "adhoc"
    /\ sweeper' = "purge"
    /\ adhoc' = [i \in Uuid |->
                   IF i \in Guests /\ ~adhoc[i].fresh /\ ~adhoc[i].claimed
                   THEN [adhoc[i] EXCEPT !.online = FALSE] ELSE adhoc[i]]
    /\ UNCHANGED <<agentVars, beat, machines, drawn, jwts, connecting>>

SweepAdhoc ==
    /\ sweeper = "adhoc"
    /\ sweeper' = "purge"
    /\ adhoc' = [i \in Uuid |->
                   IF i \in Guests /\ ~adhoc[i].fresh
                   THEN [adhoc[i] EXCEPT !.online = FALSE] ELSE adhoc[i]]
    /\ UNCHANGED <<agentVars, beat, machines, drawn, jwts, connecting>>

\* Variant for mutation: only rows whose agent is offline are purged.
PurgeableIdle == {i \in Guests : adhoc[i].expired /\ ~adhoc[i].claimed /\ ~adhoc[i].online}

\* DELETE ... WHERE expires_at < now() AND claimed_at IS NULL: claimed rows stay for
\* good, no other statement deletes from the table.
Purgeable == {i \in Guests : adhoc[i].expired /\ ~adhoc[i].claimed}

Purge ==
    /\ sweeper = "purge"
    /\ sweeper' = "machines"
    /\ adhoc' = [i \in Uuid |-> IF i \in Purgeable THEN None ELSE adhoc[i]]
    /\ UNCHANGED <<agentVars, beat, machines, drawn, jwts, connecting>>

\* A statement that fails is ignored until the next round.
SweepFails ==
    /\ sweeper' = CASE sweeper = "machines" -> "adhoc"
                    [] sweeper = "adhoc" -> "purge"
                    [] sweeper = "purge" -> "machines"
    /\ UNCHANGED <<agentVars, beat, machines, adhoc, drawn, jwts, connecting>>

----------------------------------------------------------------------------

AgentNext(c) ==
    \/ Start(c) \/ (\E i \in Uuid : MakeRow(c, i)) \/ Save(c) \/ Crash(c)
    \/ SendBeat(c) \/ BeatMachines(c) \/ BeatAdhoc(c) \/ BeatTouch(c) \/ LoseBeat(c)

RowNext(i) ==
    \/ FindByCode(i) \/ Mint(i) \/ ConnectFails(i)
    \/ (\E new \in Uuid : Claim(i, new)) \/ DeleteMachine(i)
    \/ LastSeenAges(i) \/ RowExpires(i) \/ JwtExpires(i)

Next ==
    \/ \E c \in Computer : AgentNext(c)
    \/ \E i \in Uuid : RowNext(i)
    \/ SweepMachines \/ SweepAdhoc \/ Purge \/ SweepFails

Spec == Init /\ [][Next]_vars

\* Time passes; the sweep loop runs every 30 seconds and its statements do not
\* fail for ever; the API answers or drops a heartbeat.  Agents and people owe
\* nothing.
Fairness ==
    /\ \A i \in Uuid : WF_vars(LastSeenAges(i)) /\ WF_vars(RowExpires(i))
    /\ \A c \in Computer : WF_vars(BeatMachines(c) \/ BeatAdhoc(c) \/ BeatTouch(c) \/ LoseBeat(c))
    /\ SF_vars(SweepMachines)
    /\ SF_vars(SweepAdhoc)
    /\ SF_vars(Purge)

FairSpec == Spec /\ Fairness

----------------------------------------------------------------------------
(* Properties.                                                             *)

\* Every variable has its type; an agent that runs has credentials on disk, and
\* so does one whose heartbeat the API is serving.
TypeOK ==
    /\ process \in [Computer -> Process]
    /\ reply \in [Computer -> Uuid \cup {None}]
    /\ conf \in [Computer -> Uuid \cup {None}]
    /\ beat \in [Computer -> Beat]
    /\ machines \in [Uuid -> MachineRow \cup {None}]
    /\ adhoc \in [Uuid -> AdhocRow \cup {None}]
    /\ drawn \subseteq Uuid
    /\ jwts \subseteq Uuid
    /\ connecting \subseteq Uuid
    /\ sweeper \in Sweeper
    /\ \A c \in Computer : process[c] = "saving" => reply[c] # None
    /\ \A c \in Computer : process[c] = "running" \/ beat[c] # "none" => conf[c] # None

\* An agent token stands in at most one row of the two tables, through claims,
\* purges and deletions: the lookup with UNION ALL ... LIMIT 1 that admits agents
\* to the relay has one answer (relay auth.rs:21-33, "unique across both tables").
OneRowPerToken ==
    \A t \in Uuid : \A i, j \in OwnedBy(t) : i = j /\ GuestOf(t) = {}

\* A claim closes the door for codes, and so does a purge: once no connect that
\* found the row before is under way and the tokens given out have expired, no
\* viewer gets one with the code of that machine any more (adhoc.rs:269-276 "re-use
\* is impossible", though connect never looks at claimed_at and mints the token
\* after the SELECT has returned, adhoc.rs:141-166).
Closed(i) == i \in drawn /\ (i \in Guests => adhoc[i].claimed)

NoWayIn(i) == i \notin connecting \cup jwts

ClaimClosesDoor ==
    [][\A i \in Uuid : Closed(i) /\ NoWayIn(i) => Closed(i)' /\ NoWayIn(i)']_vars

\* Only the agent a tenant's machine was made for can bring it online: a machine
\* that is not online becomes so by a heartbeat whose token stands in its row and
\* whose agent names it, although claims, deletions and restarts fall between the
\* lookup by token and the update by id (agent.rs:56-80).  A claimed machine, whose
\* agent goes on naming the old id, is never online again once a sweep took it off.
Offline(i) == i \in Owned /\ ~machines[i].online

OnlyOwnAgentRevives ==
    [][\A i \in Uuid :
           (Offline(i) /\ i \in Owned' /\ ~Offline(i)')
               => /\ machines[i].token = i
                  /\ \E c \in Computer : conf[c] = i /\ beat[c] = "touchMachine"]_vars

\* A machine shown online goes offline, leaves its table, or has a heartbeat
\* under way: an agent that died is not shown online for ever, in either table
\* (agent.rs:108-114, adhoc.rs:303-310).
Shown(i) == (i \in Owned /\ machines[i].online) \/ (i \in Guests /\ adhoc[i].online)

GoesOffline(i) ==
    Shown(i) ~> (~Shown(i) \/ \E c \in Computer : conf[c] = i /\ beat[c] # "none")

\* A row that nobody claims is purged in the end, even one that no agent ever
\* learned of because the reply was lost (adhoc.rs:312-315).
UnclaimedGoes(i) ==
    (i \in Guests /\ ~adhoc[i].claimed) ~> (i \notin Guests \/ adhoc[i].claimed)

\* What the relay asks of an agent's Hello: the row its token is in has the id
\* the agent names (relay auth.rs:28-46).
AgentAdmitted(id) == id \in OwnedBy(id) \cup GuestOf(id)

\* "The machine keeps the same machine_id and agent_token so the already-running
\* agent doesn't need to re-enroll" (adhoc.rs:198-200): while its token is in the
\* database, a running agent is admitted.
ClaimKeepsAgent ==
    \A c \in Computer :
        (process[c] = "running" /\ OwnedBy(conf[c]) \cup GuestOf(conf[c]) # {})
            => AgentAdmitted(conf[c])

=============================================================================
