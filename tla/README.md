# Callmor Remote Desktop: specifications

TLA+ models of the protocols of this repository, checked by TLC on small
instances, with theorems proved by TLAPS for every value of the constants.
Paths below are relative to the repository (`crates/...`, `web/...`).

- [The system](#the-system): its parts, their state, what is hard, what must hold
- [Modules](#modules): what models what
- [Runs](#runs): what TLC checks, with which bounds
- [Fairness](#fairness)
- [Divergences](#divergences): where a comment and the code disagree
- [Proofs](#proofs)
- [Not modelled](#not-modelled)
- [Plan](#plan)

## The system

A viewer in a browser watches and drives the screen of a computer on which an
agent runs. Both hold a WebSocket to a relay that carries their WebRTC
signalling; the media then flows between them directly. An API with a Postgres
database keeps machines, sessions, users and recordings, hands out the tokens
that the relay checks, and runs a sweep loop.

```
 viewer page --- signalling --- relay --- signalling --- agent
     |                            |                        |
     | login, session tokens      | SELECTs on tokens      | enroll, heartbeat,
     v                            v                        v session end, upload
    API ---------------------- Postgres ---------------- API --- object store
```

| part | state | operations | meets the others through |
|---|---|---|---|
| Signalling relay `crates/relay` | rooms by machine id as it was spelled: one agent, a set of browsers; a channel and two tasks per connection | Hello, relay, synthetic ready, cleanup | tokens the API made; texts of agents and viewers |
| Agent identity `agent-core/{config,enrollment}.rs`, `api/routes/{enrollment,adhoc}.rs` | `agent.conf`; tables `machines`, `adhoc_machines`, `enrollment_tokens` | enroll, register, save, connect by code, claim, rotate | the relay admits an agent by its row |
| Heartbeats and sweeps `agent-core/heartbeat.rs`, `api/routes/agent.rs`, `api/main.rs:67-90` | `last_seen`, `is_online` | heartbeat, five sweep statements | tables above, sessions, refresh tokens |
| Machines and access `api/routes/machines.rs` | `machines`, `machine_access`, RustDesk credentials | create, update, delete, access lists | delete cascades to sessions and recordings |
| Sessions and recordings `api/routes/{sessions,recordings}.rs`, `storage.rs` | `sessions`, `recordings`, the object store | create, end, upload, list, download, delete | the agent's calls when its session ends |
| Linux agent `crates/agent` | one GStreamer pipeline, a queue of signals, `current_session` | ready, answer, candidates, reconnect, upload | relay room |
| Windows and macOS agents `crates/agent-win`, `agent-mac` | one `RTCPeerConnection`, capture loop with a stop flag | ready, answer, candidates, reconnect | relay room |
| Viewer `web/src/pages/Viewer.tsx` | socket, `pcRef`, two timers | connect, ready, answer, disconnect | relay room |
| Login and tokens `api/routes/auth.rs`, `jwt.rs`, `web/src/lib/{api.ts,auth.tsx}` | `refresh_tokens`; access tokens of 15 minutes, session tokens of 2; `localStorage` and `refreshInflight` in the browser | register, login, refresh, logout | every API call |
| Accounts `api/routes/{users,invitations,admin}.rs` | `users`, `invitations`, `tenants` | invite, accept, change role, remove, superadmin | roles inside access tokens |
| Audit log, TURN credentials, settings and e-mail, installers and downloads, dashboard pages | rows, files, page state | see [Not modelled](#not-modelled) | |

### What is hard, and what must hold

**Relay.** One task per connection; the lock on the rooms is released between
registering, announcing, reading and cleaning up, and another task writes to the
socket. Replaced agents clean up after their successors have come; a room is
dropped when its last member leaves while another is entering; a write error
ends one of a connection's two tasks. What must hold: the map of rooms agrees
with the live connections; the newest agent of a room keeps its seat; no text
crosses from one machine to another; nothing is skipped or reordered
between two members; an agent and a browser in one room start their handshake
whoever came first, the ready that does it being on its way from the first moment.

**Agent identity, heartbeats, sweeps.** Registration takes effect before its
reply is saved; a heartbeat is three statements and no transaction, so claims,
deletions and purges fall between them; a claim moves a token from one table to
the other; sweep statements fail one by one. What must hold: a token stands in
one row; nobody opens a claimed or purged machine but who had found its row before,
and connecting by code reads the row and mints the token in two steps; only its own agent brings a machine back online; unclaimed rows and online
flags do not stay for ever.

**Agent session and viewer.** Offers are broadcast and carry nothing that tells
them apart; the viewer resends ready on timers and handles messages
concurrently; every ready replaces the agent's peer connection, whose capture loop
runs on until it sees its flag; errors leave `run` by `?`; each session ends in a
reconnect, and what was written on the lost connection may be read after that. What
must hold: the page ends up on the agent's newest peer connection; it goes back to
an older one for nothing but such a late offer; the two get connected and stay so;
what a session started is told to stop.

**Sessions and recordings.** Two stores without a common transaction, an upload
of several awaits that may be cancelled at each, a deletion and a cascade that
may race it. What must hold: an uploaded recording stays playable until it is
deleted, and is not replaced by another upload's before somebody has deleted one;
sessions end.

**Tokens.** Refresh tokens are single-use and deleted before their successor is
issued; the tabs of a browser share them, and the calls of a page share one
refresh through a promise that a timer takes back. What must hold: one token of a
login works at most, and a login that is over stays over; a page never presents a token twice; no call waits for a
refresh that nobody is doing; a page gives a login up only when the API refused
to continue it.

**Accounts.** Role changes are check-then-write without a lock, on claims that are
up to 15 minutes old; an invitation is spent before its account exists; deletions
cascade. What must hold: an invitation makes at most one account; the checks "not
your own role" and "not your own superadmin" keep the last owner and the last
superadmin as far as they can; a tenant is deleted whole, with who joins meanwhile,
or not at all; tokens catch up with the rows.

`PROJECT.json` lists each hazard at its line, with the property that covers it.

## Modules

### `Relay` — `crates/relay/src/{main,auth}.rs`, `shared/src/protocol.rs`

A connection `c` is one run of `handle_connection`; `phase[c]` is where its task
stands. The locals of the task are `hello` and `rx`/`queue` (its channel), the
shared map is `rooms`, `agent`, `browsers`. `heard`, `prompted` and `newest` are
history.

| code | action |
|---|---|
| `main.rs:92-154` first message, authentication fails | `Refuse` |
| `main.rs:143-183` authentication, registration under the lock | `Register`, with `Authentic` (auth.rs) and `WaitingFor` |
| `main.rs:185-197` synthetic ready after the lock | `Announce` |
| `main.rs:218-246` read loop | `RelayText`, `RepeatHello`, `Disconnect` |
| `main.rs:199-216` send task | `Deliver`, `SendFails` |
| `main.rs:262-291` cleanup under the lock, end of both tasks | `Cleanup`, `Finish` |

A critical section of the lock is one step; everything between two of them can be
interleaved. A `Hello` is any role, spelling of an id and token, so forged and
foreign tokens are among the inputs. The id is a string: `auth.rs:41-46` and
`66-71` parse it to compare it with the token (`IdOf`), the rooms are keyed by the
string as it came (`main.rs:169`). A machine whose clients spell its id in two ways
has two rooms, each with a seat; the programs of this repository all spell it the
way the API does, and no text promises one room.

### `Room` — what the relay promises its clients

The abstract specification: no tasks, lock, map or channels. Clients `Join` a room
of the machine their token names, one for each spelling of its id; what one `Say`s goes to the members of the other role
who are there, of the agents only to the latest; a member `Hear`s each sender's
texts in order and without a gap, or `Lose`s all that is to come; it `Leave`s and
is `Forget`ten. `Relay` ends with the refinement mapping (`R == INSTANCE Room
WITH ...`): a place is what the token of the accepted Hello proves and the room the
Hello names, a member is
present from its registration to its cleanup, its mail is the relayed texts in
its channel, the latest agent is `newest`. The synthetic ready, errors, refused
Hellos and the end of reading are stutters. That the audience of a text is the
*map's* members of the room is `RoomsConsistent`; that the seat is the latest
agent's is `NewestAgentSeated`; that a text handed over is the one after the last
heard is `NothingSkipped`. `Handshake` takes its relay from this module.

### `Enrollment` — identity, tables, heartbeats, sweeps

| code | action |
|---|---|
| `agent-core/config.rs`, `agent-win/portable.rs`, the agents' mains | `Start`, `Crash` |
| `agent-core/enrollment.rs:27-101` with `enrollment.rs:29-102`, `adhoc.rs:53-105` | `MakeRow` (both ends of the call; the reply may be lost), `Save` |
| `agent-core/heartbeat.rs`, `agent.rs:44-105` | `SendBeat`, `BeatMachines`, `BeatAdhoc`, `BeatTouch`, `LoseBeat`, one per statement |
| `adhoc.rs:123-153`, `155-180`, before and after the row has come | `FindByCode`, `Mint` or `ConnectFails` |
| `adhoc.rs:198-298` | `Claim` |
| `machines.rs:388-420` | `DeleteMachine` |
| `api/main.rs:67-90` with `agent.rs:107-114`, `adhoc.rs:301-316` | `SweepMachines`, `SweepAdhoc`, `Purge`, `SweepFails` |
| passing time | `LastSeenAges`, `RowExpires`, `JwtExpires` |

Ids, tokens and codes are drawn at random with a row, so a token is named by the
id of the row it was drawn for, in whatever row it stands now.

### `Handshake` — a viewer page and the agent's sessions

| code | action |
|---|---|
| reconnect loop, Hello (`agent/main.rs:116-192`, `agent-win/session.rs:29-50`) | `Join` |
| the relay's synthetic ready | `Nudge` |
| ready (`main.rs:231-259`, `session.rs:69-79`, `138-317`) | `HandleReady`, and `MakeOffer` for the GStreamer thread that negotiates later |
| writing the queued signals | `SendOffer` |
| the relay reading the agent's socket, or one the agent has lost | `RelayOffer`, `RelayStray`, `LoseStray` |
| the relay reading a page's socket | `RelayText` |
| a capture loop told to stop sees its flag (`session.rs:361-364`) | `CaptureEnds` |
| answer (`main.rs:260-281`, `session.rs:80-87`) | `SetAnswer`, `RefuseAnswer` |
| the socket closes: `break`, cleanup | `LoseSocket` |
| `?` inside the loop: no cleanup | `FailSession`, `RefuseAnswer` |
| `Viewer.tsx:412-448`, timers | `Open`, `SendReady` |
| `Viewer.tsx:374-392` before and after its awaits | `TakeOffer`, `SendAnswer` |
| `Viewer.tsx:201-245`, socket closed, unmount | `Close` |

`platform`, chosen in `Init`, says which agent it is: `"gstreamer"` or
`"webrtc-rs"` (Windows and macOS share the code). Peer connections are numbered;
an offer is the number of its maker. The room between the two is reduced to what
`Room` says of it: a queue in order for each, nothing for who is not there. What is
written to a socket (`wire`, `sending`) is handed on when the relay's task for that
connection reads it. What the agent had written on a connection it lost stays
readable in `stray`: that connection's task, though its agent was replaced, still
broadcasts, before, between or after the offers of the next connection, or finds the
connection reset. `late` remembers which offers came that way.

A capture loop is counted where it runs: for the current peer connection, in
`stopping` from the moment its flag is set until it sees it, or in `orphaned` when
the session was left without setting it. `abort()` does not interrupt the blocking
task it runs in, and the next ready does not wait, so loops overlap.

### `Recordings` — one machine's sessions and their recordings

| code | action |
|---|---|
| `sessions.rs:40-72`, `74-130` | `CheckMachine`, `InsertSession` |
| `recordings.rs:60-76`, `api/main.rs:76-83` | `EndSession`, `SweepSessions` (after `FiveMinutesPass`) |
| `recordings.rs:84-158` | `StartUpload`, `CheckSession`, `CheckExisting`, `Reserve`, `Put` or `PutFails` and `RollBack`, one per await |
| `recordings.rs:272-302` | `FindRecording`, `DeleteObject`, `DeleteRow` |
| an await that fails or is cancelled | `StopUpload`, `StopDeletion` |
| `machines.rs:388-420`, heartbeats | `DeleteMachine` with its cascade, `GoOnlineOrOffline` |

The unique constraint on `session_id` and the foreign keys of the migrations are
in `Reserve` and `InsertSession`. A row, and the bytes under the session's key in
the object store, are named by the upload they come from, so the model tells
whose bytes a row's playback would show.

### `Tokens` — refresh tokens and the pages that share them

| code | action |
|---|---|
| `auth.rs:182-282` login, `Login.tsx:15-28` | `SendPassword`, `SignedIn`; a wrong password is `Unauthorized` |
| `auth.rs:288-297`, `DELETE ... RETURNING` | `TakeRow` |
| `auth.rs:299-329`, `77-102` | `IssueNext` |
| a statement fails, the API stops, the answer is lost | `RefreshFails` |
| `api.ts:20-26`, `auth_extractor.rs` | `SendCall`, `CallAnswered` |
| `api.ts:54-75` an answer 401 | `GiveUp`, `JoinRefresh`, `StartRefresh`, `NothingToPresent`, `JoinRejected` |
| `api.ts:37-47` and the waiting calls | `RefreshReturns`, `RefreshRejected`, `Timer` |
| `auth.tsx:14-35`, loading a page | `Reload`, `Logout`, `Load` |
| 15 minutes, 7 days and the sweep of `api/main.rs:84-87` | `AccessExpires`, `RowExpires` |

Pairs of tokens are numbered as they are issued. A page is a tab that shows the
login form or the application; each has its own `refreshInflight`, all share
`localStorage`. Every axios call goes through the interceptors, the login form's
too: a wrong password is a 401 that tries to refresh.

### `Logins` — what the API promises of a login

The abstract specification: no rows, requests, tabs or `localStorage`. A login
`Begin`s with a token; the token is `Present`ed and is good for nothing else from
then on; its one successor is issued (`Renew`); or the login comes to its `End`,
because its token expired or the exchange failed, and never comes back. `Tokens`
ends with the refinement mapping (`L == INSTANCE Logins WITH ...`): a login is
named by its first pair, its valid token is the one in `rows`, the one that is
being renewed is that of a request past its `DELETE` (`Exchanged`). `SignedIn` maps
to `Begin`, a `TakeRow` that finds the row to `Present`, `IssueNext` to `Renew`,
`RowExpires` and the `RefreshFails` of an exchange to `End`; what the pages do, a
refresh whose page is gone and an answer that is lost are stutters.

### `Accounts` — tenants, users, invitations, superadmins

| code | action |
|---|---|
| `auth.rs:104-150` register, two statements | `RegisterTenant`, `CreateOwner`, `RegisterFails` |
| `auth.rs:211-252`, `299-313` login and refresh read the user, then issue | `ReadUser`, `IssueTokens`, `IssueFails` |
| `invitations.rs:51-131`, `150-169` | `CreateInvitation`, `DeleteInvitation`, `InvitationExpires` |
| `invitations.rs:221-302` accept, two statements | `AcceptInvitation`, `CreateAccount`, `AcceptFails` |
| `users.rs:44-126` | `UpdateUser`, `DeleteUser` |
| `admin.rs:63-181`, `scripts/grant-superadmin.sh` | `RemoveInvitations`, `RemoveUsers`, `CommitRemoval`, `RollBack`, `SetSuperadmin`, `GrantScript` |
| 15 minutes | `TokenExpires` |

A handler is called with any claims of `tokens`: what the row of the caller says
by then is not looked at, as in the code. Constraints of the migrations (a user's
address is unique in its tenant, one pending invitation for an address, foreign
keys) are guards of the statements they constrain. Deleting a tenant is one
transaction at READ COMMITTED: `RemoveInvitations` and `RemoveUsers` take the rows
that are there when they run, which everybody still reads, and whoever would change
or refer to one waits (`Free`, `FreeInvitation`); the delete of the tenant, which
cascades to who has joined since, and the commit are `CommitRemoval`. An invitation
made between the first two statements fails the second on `invited_by`, and the
deletion is rolled back (`RollBack`, which any other failure is, too).

## Runs

`MCRelay`, `MCEnrollment`, `MCHandshake`, `MCTokens` and `MCAccounts` give the constants
of their module finite sets and the symmetry; `Recordings` needs none. State counts
are distinct states.

| run | bounds | states | what it shows |
|---|---|---|---|
| `relay_rooms` | 3 connections, 2 machines, 2 spellings of each id, 2 relayed texts, symmetry | 836,157 | `RoomsConsistent`, `NewestAgentSeated`, `Isolation`, `NothingSkipped`, `ReadyOnItsWay`, and `RoomSpec`: `Relay` implements `Room` |
| `relay_live` | 3 connections, 1 machine, 1 spelling, 1 text, fair | 459,420 | `HandshakeOfPairStarts` |
| `enrollment` | an enrolled and a public computer, 3 ids, symmetry | 1,458,336 | `OneRowPerToken`, `ClaimClosesDoor`, `OnlyOwnAgentRevives` |
| `enrollment_live` | the same, 2 ids, fair | 161,040 | `DeadAgentsGoOffline`, `UnclaimedRowsGo` |
| `handshake` | 1 page, both kinds of agent, 2 readies, 1 lost session, 1 loop still stopping, fair | 581,144 | `SettledTogether`, `NoOlderOffer`, `ViewerCatchesUp`, `ViewerStaysConnected` |
| `recordings` | 1 session, 3 uploads, 2 deletions, fair | 787,692 | `StaysPlayable`, `OverwriteNeedsDeletion`, `SessionsEnd` |
| `tokens` | 2 tabs, 2 calls at once, 2 pairs of tokens, 1 orphaned refresh, symmetry | 1,107,946 | `OneLivePerLogin`, `WaitersServed`, `SharedRefresh`, and `LoginSpec`: `Tokens` implements `Logins` |
| `accounts` | 1 tenant, 3 users, 2 addresses, 1 invitation, 2 tokens, 1 handler between two statements beside 1 deletion, fair | 768,497 | `OneAccountPerInvitation`, `LastOwnerKept`, `LastSuperadminKept`, `OnesClaimsCatchUp` |
| `enrollment_claim`, `handshake_capture`, `recordings_overwrite`, `tokens_stuck` | smaller | | violated, see [Divergences](#divergences) |

The passing runs but `relay_live` and `enrollment_live` also check their module's
`TypeOK`.

**Why the bounds are enough.** *Relay*: the hazards are between an agent, the
agent that replaces it and a browser, or an agent and two browsers: three
connections; a second machine is needed for isolation, a second spelling for a
machine with two rooms; each connection lives
once, and reconnecting is another connection. Two texts show an order between
two of one sender. *Enrollment*: three ids let a lost registration, its retry
and a claim all happen to one computer while the other has a row; tokens,
claims and sweeps involve one or two rows. *Handshake*: two readies (the
timeout's and one of the interval) with a synthetic one per session; one lost
session gives the interleavings with a reconnect and leaves a connection whose
offers come late; sessions that an answer ends are not counted. `MaxOffers` only
makes the numbers finite: `made` reaches 7 and the bound is 8, so the guard never
stops the agent. `MaxStopping` holds a ready back while a loop told to stop still
runs beside the current one: at most two loops of a session overlap. *Recordings*: sessions share nothing but the machine; a third upload can
come after two have raced a deletion, a second deletion races the first; with two
sessions and two uploads the same properties hold (1,204,680 states). *Tokens*:
two pairs are a login and what a refresh makes of it, or two logins; two tabs race
for one token; two calls of one page share a refresh, or the second is answered
after the first's refresh has ended; one refresh outlives the page that asked.
*Accounts*: two owners, or two superadmins, and a third; one tenant, since no
handler but `GrantScript` and the superadmins' relates rows of two; an invitation
accepted, its account removed and the link opened again. While one handler is
between its statements every other statement may run, a deletion of the tenant may
be half done besides, but no second handler stops half way: with two the run is too
long, and for any number the theorems hold. One deletion runs at a time: of one
tenant a second would wait for the first's rows.

Symmetry is sound in `relay_rooms`, `enrollment` and `tokens`, whose definitions
do not order connections, machines, ids, tabs or calls. Runs with liveness properties use none.

`CHECK_DEADLOCK FALSE` is given where the system stops of itself: all connections
closed, all pages closed and no fault left, the machine deleted and no request
running.

**Four restrictions that matter.** `ViewerCatchesUp` and `SettledTogether` excuse a
page of a GStreamer agent whose last offer came late, from a connection the agent had
lost: the page takes it for the newest, its interval is cleared, and its answer is
refused or set on the wrong pipeline in silence. With a webrtc-rs agent that answer
ends the session and the reconnect repairs it, so there nothing is excused.
`ViewerStaysConnected` is stated for webrtc-rs
agents: with GStreamer TLC finds a behaviour in which an old answer is set on the
new pipeline, the right answer is refused without anyone looking
(`agent/main.rs:275-278`), and the page, its interval cleared, never asks again.
With two pages on one webrtc-rs agent every offer is answered twice, the second
answer ends the session, and the reconnect starts the same again without end, so
`handshake` has one page. `StaysPlayable` excuses a loss by *any* deletion under
way for the session: `DeleteObject` goes by the session's key, so a deletion of an
older recording may take the newer one's bytes when a second deletion has removed
the row in between. All are hazards in `PROJECT.json`; no text of the
repository promises otherwise.

## Fairness

- *Relay*: tokio runs every task that can run, so announcing, delivering,
  cleaning up and finishing are weakly fair. Clients owe nothing, with one
  exception: after a failed write the same socket's reads fail too.
- *Enrollment*: time passes; the API answers or drops a heartbeat it has begun;
  the sweep loop runs every 30 seconds and each of its statements, though it may
  fail any number of times, does not fail for ever (strong fairness, since
  `SweepFails` may disable it in between). Agents need not send heartbeats and
  people need not do anything.
- *Handshake*: the agent reconnects for ever (`main.rs:116-124`), the tasks of
  the agent, the relay (also those of connections the agent has lost) and the page
  run, a capture loop sees its flag, timers fire, a browser finishes the
  answers it began. A page need not open or close, and faults need not happen;
  there are finitely many.
- *Recordings*: time passes and the sweep's statement on sessions does not fail
  for ever. No handler need go on: agents and people owe nothing.
- *Accounts*: a handler that has read a user issues tokens or fails, and access
  tokens expire; a deletion that has begun commits or is rolled back. Nobody need do
  anything, and somebody may change users for ever, which `OnesClaimsCatchUp` excuses.
- *Tokens* states no fairness: that no call hangs is the invariant `WaitersServed`,
  since a request that is under way is answered or fails.

## Divergences

- `enrollment_claim`: the doc of `claim` says the machine keeps its id and the
  agent need not re-enroll (`adhoc.rs:198-200`); the row gets a new id, and the
  running agent, naming the old one, is refused by `heartbeat` and by the relay.
- `handshake_capture`: a stop flag is there so that the capture loop stops "when
  the session ends" (`agent-win/src/session.rs:301-302`, `agent-mac` the same);
  an answer that does not fit leaves `run` before the flag is set and the loop
  runs on, beside that of the next session.
- `recordings_overwrite`: the reservation is there to prevent an overwrite in the
  object store (`recordings.rs:110-111`); it protects nothing once it was deleted,
  and the put it was made for still comes.
- `tokens_stuck`: a `finally` block is to let the next cycle start a refresh of its
  own (`api.ts:45`), but the `throw` for a missing refresh token comes before the
  `try` (`api.ts:36`). A mistyped password on the login page is a 401 without a
  refresh token: from then on `refreshInflight` is a rejected promise. The person
  signs in, without loading the page anew; fifteen minutes later the first 401
  joins that promise and the login is thrown away though the API would renew it.

Seen while modelling, in the models but without a run of their own:

- Two comments promise a ready *for each* waiting browser
  (`relay/src/main.rs:162`, `185`); one is queued for all of them (`Announce`).
  Harmless, since offers are broadcast.
- The schema says what is *idle* for 24 hours is purged
  (`migrations/20260422103841_adhoc_machines.sql:22`); `expires_at` is never moved,
  so machines in use are purged too (`Purge` does not look at `fresh`).
- A claimed ad-hoc row is "kept for audit, swept later" (`adhoc.rs:269`); the file's
  head says the machine "drops out of the adhoc table" (`adhoc.rs:8-10`) and the
  migration "delete the adhoc row" (`20260422103841_adhoc_machines.sql:4-5`). The
  purge asks for `claimed_at IS NULL` (`adhoc.rs:313`) and nothing else deletes from
  the table: claimed rows stay for ever (`Purgeable`).
- The sweep is to end sessions with "no updates in 5 minutes and no corresponding
  active machine" (`api/main.rs:76-77`); the statement compares `started_at`, which
  nothing updates, and asks nothing of the machine: it ends a session that is being
  watched (`Abandoned`). `SessionsEnd` claims only what comment and statement agree
  on, the sessions of machines that are not online.
- "Stop any existing capture loop before starting a new one"
  (`agent-win/src/session.rs:71`): the flag is set and `abort()` called, which does
  not interrupt a blocking task (line 302 says so), and the new loop starts without
  waiting. Two loops take frames until the older one sees its flag (`HandleReady`,
  `CaptureEnds`); only the end of a session waits, 200 ms at most.
- The agent is to report each session it ends (`recordings.rs:59`); a second ready
  overwrites the one the Linux agent would report (`agent/src/main.rs:254`).
- "DELETE FROM tenants works cleanly instead of failing with FK violation"
  (`migrations/20260422041546_schema_review_fixes.sql:7`); `delete_tenant` does not
  rely on the cascade, and an invitation made between its statements still fails it
  (`RemoveUsers`).
- Foreign keys were to be `SET NULL` for users "to preserve audit"
  (`migrations/20260422041546_schema_review_fixes.sql:20`); `sessions.user_id` is
  not, so a user who has had a session cannot be removed.
- An expired invitation is not listed (`invitations.rs:140`), yet blocks a new one
  for its address until somebody deletes it by its id (`CreateInvitation`).

## Proofs

For any set of connections, machines, computers, ids, pages, sessions, uploads,
deletions, tabs, calls and addresses, and any bounds:

| module | theorem | property |
|---|---|---|
| `RelayProofs` | `TypeCorrect`, `RoomsAlwaysConsistent`, `SeatBelongsToNewest`, `RoomsIsolated` | `TypeOK`, `RoomsConsistent`, `NewestAgentSeated`, `Isolation` |
| `RoomProofs` | `TextsInOrder`, `NudgeNeverMissed`, `RelayImplementsRoom` | `NothingSkipped`, `ReadyOnItsWay`, `RoomSpec` |
| `EnrollmentProofs` | `TypeCorrect`, `TokensUnambiguous`, `DoorStaysClosed`, `RevivedByOwnAgent` | `TypeOK`, `OneRowPerToken`, `ClaimClosesDoor`, `OnlyOwnAgentRevives` |
| `HandshakeProofs` | `TypeCorrect`, `OffersInOrder`, `SettlesTogether` | `TypeOK`, `NoOlderOffer`, `SettledTogether` |
| `RecordingsProofs` | `TypeCorrect`, `UploadsStayPlayable`, `OverwritesNeedDeletion` | `TypeOK`, `StaysPlayable`, `OverwriteNeedsDeletion` |
| `TokensProofs` | `TypeCorrect`, `RotatesEveryLogin`, `NobodyHangs`, `RefreshesOnce` | `TypeOK`, `OneLivePerLogin`, `WaitersServed`, `SharedRefresh` |
| `LoginsProofs` | `TokensImplementLogins` | `LoginSpec` |
| `AccountsProofs` | `TypeCorrect`, `InvitationsUsedOnce`, `LastOwnersStay`, `LastSuperadminsStay` | `TypeOK`, `OneAccountPerInvitation`, `LastOwnerKept`, `LastSuperadminKept` |

**Assumptions.** `None` is not among the connections, ids, records or places it is
used beside, `SignIn` not among the calls, `NoEmail` not among the addresses; the
bounds are natural numbers; the public computers are computers. TLC evaluates them
in every run.

**Relay.** `RoomInv == RoomsConsistent /\ NewestAgentSeated /\ NewestKnown` is
inductive with `TypeOK`. `NewestAgentSeated` alone is not: `NewestKnown`, that a
room's newest agent is a connection that registered as an agent in that room,
tells that the cleanup of one room's connection is not the newest agent of
another. `RoomsConsistent` needs the exact membership before a step to
know that a cleanup that finds no room has nothing to remove. Most actions leave
the rooms and the phases of registered connections alone (`QuietStep`);
`Register` and `Cleanup` have lemmas of their own. Isolation adds that every accepted Hello was authentic, and that the targets
of a text are members of its sender's room in the opposite role (`TargetsInRoom`).

**Room.** `OrderInv` relates every sender to every receiver. `NothingSkipped` alone is
not inductive: a text relayed later says nothing of those before it. The
strengthening `Reached` says that the last text a sender relayed has been handed to,
or is still in the channel of, whoever its next one goes to; so the next text follows
without a gap. Beside it stand that nobody has heard a text that was not relayed,
that who has no channel has nothing in it, and that before its Hello a connection has
relayed nothing. The refinement takes `TypeOK`, `RoomInv`, the invariant of isolation
and `OrderInv`: `Register` maps to `Join`, `RelayText` to `Say` (`TargetsAreAudience`:
the map's members are the audience), `Deliver` to `Hear` or to a stutter, `SendFails`
to `Lose`, `Finish` to `Forget`, `Cleanup` to `Leave`, every other step to a stutter.

*The nudge.* `NudgeInv` is `ReadyOnItsWay` with `Unread`: a task that has its ready
still to announce has read nothing yet. Two steps bring an agent and a browser that
has spoken together. When the agent registers, the browser that spoke is in the map,
so `WaitingFor` counts it and the agent's task announces; when the browser speaks,
the agent is among the targets and the text goes into its channel. A browser that
registers has not spoken (`OrderInv`), and one that is about to announce has not
either, which needs `Unread`. What the channel loses otherwise is what was written
to the socket, hence in `prompted`, or all of it, after a write error: then the
two no longer meet. This is the safety half of `HandshakeOfPairStarts`, for any
number of connections.

**Enrollment.** `Provenance` says where rows come from: rows have drawn ids; a
guest row holds its own token and code until it is claimed and then neither; a
machine's token is its own id's, which is then no guest row, or that of a claimed
guest row; no two machines share one. `TypeOK` is not inductive without the
second part, since a claim copies the token of a guest row into a column that
must not be empty. `OneRowPerToken` follows from it; `ClaimClosesDoor` is shown step
by step: a closed row has no code to be found by, so it comes into nobody's
`connecting` again; only what is there gets a session token; and a drawn id is never
inserted again.
`OnlyOwnAgentRevives` needs `Named`: the id an agent has saved or is told was drawn
for a row of its own, and a machine of that id, if there is one, still holds its
first token. So the statement that updates by the id the agent named, after a lookup
by token that may be out of date, cannot touch a machine that a claim made.

**Handshake.** `TypeOK` says as well that an agent that is away and a page that
is not open hold nothing, which makes it inductive. `AheadInv` puts the offers of the
current connection in one line: what the relay has still to read of them is older
than what the agent has still to write, and this older than what a pipeline has
still to make. `PassedInv` says of what a page has taken, and of what is arriving at
it in order, that it is older than all of these, leaving out the offers in `late`,
which may come at any place. Together (`PageInv`) they give `NoOlderOffer`, since
taking an offer from the front of the queue is the only step that moves `latest`
while the page is open. `SettlingInv`, with these, gives `SettledTogether`: for a page
that is open while the agent is up, either the page is still to send a ready (its
timer runs, or one is still to be read by the relay or the agent), or the current
offer is still to be written, read or taken, or was taken (`Served`); and at a
webrtc-rs agent an offer that was taken is being answered, its answer is on its way,
or was set (`Held`, `Answered`), so that after a late offer's answer nothing is
settled before the session it ends has been replaced. That the outbox and the wire
hold the current offer whenever they hold any is the part that makes it inductive:
old offers alone would end the page's interval for nothing. Together with the
fairness of the steps that empty the queues this is what `ViewerCatchesUp` rests on;
with more than one page it holds as well, though two pages of a webrtc-rs agent may
never settle.

**Recordings.** `TypeOK` ties a row to the session of the upload that inserted it
and a deletion to an upload that has begun. From it, an upload that is done stays
done (`DoneForGood`); its row is left alone by every handler but a deletion and
the cascade, the roll-back of another upload included (`RowKept`); its object is
replaced but never removed by uploads (`ObjectKept`). `UploadsStayPlayable`
combines the three. `OverwritesNeedDeletion` rests on `Reserved`, that an upload
about to put its bytes holds the session's row unless a recording of the session was
deleted meanwhile or the machine was, and on `Cascaded`, that a deleted machine has
no session and no row left, so that nothing of it is playable.

**Tokens.** `Rotation`: the tokens in the table and those a handler has taken out but
not yet replaced belong to different logins, which gives `OneLivePerLogin`.
`Awaited`: the promise of a page is pending exactly while one request of that page
is under way, and only then do calls wait, which gives `WaitersServed`; without the
"exactly one" a second answer could end the promise of the first. `Unused`: a pair
that is being brought back has been neither stored nor presented, nor has the one in
`localStorage` by a page whose promise is not pending, which gives `SharedRefresh`.

**Logins.** `TokensImplementLogins` takes `TypeOK`, `Rotation` and `Awaited`, each proved
before, and has a lemma for each step of `Tokens` that `Logins` sees (`TakeRowPresents`,
`IssueNextRenews`, `RefreshFailsEnds`, `RowExpiresEnds`, `SignedInBegins`). `Rotation` says
that the valid token of a login is one at most and that none is beside one being
exchanged, so `Present` and `Renew` replace sets of exactly one. `Awaited` is needed for the
catch block: where it forgets the requests of its page (`Bounce`), the page's promise is
not pending or the one request it waited for was answered, so no exchange is lost
from sight. Loading a page anew keeps its exchanges going for nobody
(`ExchangedByLoad`).

**Accounts.** `Spending`: an invitation that can still make an account has made none;
"can still" covers the handler that has marked it used and not yet inserted the user.
The two theorems on the last owner and the last superadmin need no invariant but
`TypeOK`: `UserSteps` says which actions can change the row of a user who stays, and
of those each is looked at. Neither says that an owner always remains, which is false
for two owners who demote each other. That a user's tenant is there
(`TypeOK`) needs the cascade of `CommitRemoval`: users who joined after `RemoveUsers`
are not among those it took.

**Model-checked only.** Liveness (`HandshakeOfPairStarts`, `DeadAgentsGoOffline`,
`UnclaimedRowsGo`, `ViewerCatchesUp`, `ViewerStaysConnected`, `SessionsEnd`,
`OnesClaimsCatchUp`): properties under fairness are outside what TLAPS proves. The
properties the code violates (`ClaimKeepsAgent`, `CaptureStopsWithSession`,
`NoOverwrite`, `ServerAskedFirst`) are refuted by TLC.

## Not modelled

- *ICE candidates.* Queued and dropped like the rest; no state of the handshake
  depends on them. The second offer `webrtcbin` may make for the data channel.
- *Portable Windows mode with an enrollment token*, which registers ad hoc; PINs
  of ad-hoc machines: a wrong one is refused and changes nothing.
- *Tenants* in `Enrollment`: no step of it depends on which tenant a row has.
- *Limits*: the relay's channels are unbounded in the code.
- *Audit log*: append-only inserts whose errors are ignored; nothing reads them
  but a list. *TURN credentials*: one HMAC, no state. *Settings, e-mail,
  installers, downloads, dashboard pages*: reading, formatting and streaming.
- *Playback and lists of recordings, the tenant's recording switch*: reads and one
  flag; the Linux agent's writing of the file.
- *Screen capture, encoding, input injection*: I/O.
- *A tenant's enrollment token and its rotation, access lists of machines, machines
  made by hand, RustDesk credentials*: single statements, of which a property could
  only repeat the statement. An agent with a rotated token is refused and asks again
  when it is next started.
- *`POST /auth/logout`*, which the web client never calls: `Logout` of `Tokens` is
  what the page does, it empties `localStorage`.
- In `Accounts`: removals the foreign keys of `sessions.user_id` and
  `app_settings.updated_by` refuse; revocation by `grant-superadmin.sh`; two
  registrations that race for one slug, of which the constraint lets one through; the
  link of an invitation that is lost when the `SELECT` after the `INSERT` fails; a
  role that is none, which the `CHECK` of `20260422041546_schema_review_fixes.sql:38-39`
  refuses; two tenants deleted at once.
- *Late effects of requests given up*: in `Recordings` a put or delete of the object
  store whose caller has stopped has by then taken effect or never does. In `Tokens`,
  `SignedIn` is the server's issue of tokens and the client's storing them in one.
- *The session a GStreamer agent records and reports* in `Handshake`; a capture loop
  that ends by an error of its own.
- *What a revocation does to open connections*: authentication takes place at the
  Hello alone, so nothing happens to them (a hazard in `PROJECT.json`).

## Plan

Done: `Relay` with `Room`, `Enrollment`, `Handshake`, `Recordings`, `Tokens`,
`Accounts`, each with its proofs; every invariant, action property and refinement
that the runs check is proved. Left, in this order:

1. `Rendezvous`: `Relay` and `Enrollment` composed through the tables the relay
   reads: what a claim, a purge or a deletion means for the connections that are open.
2. Access lists: `user_has_access` reads twice without a transaction
   (`machines.rs`), beside changes of the list and of the machine's mode.
3. The tenant's enrollment token in `Enrollment`, rotated while agents enroll.
4. Proofs: that in `Recordings` a row whose upload is done has an object unless the
   store failed a deletion half way.
