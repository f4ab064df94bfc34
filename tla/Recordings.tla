----------------------------- MODULE Recordings -----------------------------
(***************************************************************************)
(* Sessions of one machine and their recordings: create_session            *)
(* (api/routes/sessions.rs), agent_end_session, agent_upload_recording and *)
(* delete_recording (recordings.rs), delete_machine, and the sweep of      *)
(* sessions in api/main.rs.  A handler takes one step per await, between   *)
(* which others run; it may stop at each, when its statement fails or its  *)
(* client has left.                                                        *)
(*                                                                         *)
(* A row of recordings is named by the upload that inserted it, and so are *)
(* the bytes under the key <tenant>/<session>.mp4 of the object store.     *)
(*                                                                         *)
(* Abstracted: users and their permissions, the size and length of a       *)
(* recording, audit events.                                                *)
(***************************************************************************)
EXTENDS Naturals

CONSTANTS
    Session,    \* ids of sessions; each is created at most once
    Upload,     \* requests to upload a recording
    Deletion,   \* requests to delete one
    None

ASSUME NoneAssumption == None \notin Upload /\ None \notin Session

VARIABLES
    machine,    \* the row of machines and its is_online
    session,    \* the rows of sessions, and how far their creation has come
    late,       \* started_at is more than 5 minutes ago
    row,        \* recordings, unique by session: who inserted the row
    object,     \* the object store: whose bytes are under the session's key
    upload,     \* the statement each upload runs next, or how it ended
    of,         \* the session it is for
    deletion,   \* the statement each deletion runs next
    target      \* the row it was asked to delete

sessionVars == <<machine, session, late>>
storeVars == <<row, object>>
uploadVars == <<upload, of>>
deletionVars == <<deletion, target>>
vars == <<sessionVars, storeVars, uploadVars, deletionVars>>

----------------------------------------------------------------------------

Running == {"session", "existing", "insert", "put", "rollback"}

Init ==
    /\ machine = "online"
    /\ session = [s \in Session |-> "none"]
    /\ late = [s \in Session |-> FALSE]
    /\ row = [s \in Session |-> None]
    /\ object = [s \in Session |-> None]
    /\ upload = [u \in Upload |-> "new"]
    /\ of = [u \in Upload |-> None]
    /\ deletion = [d \in Deletion |-> "new"]
    /\ target = [d \in Deletion |-> None]

\* The sessions there are rows of.
Sessions == {s \in Session : session[s] \in {"active", "ended"}}

----------------------------------------------------------------------------
(* The machine and its sessions.                                           *)

\* Heartbeats and sweep_stale.
GoOnlineOrOffline ==
    /\ machine # "deleted"
    /\ machine' = IF machine = "online" THEN "offline" ELSE "online"
    /\ UNCHANGED <<session, late, storeVars, uploadVars, deletionVars>>

\* delete_machine: its sessions and recordings go by cascade, the objects stay.
DeleteMachine ==
    /\ machine # "deleted"
    /\ machine' = "deleted"
    /\ session' = [s \in Session |-> IF s \in Sessions THEN "gone" ELSE session[s]]
    /\ row' = [s \in Session |-> None]
    /\ UNCHANGED <<late, object, uploadVars, deletionVars>>

\* create_session reads the machine and its access list ...
CheckMachine(s) ==
    /\ session[s] = "none"
    /\ machine = "online"
    /\ session' = [session EXCEPT ![s] = "checked"]
    /\ UNCHANGED <<machine, late, storeVars, uploadVars, deletionVars>>

\* ... and inserts the row, unless the machine is no longer there to refer to.
InsertSession(s) ==
    /\ session[s] = "checked"
    /\ session' = [session EXCEPT ![s] = IF machine = "deleted" THEN "gone" ELSE "active"]
    /\ UNCHANGED <<machine, late, storeVars, uploadVars, deletionVars>>

FiveMinutesPass(s) ==
    /\ s \in Sessions
    /\ ~late[s]
    /\ late' = [late EXCEPT ![s] = TRUE]
    /\ UNCHANGED <<machine, session, storeVars, uploadVars, deletionVars>>

\* agent_end_session; the token is that of a row of machines.
EndSession(s) ==
    /\ machine # "deleted"
    /\ session[s] = "active"
    /\ session' = [session EXCEPT ![s] = "ended"]
    /\ UNCHANGED <<machine, late, storeVars, uploadVars, deletionVars>>

\* Variant for mutation: the condition on the machine is put in the wrong way round.
OfActiveMachine == {s \in Session : session[s] = "active" /\ late[s] /\ machine = "online"}

\* ended_at IS NULL AND started_at < now() - interval '5 minutes': whatever the
\* machine is, and whenever the session was last heard of.
Abandoned == {s \in Session : session[s] = "active" /\ late[s]}

SweepSessions ==
    /\ Abandoned # {}
    /\ session' = [s \in Session |-> IF s \in Abandoned THEN "ended" ELSE session[s]]
    /\ UNCHANGED <<machine, late, storeVars, uploadVars, deletionVars>>

----------------------------------------------------------------------------
(* agent_upload_recording.                                                 *)

\* The agent's token is good.  The session is what the viewer's ready named.
StartUpload(u, s) ==
    /\ upload[u] = "new"
    /\ machine # "deleted"
    /\ upload' = [upload EXCEPT ![u] = "session"]
    /\ of' = [of EXCEPT ![u] = s]
    /\ UNCHANGED <<sessionVars, storeVars, deletionVars>>

\* SELECT EXISTS ... FROM sessions, ended or not.
CheckSession(u) ==
    /\ upload[u] = "session"
    /\ upload' = [upload EXCEPT ![u] = IF of[u] \in Sessions THEN "existing" ELSE "refused"]
    /\ UNCHANGED <<sessionVars, storeVars, of, deletionVars>>

\* SELECT id FROM recordings WHERE session_id = $1
CheckExisting(u) ==
    /\ upload[u] = "existing"
    /\ upload' = [upload EXCEPT ![u] = IF row[of[u]] = None THEN "insert" ELSE "refused"]
    /\ UNCHANGED <<sessionVars, storeVars, of, deletionVars>>

\* Variant for mutation: INSERT ... ON CONFLICT (session_id) DO NOTHING.
ReserveAnyway(u) ==
    /\ upload[u] = "insert"
    /\ upload' = [upload EXCEPT ![u] = IF of[u] \in Sessions THEN "put" ELSE "refused"]
    /\ row' = [row EXCEPT ![of[u]] = IF @ = None /\ of[u] \in Sessions THEN u ELSE @]
    /\ UNCHANGED <<sessionVars, object, of, deletionVars>>

\* INSERT: session_id is unique, and refers to a session.
Reserve(u) ==
    /\ upload[u] = "insert"
    /\ \/ /\ row[of[u]] = None /\ of[u] \in Sessions
          /\ row' = [row EXCEPT ![of[u]] = u]
          /\ upload' = [upload EXCEPT ![u] = "put"]
       \/ /\ row[of[u]] # None \/ of[u] \notin Sessions
          /\ upload' = [upload EXCEPT ![u] = "refused"]
          /\ UNCHANGED row
    /\ UNCHANGED <<sessionVars, object, of, deletionVars>>

\* put_recording, whatever has become of the row.
Put(u) ==
    /\ upload[u] = "put"
    /\ object' = [object EXCEPT ![of[u]] = u]
    /\ upload' = [upload EXCEPT ![u] = "done"]
    /\ UNCHANGED <<sessionVars, row, of, deletionVars>>

\* It fails, before or after the store has the bytes.
PutFails(u) ==
    /\ upload[u] = "put"
    /\ \/ object' = [object EXCEPT ![of[u]] = u]
       \/ UNCHANGED object
    /\ upload' = [upload EXCEPT ![u] = "rollback"]
    /\ UNCHANGED <<sessionVars, row, of, deletionVars>>

\* Variant for mutation: the reservation is looked for by session.
RollBackSession(u) ==
    /\ upload[u] = "rollback"
    /\ row' = [row EXCEPT ![of[u]] = None]
    /\ upload' = [upload EXCEPT ![u] = "refused"]
    /\ UNCHANGED <<sessionVars, object, of, deletionVars>>

\* DELETE FROM recordings WHERE id = $1
RollBack(u) ==
    /\ upload[u] = "rollback"
    /\ row' = [row EXCEPT ![of[u]] = IF @ = u THEN None ELSE @]
    /\ upload' = [upload EXCEPT ![u] = "refused"]
    /\ UNCHANGED <<sessionVars, object, of, deletionVars>>

\* A statement fails, the roll-back's included, or the request is cancelled
\* with its connection; what it has sent to the store may be stored all the same.
StopUpload(u) ==
    /\ upload[u] \in Running
    /\ \/ upload[u] = "put" /\ object' = [object EXCEPT ![of[u]] = u]
       \/ UNCHANGED object
    /\ upload' = [upload EXCEPT ![u] = "stopped"]
    /\ UNCHANGED <<sessionVars, row, of, deletionVars>>

----------------------------------------------------------------------------
(* delete_recording.                                                       *)

\* Variant for mutation: a recording that is not found is deleted all the same.
FindAnyway(d, s) ==
    /\ deletion[d] = "new"
    /\ deletion' = [deletion EXCEPT ![d] = "object"]
    /\ target' = [target EXCEPT ![d] = row[s]]
    /\ UNCHANGED <<sessionVars, storeVars, uploadVars>>

\* SELECT object_key FROM recordings WHERE id = $1, the id being any row's.
FindRecording(d, s) ==
    /\ deletion[d] = "new"
    /\ row[s] # None
    /\ deletion' = [deletion EXCEPT ![d] = "object"]
    /\ target' = [target EXCEPT ![d] = row[s]]
    /\ UNCHANGED <<sessionVars, storeVars, uploadVars>>

\* The store's error, if any, is ignored.
DeleteObject(d) ==
    /\ deletion[d] = "object"
    /\ \/ object' = [object EXCEPT ![of[target[d]]] = None]
       \/ UNCHANGED object
    /\ deletion' = [deletion EXCEPT ![d] = "row"]
    /\ UNCHANGED <<sessionVars, row, uploadVars, target>>

DeleteRow(d) ==
    /\ deletion[d] = "row"
    /\ row' = [row EXCEPT ![of[target[d]]] = IF @ = target[d] THEN None ELSE @]
    /\ deletion' = [deletion EXCEPT ![d] = "done"]
    /\ UNCHANGED <<sessionVars, object, uploadVars, target>>

\* A statement fails or the request is cancelled.
StopDeletion(d) ==
    /\ deletion[d] \in {"object", "row"}
    /\ \/ deletion[d] = "object" /\ object' = [object EXCEPT ![of[target[d]]] = None]
       \/ UNCHANGED object
    /\ deletion' = [deletion EXCEPT ![d] = "stopped"]
    /\ UNCHANGED <<sessionVars, row, uploadVars, target>>

----------------------------------------------------------------------------

SessionNext(s) ==
    \/ CheckMachine(s) \/ InsertSession(s) \/ FiveMinutesPass(s) \/ EndSession(s)

UploadNext(u) ==
    \/ \E s \in Session : StartUpload(u, s)
    \/ CheckSession(u) \/ CheckExisting(u) \/ Reserve(u)
    \/ Put(u) \/ PutFails(u) \/ RollBack(u) \/ StopUpload(u)

DeletionNext(d) ==
    \/ \E s \in Session : FindRecording(d, s)
    \/ DeleteObject(d) \/ DeleteRow(d) \/ StopDeletion(d)

Next ==
    \/ GoOnlineOrOffline \/ DeleteMachine \/ SweepSessions
    \/ \E s \in Session : SessionNext(s)
    \/ \E u \in Upload : UploadNext(u)
    \/ \E d \in Deletion : DeletionNext(d)

Spec == Init /\ [][Next]_vars

\* Time passes, and the sweep, every 30 seconds, does not fail for ever.
Fairness ==
    /\ \A s \in Session : WF_vars(FiveMinutesPass(s))
    /\ WF_vars(SweepSessions)

FairSpec == Spec /\ Fairness

----------------------------------------------------------------------------
(* Properties.                                                             *)

\* Every variable has its type; a row is its session's, and a handler past its
\* first statement knows what it is about.
TypeOK ==
    /\ machine \in {"online", "offline", "deleted"}
    /\ session \in [Session -> {"none", "checked", "active", "ended", "gone"}]
    /\ late \in [Session -> BOOLEAN]
    /\ row \in [Session -> Upload \cup {None}]
    /\ object \in [Session -> Upload \cup {None}]
    /\ upload \in [Upload -> Running \cup {"new", "done", "refused", "stopped"}]
    /\ of \in [Upload -> Session \cup {None}]
    /\ deletion \in [Deletion -> {"new", "object", "row", "done", "stopped"}]
    /\ target \in [Deletion -> Upload \cup {None}]
    /\ \A u \in Upload : upload[u] # "new" => of[u] # None
    /\ \A s \in Session : row[s] # None => of[row[s]] = s /\ upload[row[s]] # "new"
    /\ \A d \in Deletion : deletion[d] # "new" =>
           target[d] # None /\ upload[target[d]] # "new"

\* u was uploaded and playback_recording finds its row and an object.
Playable(u) == upload[u] = "done" /\ row[of[u]] = u /\ object[of[u]] # None

\* Somebody's request to delete a recording of session s is under way.
BeingDeleted(s) ==
    \E d \in Deletion : deletion[d] \in {"object", "row"} /\ of[target[d]] = s

\* An upload that succeeded stays playable until somebody deletes a recording of
\* its session, or the machine: no other upload's refusal, failure, roll-back or
\* cancellation takes it away, in whatever order their statements come
\* (recordings.rs:110-146).
StaysPlayable ==
    [][\A u \in Upload :
           Playable(u) /\ ~Playable(u)' => BeingDeleted(of[u]) \/ machine' = "deleted"]_vars

\* A session nobody ends does not stay open when its machine never comes back:
\* what the sweep's comment, "no corresponding active machine", and its statement,
\* which asks nothing of the machine, agree on (main.rs:76-83).
SessionsEnd ==
    \A s \in Session : session[s] = "active" ~> session[s] # "active" \/ machine = "online"

\* Somebody has deleted a recording of session s.
WasDeleted(s) == \E d \in Deletion : deletion[d] = "done" /\ of[target[d]] = s

\* What the reservation does protect: the bytes of the row there is are replaced by
\* another upload's only when a recording of the session was deleted before; no
\* order of retries, roll-backs and cancelled uploads alone brings two of them to
\* the store (recordings.rs:110-146).
OverwriteNeedsDeletion ==
    [][\A u \in Upload :
           (Playable(u) /\ object[of[u]] = u /\ object'[of[u]] \notin {u, None})
               => WasDeleted(of[u])]_vars

\* "This fails fast if a recording already exists for this session, preventing
\* MinIO overwrite" (recordings.rs:110-111): bytes that are the recording of the
\* row there is are not replaced by those of another upload.
NoOverwrite ==
    [][\A u \in Upload :
           Playable(u) /\ object[of[u]] = u => object'[of[u]] \in {u, None}]_vars

=============================================================================
