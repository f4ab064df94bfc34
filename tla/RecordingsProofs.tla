-------------------------- MODULE RecordingsProofs --------------------------
(* What holds of recordings for any sessions, uploads and deletions. *)
EXTENDS Recordings, TLAPS

\* Every variable keeps its type, a row is its session's, and a handler past its
\* first statement knows what it is about (recordings.rs:107-139, 272-281).
THEOREM TypeCorrect == Spec => []TypeOK
<1> USE NoneAssumption
<1>1. Init => TypeOK
  BY DEF Init, TypeOK
<1>2. TypeOK /\ [Next]_vars => TypeOK'
  <2> SUFFICES ASSUME TypeOK, [Next]_vars PROVE TypeOK'
    OBVIOUS
  <2> USE DEF TypeOK
  <2>1. CASE GoOnlineOrOffline \/ DeleteMachine \/ SweepSessions
    BY <2>1 DEF GoOnlineOrOffline, DeleteMachine, SweepSessions, sessionVars, storeVars,
       uploadVars, deletionVars
  <2>2. ASSUME NEW s \in Session, SessionNext(s) PROVE TypeOK'
    BY <2>2 DEF SessionNext, CheckMachine, InsertSession, FiveMinutesPass, EndSession,
       sessionVars, storeVars, uploadVars, deletionVars
  <2>3. ASSUME NEW u \in Upload, NEW s \in Session, StartUpload(u, s) PROVE TypeOK'
    BY <2>3 DEF StartUpload, Running, sessionVars, storeVars, deletionVars
  <2>4. ASSUME NEW u \in Upload, CheckSession(u) \/ CheckExisting(u) PROVE TypeOK'
    BY <2>4 DEF CheckSession, CheckExisting, Running, sessionVars, storeVars, deletionVars
  <2>5. ASSUME NEW u \in Upload, Reserve(u) PROVE TypeOK'
    BY <2>5 DEF Reserve, Running, sessionVars, deletionVars
  <2>6. ASSUME NEW u \in Upload, Put(u) \/ PutFails(u) \/ StopUpload(u) PROVE TypeOK'
    BY <2>6 DEF Put, PutFails, StopUpload, Running, sessionVars, deletionVars
  <2>7. ASSUME NEW u \in Upload, RollBack(u) PROVE TypeOK'
    BY <2>7 DEF RollBack, Running, sessionVars, deletionVars
  <2>8. ASSUME NEW d \in Deletion, NEW s \in Session, FindRecording(d, s) PROVE TypeOK'
    BY <2>8 DEF FindRecording, sessionVars, storeVars, uploadVars
  <2>9. ASSUME NEW d \in Deletion, DeleteObject(d) \/ StopDeletion(d) PROVE TypeOK'
    BY <2>9 DEF DeleteObject, StopDeletion, sessionVars, uploadVars
  <2>10. ASSUME NEW d \in Deletion, DeleteRow(d) PROVE TypeOK'
    BY <2>10 DEF DeleteRow, sessionVars, uploadVars
  <2>11. CASE UNCHANGED vars
    BY <2>11 DEF vars, sessionVars, storeVars, uploadVars, deletionVars
  <2> QED
    BY <2>1, <2>2, <2>3, <2>4, <2>5, <2>6, <2>7, <2>8, <2>9, <2>10, <2>11
       DEF Next, UploadNext, DeletionNext
<1> QED BY <1>1, <1>2, PTL DEF Spec

\* An upload that is done never runs again, and its session stays the same.
LEMMA DoneForGood ==
    ASSUME TypeOK, [Next]_vars, NEW u \in Upload, upload[u] = "done"
    PROVE  upload'[u] = "done" /\ of'[u] = of[u]
BY DEF TypeOK, Running, vars, uploadVars, Next, UploadNext, DeletionNext, SessionNext,
   GoOnlineOrOffline, DeleteMachine, SweepSessions, CheckMachine, InsertSession,
   FiveMinutesPass, EndSession, StartUpload, CheckSession, CheckExisting, Reserve, Put,
   PutFails, RollBack, StopUpload, FindRecording, DeleteObject, DeleteRow, StopDeletion

\* What a step may do to the row of an upload that is done: only the cascade and a
\* deletion of its session's recording remove it.
LEMMA RowKept ==
    ASSUME TypeOK, [Next]_vars, NEW u \in Upload, upload[u] = "done", row[of[u]] = u
    PROVE  row'[of[u]] = u \/ BeingDeleted(of[u]) \/ machine' = "deleted"
<1> USE NoneAssumption DEF TypeOK, storeVars
<1>1. CASE GoOnlineOrOffline \/ DeleteMachine \/ SweepSessions
  BY <1>1 DEF GoOnlineOrOffline, DeleteMachine, SweepSessions
<1>2. ASSUME NEW s \in Session, SessionNext(s) PROVE row'[of[u]] = u
  BY <1>2 DEF SessionNext, CheckMachine, InsertSession, FiveMinutesPass, EndSession
<1>3. ASSUME NEW v \in Upload, UploadNext(v) PROVE row'[of[u]] = u
  BY <1>3 DEF UploadNext, StartUpload, CheckSession, CheckExisting, Reserve, Put,
     PutFails, RollBack, StopUpload
<1>4. ASSUME NEW d \in Deletion, DeletionNext(d)
      PROVE  row'[of[u]] = u \/ BeingDeleted(of[u])
  BY <1>4 DEF DeletionNext, FindRecording, DeleteObject, DeleteRow, StopDeletion,
     BeingDeleted
<1>5. CASE UNCHANGED vars
  BY <1>5 DEF vars
<1> QED BY <1>1, <1>2, <1>3, <1>4, <1>5 DEF Next

\* Nor is the object taken from under it by anything but such a deletion: an upload
\* that is late with its bytes replaces them, and never removes them.
LEMMA ObjectKept ==
    ASSUME TypeOK, [Next]_vars, NEW u \in Upload, of[u] \in Session, object[of[u]] # None
    PROVE  object'[of[u]] # None \/ BeingDeleted(of[u])
<1> USE NoneAssumption DEF TypeOK, storeVars
<1>1. CASE GoOnlineOrOffline \/ DeleteMachine \/ SweepSessions
  BY <1>1 DEF GoOnlineOrOffline, DeleteMachine, SweepSessions
<1>2. ASSUME NEW s \in Session, SessionNext(s) PROVE object'[of[u]] # None
  BY <1>2 DEF SessionNext, CheckMachine, InsertSession, FiveMinutesPass, EndSession
<1>3. ASSUME NEW v \in Upload, UploadNext(v) PROVE object'[of[u]] # None
  BY <1>3 DEF UploadNext, StartUpload, CheckSession, CheckExisting, Reserve, Put,
     PutFails, RollBack, StopUpload
<1>4. ASSUME NEW d \in Deletion, DeletionNext(d)
      PROVE  object'[of[u]] # None \/ BeingDeleted(of[u])
  BY <1>4 DEF DeletionNext, FindRecording, DeleteObject, DeleteRow, StopDeletion,
     BeingDeleted
<1>5. CASE UNCHANGED vars
  BY <1>5 DEF vars
<1> QED BY <1>1, <1>2, <1>3, <1>4, <1>5 DEF Next

\* An upload that succeeded stays playable until a deletion of its session's
\* recording or of the machine (recordings.rs:110-146).
THEOREM UploadsStayPlayable == Spec => StaysPlayable
<1> DEFINE Step == \A u \in Upload :
        Playable(u) /\ ~Playable(u)' => BeingDeleted(of[u]) \/ machine' = "deleted"
<1>1. TypeOK /\ [Next]_vars => [Step]_vars
  <2> SUFFICES ASSUME TypeOK, [Next]_vars, NEW u \in Upload, Playable(u), ~Playable(u)'
               PROVE  BeingDeleted(of[u]) \/ machine' = "deleted"
    OBVIOUS
  <2>1. upload[u] = "done" /\ row[of[u]] = u /\ object[of[u]] # None /\ of[u] \in Session
    BY DEF Playable, TypeOK
  <2>2. upload'[u] = "done" /\ of'[u] = of[u]
    BY <2>1, DoneForGood
  <2>3. row'[of[u]] # u \/ object'[of[u]] = None
    BY <2>2 DEF Playable
  <2> QED BY <2>1, <2>3, RowKept, ObjectKept
<1> QED BY <1>1, TypeCorrect, PTL DEF StaysPlayable, Spec

----------------------------------------------------------------------------
(* The reservation.                                                        *)

\* An upload about to put its bytes holds the row, or the row was taken from it.
Reserved ==
    \A u \in Upload :
        upload[u] = "put" => row[of[u]] = u \/ WasDeleted(of[u]) \/ machine = "deleted"

\* A deleted machine has no session and no recording left, nor gets new ones.
Cascaded == machine = "deleted" => Sessions = {} /\ \A s \in Session : row[s] = None

\* What was deleted once has been deleted from then on.
LEMMA DeletedForGood ==
    ASSUME TypeOK, [Next]_vars, NEW s \in Session, WasDeleted(s)
    PROVE  WasDeleted(s)'
<1>1. PICK d \in Deletion : deletion[d] = "done" /\ of[target[d]] = s
  BY DEF WasDeleted
<1>2. target[d] \in Upload /\ upload[target[d]] # "new"
  BY <1>1, NoneAssumption DEF TypeOK
<1>3. deletion'[d] = "done" /\ target'[d] = target[d] /\ of'[target[d]] = of[target[d]]
  BY <1>1, <1>2 DEF TypeOK, vars, uploadVars, deletionVars, Next, UploadNext, DeletionNext,
     SessionNext, GoOnlineOrOffline, DeleteMachine, SweepSessions, CheckMachine,
     InsertSession, FiveMinutesPass, EndSession, StartUpload, CheckSession, CheckExisting,
     Reserve, Put, PutFails, RollBack, StopUpload, FindRecording, DeleteObject, DeleteRow,
     StopDeletion
<1> QED BY <1>1, <1>3 DEF WasDeleted

LEMMA CascadedStep == TypeOK /\ Cascaded /\ [Next]_vars => Cascaded'
<1> SUFFICES ASSUME TypeOK, Cascaded, [Next]_vars PROVE Cascaded'
  OBVIOUS
<1> USE NoneAssumption DEF TypeOK, Cascaded, Sessions
<1>1. CASE GoOnlineOrOffline \/ DeleteMachine \/ SweepSessions
  BY <1>1 DEF GoOnlineOrOffline, DeleteMachine, SweepSessions, Abandoned, storeVars
<1>2. ASSUME NEW s \in Session, SessionNext(s) PROVE Cascaded'
  BY <1>2 DEF SessionNext, CheckMachine, InsertSession, FiveMinutesPass, EndSession, storeVars
<1>3. ASSUME NEW u \in Upload, UploadNext(u) PROVE Cascaded'
  BY <1>3 DEF UploadNext, StartUpload, CheckSession, CheckExisting, Reserve, Put, PutFails,
     RollBack, StopUpload, sessionVars, storeVars
<1>4. ASSUME NEW d \in Deletion, DeletionNext(d) PROVE Cascaded'
  BY <1>4 DEF DeletionNext, FindRecording, DeleteObject, DeleteRow, StopDeletion,
     sessionVars, storeVars
<1>5. CASE UNCHANGED vars
  BY <1>5 DEF vars, sessionVars, storeVars
<1> QED BY <1>1, <1>2, <1>3, <1>4, <1>5 DEF Next

LEMMA ReservedStep == TypeOK /\ Reserved /\ [Next]_vars => Reserved'
<1> SUFFICES ASSUME TypeOK, Reserved, [Next]_vars, NEW u \in Upload, upload'[u] = "put"
             PROVE  row'[of'[u]] = u \/ WasDeleted(of[u])' \/ machine' = "deleted"
  BY DEF Reserved, WasDeleted
<1> USE NoneAssumption DEF TypeOK
<1>1. CASE Reserve(u)
  BY <1>1 DEF Reserve
<1>2. CASE upload[u] = "put"
  <2>1. of'[u] = of[u] /\ of[u] \in Session
    BY <1>2 DEF vars, uploadVars, Next, UploadNext, DeletionNext, SessionNext,
       GoOnlineOrOffline, DeleteMachine, SweepSessions, CheckMachine, InsertSession,
       FiveMinutesPass, EndSession, StartUpload, CheckSession, CheckExisting, Reserve, Put,
       PutFails, RollBack, StopUpload, FindRecording, DeleteObject, DeleteRow, StopDeletion
  <2>2. CASE WasDeleted(of[u])
    BY <2>1, <2>2, DeletedForGood
  <2>3. CASE machine = "deleted"
    <3>1. machine' = "deleted"
      BY <2>3 DEF vars, sessionVars, Next, UploadNext, DeletionNext, SessionNext,
         GoOnlineOrOffline, DeleteMachine, SweepSessions, CheckMachine, InsertSession,
         FiveMinutesPass, EndSession, StartUpload, CheckSession, CheckExisting, Reserve,
         Put, PutFails, RollBack, StopUpload, FindRecording, DeleteObject, DeleteRow,
         StopDeletion
    <3> QED BY <3>1
  <2>4. CASE row[of[u]] = u
    <3>1. CASE GoOnlineOrOffline \/ DeleteMachine \/ SweepSessions
      BY <2>1, <2>4, <3>1 DEF GoOnlineOrOffline, DeleteMachine, SweepSessions, storeVars
    <3>2. ASSUME NEW s \in Session, SessionNext(s) PROVE row'[of[u]] = u
      BY <2>4, <3>2 DEF SessionNext, CheckMachine, InsertSession, FiveMinutesPass,
         EndSession, storeVars
    <3>3. ASSUME NEW v \in Upload, UploadNext(v) PROVE row'[of[u]] = u
      BY <1>2, <2>1, <2>4, <3>3 DEF UploadNext, StartUpload, CheckSession, CheckExisting,
         Reserve, Put, PutFails, RollBack, StopUpload, storeVars
    <3>4. ASSUME NEW d \in Deletion, DeleteRow(d)
          PROVE  row'[of[u]] = u \/ WasDeleted(of[u])'
      <4>1. deletion'[d] = "done" /\ UNCHANGED <<of, target>>
        BY <3>4 DEF DeleteRow, uploadVars
      <4>2. CASE of[target[d]] = of[u]
        BY <4>1, <4>2 DEF WasDeleted
      <4>3. CASE of[target[d]] # of[u]
        BY <2>1, <2>4, <3>4, <4>3 DEF DeleteRow
      <4> QED BY <4>2, <4>3
    <3>5. ASSUME NEW d \in Deletion, DeletionNext(d), ~DeleteRow(d) PROVE row'[of[u]] = u
      BY <2>4, <3>5 DEF DeletionNext, FindRecording, DeleteObject, StopDeletion, storeVars
    <3>6. CASE UNCHANGED vars
      BY <2>1, <2>4, <3>6 DEF vars, storeVars
    <3> QED BY <2>1, <3>1, <3>2, <3>3, <3>4, <3>5, <3>6 DEF Next
  <2> QED BY <1>2, <2>2, <2>3, <2>4 DEF Reserved
<1>3. ASSUME upload[u] # "put" PROVE Reserve(u)
  <2>1. upload'[u] # upload[u]
    BY <1>3
  <2>2. PICK v \in Upload : UploadNext(v)
    BY <2>1 DEF vars, uploadVars, Next, DeletionNext, SessionNext, GoOnlineOrOffline,
       DeleteMachine, SweepSessions, CheckMachine, InsertSession, FiveMinutesPass,
       EndSession, FindRecording, DeleteObject, DeleteRow, StopDeletion
  <2>3. v = u
    BY <2>1, <2>2 DEF UploadNext, StartUpload, CheckSession, CheckExisting, Reserve, Put,
       PutFails, RollBack, StopUpload
  <2> QED
    BY <2>2, <2>3 DEF UploadNext, StartUpload, CheckSession, CheckExisting, Put, PutFails,
       RollBack, StopUpload
<1> QED BY <1>1, <1>2, <1>3

\* The bytes of the row there is are replaced by another upload's only when a
\* recording of the session was deleted before (recordings.rs:110-146).
THEOREM OverwritesNeedDeletion == Spec => OverwriteNeedsDeletion
<1> DEFINE Step == \A u \in Upload :
        (Playable(u) /\ object[of[u]] = u /\ object'[of[u]] \notin {u, None})
            => WasDeleted(of[u])
<1>1. Init => Reserved /\ Cascaded
  BY DEF Init, Reserved, Cascaded
<1>2. TypeOK /\ Reserved /\ Cascaded /\ [Next]_vars => Reserved' /\ Cascaded'
  BY ReservedStep, CascadedStep
<1>3. TypeOK /\ Reserved /\ Cascaded /\ [Next]_vars => [Step]_vars
  <2> SUFFICES ASSUME TypeOK, Reserved, Cascaded, [Next]_vars, NEW u \in Upload,
                      Playable(u), object[of[u]] = u, object'[of[u]] \notin {u, None}
               PROVE  WasDeleted(of[u])
    OBVIOUS
  <2> USE NoneAssumption DEF TypeOK
  <2>1. of[u] \in Session /\ row[of[u]] = u
    BY DEF Playable
  <2>2. PICK v \in Upload : Put(v) \/ PutFails(v) \/ StopUpload(v)
    BY <2>1 DEF vars, storeVars, Next, UploadNext, DeletionNext, SessionNext,
       GoOnlineOrOffline, DeleteMachine, SweepSessions, CheckMachine, InsertSession,
       FiveMinutesPass, EndSession, StartUpload, CheckSession, CheckExisting, Reserve,
       RollBack, FindRecording, DeleteObject, DeleteRow, StopDeletion
  <2>3. upload[v] = "put" /\ of[v] = of[u] /\ v # u
    BY <2>1, <2>2 DEF Put, PutFails, StopUpload
  <2>4. machine # "deleted"
    BY <2>1 DEF Cascaded
  <2> QED BY <2>1, <2>3, <2>4 DEF Reserved
<1> QED BY <1>1, <1>2, <1>3, TypeCorrect, PTL DEF OverwriteNeedsDeletion, Spec

=============================================================================
