-------------------------- MODULE EnrollmentProofs --------------------------
(***************************************************************************)
(* Proofs about Enrollment for any computers and any number of rows.       *)
(*                                                                         *)
(* None of the properties of the two tables is inductive alone.  What      *)
(* carries them is Provenance: how the columns of a row depend on where    *)
(* the row came from.  Most steps only move flags, forget tenants' rows or *)
(* purge unclaimed ones; RowsKept says so once for all of them.            *)
(***************************************************************************)
EXTENDS Enrollment, TLAPS

\* Only drawn ids are in use.
RowsDrawn == \A i \in Uuid : machines[i] # None \/ adhoc[i] # None => i \in drawn

\* An adhoc row bears its own token and code until it is claimed, then neither.
GuestColumns ==
    \A i \in Uuid : adhoc[i] # None =>
        IF adhoc[i].claimed THEN adhoc[i].token = None /\ adhoc[i].code = None
        ELSE adhoc[i].token = i /\ adhoc[i].code = i

\* A row of machines was enrolled, and bears its own token, or claimed, and
\* bears the token of a claimed adhoc row.
OwnedOrigin ==
    \A i \in Uuid : machines[i] # None =>
        IF machines[i].token = i THEN adhoc[i] = None
        ELSE /\ adhoc[machines[i].token] # None
             /\ adhoc[machines[i].token].claimed

\* machines.agent_token is unique.
OwnedApart ==
    \A i, j \in Uuid :
        machines[i] # None /\ machines[j] # None /\ machines[i].token = machines[j].token
            => i = j

Provenance == RowsDrawn /\ GuestColumns /\ OwnedOrigin /\ OwnedApart

----------------------------------------------------------------------------

\* Types are preserved; that a claimed token is a token takes GuestColumns.
LEMMA TypeStep == TypeOK /\ GuestColumns /\ [Next]_vars => TypeOK'
<1> SUFFICES ASSUME TypeOK, GuestColumns, [Next]_vars PROVE TypeOK'
  OBVIOUS
<1> USE NoneAssumption, RowAssumption DEF TypeOK
<1>1. ASSUME NEW c \in Computer, Start(c) PROVE TypeOK'
  BY <1>1 DEF Start, Process
<1>2. ASSUME NEW c \in Computer, NEW i \in Uuid, MakeRow(c, i) PROVE TypeOK'
  <2>1. EnrolledRow(i) \in MachineRow /\ RegisteredRow(i) \in AdhocRow
    BY DEF EnrolledRow, RegisteredRow, MachineRow, AdhocRow
  <2> QED BY <1>2, <2>1 DEF MakeRow, Process
<1>3. ASSUME NEW c \in Computer, Save(c) PROVE TypeOK'
  BY <1>3 DEF Save, Process
<1>4. ASSUME NEW c \in Computer, Crash(c) PROVE TypeOK'
  BY <1>4 DEF Crash, Process
<1>5. ASSUME NEW c \in Computer,
             SendBeat(c) \/ BeatMachines(c) \/ BeatAdhoc(c) \/ LoseBeat(c)
      PROVE TypeOK'
  BY <1>5 DEF SendBeat, BeatMachines, BeatAdhoc, LoseBeat, Beat, agentVars
<1>6. ASSUME NEW c \in Computer, BeatTouch(c) PROVE TypeOK'
  <2>1. conf[c] \in Uuid
    BY <1>6 DEF BeatTouch
  <2>2. TouchOwned(conf[c]) \in [Uuid -> MachineRow \cup {None}]
    <3>1. \A m \in MachineRow : Seen(m) \in MachineRow
      BY DEF Seen, MachineRow
    <3> QED BY <2>1, <3>1 DEF TouchOwned, Owned
  <2>3. TouchGuest(conf[c]) \in [Uuid -> AdhocRow \cup {None}]
    <3>1. \A g \in AdhocRow : Seen(g) \in AdhocRow
      BY DEF Seen, AdhocRow
    <3> QED BY <2>1, <3>1 DEF TouchGuest, Guests
  <2> QED BY <1>6, <2>2, <2>3 DEF BeatTouch, Beat, agentVars
<1>7. ASSUME NEW i \in Uuid, FindByCode(i) \/ Mint(i) \/ ConnectFails(i) PROVE TypeOK'
  BY <1>7 DEF FindByCode, Mint, ConnectFails, WithCode, Guests, agentVars
<1>8. ASSUME NEW i \in Uuid, NEW new \in Uuid, Claim(i, new) PROVE TypeOK'
  <2>1. PICK g \in Uuid : ClaimRow(g, new) /\ adhoc[g].code = i /\ adhoc[g] # None
    BY <1>8 DEF Claim, WithCode, Guests
  <2>2. adhoc[g] \in AdhocRow
    BY <2>1
  <2>3. Claimed(adhoc[g]) \in AdhocRow
    BY <2>2 DEF Claimed, AdhocRow
  <2>4. adhoc[g].token \in Uuid
    BY <2>1 DEF GuestColumns, ClaimRow
  <2>5. [token |-> adhoc[g].token, online |-> adhoc[g].online,
         fresh |-> adhoc[g].fresh] \in MachineRow
    BY <2>2, <2>4 DEF AdhocRow, MachineRow
  <2> QED BY <2>1, <2>3, <2>5 DEF ClaimRow, agentVars
<1>9. ASSUME NEW i \in Uuid, DeleteMachine(i) PROVE TypeOK'
  BY <1>9 DEF DeleteMachine, agentVars
<1>10. ASSUME NEW i \in Uuid, LastSeenAges(i) PROVE TypeOK'
  <2>1. i \in Owned => Aged(machines[i]) \in MachineRow
    BY DEF Owned, Aged, MachineRow
  <2>2. i \in Guests => Aged(adhoc[i]) \in AdhocRow
    BY DEF Guests, Aged, AdhocRow
  <2> QED BY <1>10, <2>1, <2>2 DEF LastSeenAges, agentVars
<1>11. ASSUME NEW i \in Uuid, RowExpires(i) PROVE TypeOK'
  <2>1. \A g \in AdhocRow : [g EXCEPT !.expired = TRUE] \in AdhocRow
    BY DEF AdhocRow
  <2> QED BY <1>11, <2>1 DEF RowExpires, Guests, agentVars
<1>12. ASSUME NEW i \in Uuid, JwtExpires(i) PROVE TypeOK'
  BY <1>12 DEF JwtExpires, agentVars
<1>13. CASE SweepMachines
  <2>1. \A m \in MachineRow : [m EXCEPT !.online = FALSE] \in MachineRow
    BY DEF MachineRow
  <2> QED BY <1>13, <2>1 DEF SweepMachines, Sweeper, Owned, agentVars
<1>14. CASE SweepAdhoc
  <2>1. \A g \in AdhocRow : [g EXCEPT !.online = FALSE] \in AdhocRow
    BY DEF AdhocRow
  <2> QED BY <1>14, <2>1 DEF SweepAdhoc, Sweeper, Guests, agentVars
<1>15. CASE Purge
  BY <1>15 DEF Purge, Sweeper, agentVars
<1>16. CASE SweepFails
  BY <1>16 DEF SweepFails, Sweeper, agentVars
<1>17. CASE UNCHANGED vars
  BY <1>17 DEF vars, agentVars
<1> QED
  BY <1>1, <1>2, <1>3, <1>4, <1>5, <1>6, <1>7, <1>8, <1>9, <1>10, <1>11, <1>12,
     <1>13, <1>14, <1>15, <1>16, <1>17 DEF Next, AgentNext, RowNext

\* A step that draws no id, keeps the tokens, codes and claims of the rows it
\* leaves, and removes adhoc rows only if unclaimed, keeps Provenance.
LEMMA RowsKept ==
    ASSUME Provenance,
           drawn' = drawn,
           \A i \in Uuid : machines'[i] # None =>
               machines[i] # None /\ machines'[i].token = machines[i].token,
           \A i \in Uuid : adhoc'[i] # None =>
               /\ adhoc[i] # None
               /\ adhoc'[i].token = adhoc[i].token
               /\ adhoc'[i].code = adhoc[i].code
               /\ adhoc'[i].claimed = adhoc[i].claimed,
           \A i \in Uuid : adhoc[i] # None /\ adhoc[i].claimed => adhoc'[i] # None,
           TypeOK
    PROVE  Provenance'
<1>1. RowsDrawn'
  BY DEF Provenance, RowsDrawn
<1>2. GuestColumns'
  BY DEF Provenance, GuestColumns
<1>3. OwnedOrigin'
  <2> SUFFICES ASSUME NEW i \in Uuid, machines'[i] # None
               PROVE  IF machines'[i].token = i THEN adhoc'[i] = None
                      ELSE /\ adhoc'[machines'[i].token] # None
                           /\ adhoc'[machines'[i].token].claimed
    BY DEF OwnedOrigin
  <2>1. machines[i] # None /\ machines'[i].token = machines[i].token
    OBVIOUS
  <2>2. machines[i].token \in Uuid
    BY <2>1 DEF TypeOK, MachineRow
  <2> QED BY <2>1, <2>2 DEF Provenance, OwnedOrigin
<1>4. OwnedApart'
  BY DEF Provenance, OwnedApart
<1> QED BY <1>1, <1>2, <1>3, <1>4 DEF Provenance

\* A row is made under an id nothing refers to yet.
LEMMA MakeRowKeepsProvenance ==
    ASSUME TypeOK, Provenance,
           NEW c \in Computer, NEW i \in Uuid, MakeRow(c, i)
    PROVE  Provenance'
<1> USE NoneAssumption, RowAssumption
<1>1. i \notin drawn /\ drawn' = drawn \cup {i} /\ machines[i] = None /\ adhoc[i] = None
  BY DEF MakeRow, Provenance, RowsDrawn
<1>2. \A j \in Uuid : machines[j] # None => machines[j].token \in Uuid /\ machines[j].token # i
  <2> SUFFICES ASSUME NEW j \in Uuid, machines[j] # None
               PROVE  machines[j].token \in Uuid /\ machines[j].token # i
    OBVIOUS
  <2>1. machines[j].token \in Uuid
    BY DEF TypeOK, MachineRow
  <2>2. machines[j].token # i
    BY <1>1 DEF Provenance, OwnedOrigin
  <2> QED BY <2>1, <2>2
<1>3. RegisteredRow(i) # None /\ EnrolledRow(i) # None
  <2>1. RegisteredRow(i) \in AdhocRow
    BY DEF RegisteredRow, AdhocRow
  <2>2. EnrolledRow(i) \in MachineRow
    BY DEF EnrolledRow, MachineRow
  <2> QED BY <2>1, <2>2
<1>4. CASE c \in Public
  <2>1. adhoc' = [adhoc EXCEPT ![i] = RegisteredRow(i)] /\ machines' = machines
    BY <1>4 DEF MakeRow
  <2> QED BY <1>1, <1>2, <1>3, <2>1
          DEF TypeOK, Provenance, RowsDrawn, GuestColumns, OwnedOrigin, OwnedApart, RegisteredRow
<1>5. CASE c \notin Public
  <2>1. machines' = [machines EXCEPT ![i] = EnrolledRow(i)] /\ adhoc' = adhoc
    BY <1>5 DEF MakeRow
  <2>2. /\ \A j \in Uuid \ {i} : machines'[j] = machines[j]
        /\ machines'[i] = EnrolledRow(i)
        /\ EnrolledRow(i).token = i
    BY <2>1 DEF TypeOK, EnrolledRow
  <2>3. RowsDrawn' /\ GuestColumns'
    BY <1>1, <2>1, <2>2 DEF Provenance, RowsDrawn, GuestColumns
  <2>4. OwnedOrigin'
    BY <1>1, <1>2, <2>1, <2>2 DEF Provenance, OwnedOrigin
  <2>5. OwnedApart'
    BY <1>1, <1>2, <2>2 DEF Provenance, OwnedApart
  <2> QED BY <2>3, <2>4, <2>5 DEF Provenance
<1> QED BY <1>4, <1>5

\* A claim moves a token nobody in machines bears to a row of its own.
LEMMA ClaimKeepsProvenance ==
    ASSUME TypeOK, Provenance,
           NEW g \in Uuid, NEW new \in Uuid, adhoc[g] # None, ClaimRow(g, new)
    PROVE  Provenance'
<1> USE NoneAssumption, RowAssumption
<1> DEFINE row == [token |-> adhoc[g].token, online |-> adhoc[g].online,
                   fresh |-> adhoc[g].fresh]
<1>1. /\ new \notin drawn /\ drawn' = drawn \cup {new}
      /\ machines[new] = None /\ adhoc[new] = None
      /\ machines' = [machines EXCEPT ![new] = row]
      /\ adhoc' = [adhoc EXCEPT ![g] = Claimed(@)]
  BY DEF ClaimRow, Provenance, RowsDrawn
<1>2. ~adhoc[g].claimed /\ adhoc[g].token = g /\ g # new
  BY <1>1 DEF ClaimRow, Provenance, GuestColumns
<1>3. adhoc[g] \in AdhocRow
  BY DEF TypeOK
<1>4. row \in MachineRow /\ row.token = g
  BY <1>2, <1>3 DEF AdhocRow, MachineRow
<1>5. /\ Claimed(adhoc[g]) \in AdhocRow
      /\ Claimed(adhoc[g]).claimed
      /\ Claimed(adhoc[g]).token = None
      /\ Claimed(adhoc[g]).code = None
  BY <1>3 DEF Claimed, AdhocRow
<1>6. \A j \in Uuid : machines[j] # None => machines[j].token \in Uuid /\ machines[j].token # g
  BY <1>2 DEF ClaimRow, OwnedBy, Owned, TypeOK, MachineRow
<1>7. /\ \A j \in Uuid \ {new} : machines'[j] = machines[j]
      /\ machines'[new] = row
      /\ \A j \in Uuid \ {g} : adhoc'[j] = adhoc[j]
      /\ adhoc'[g] = Claimed(adhoc[g])
  BY <1>1 DEF TypeOK
<1> HIDE DEF row
<1>8. RowsDrawn'
  BY <1>1, <1>7 DEF Provenance, RowsDrawn
<1>9. GuestColumns'
  BY <1>5, <1>7 DEF Provenance, GuestColumns
<1>10. OwnedOrigin'
  <2> SUFFICES ASSUME NEW i \in Uuid, machines'[i] # None
               PROVE  IF machines'[i].token = i THEN adhoc'[i] = None
                      ELSE /\ adhoc'[machines'[i].token] # None
                           /\ adhoc'[machines'[i].token].claimed
    BY DEF OwnedOrigin
  <2>1. CASE i = new
    BY <2>1, <1>2, <1>4, <1>5, <1>7
  <2>2. CASE i # new
    <3>1. machines[i] # None /\ machines'[i] = machines[i]
      BY <2>2, <1>7
    <3>2. machines[i].token \in Uuid /\ machines[i].token # g
      BY <3>1, <1>6
    <3>3. IF machines[i].token = i THEN adhoc[i] = None
          ELSE adhoc[machines[i].token] # None /\ adhoc[machines[i].token].claimed
      BY <3>1 DEF Provenance, OwnedOrigin
    <3> QED BY <3>1, <3>2, <3>3, <1>7
  <2> QED BY <2>1, <2>2
<1>11. OwnedApart'
  BY <1>4, <1>6, <1>7 DEF Provenance, OwnedApart
<1> QED BY <1>8, <1>9, <1>10, <1>11 DEF Provenance

\* Every step keeps Provenance; all but the making of a row and the claim do so
\* by RowsKept.
LEMMA ProvenanceStep == TypeOK /\ Provenance /\ [Next]_vars => Provenance'
<1> SUFFICES ASSUME TypeOK, Provenance, [Next]_vars PROVE Provenance'
  OBVIOUS
<1> USE NoneAssumption, RowAssumption
<1>1. ASSUME NEW c \in Computer,
             \/ Start(c) \/ Save(c) \/ Crash(c) \/ SendBeat(c)
             \/ BeatMachines(c) \/ BeatAdhoc(c) \/ LoseBeat(c)
      PROVE  Provenance'
  BY <1>1, RowsKept DEF Start, Save, Crash, SendBeat, BeatMachines, BeatAdhoc, LoseBeat
<1>2. ASSUME NEW c \in Computer, BeatTouch(c) PROVE Provenance'
  <2>1. conf[c] \in Uuid
    BY <1>2 DEF BeatTouch, TypeOK
  <2>2. \A i \in Uuid : machines[i] # None =>
          Seen(machines[i]).token = machines[i].token
    BY DEF TypeOK, Seen, MachineRow
  <2>3. \A i \in Uuid : adhoc[i] # None =>
          /\ Seen(adhoc[i]) \in AdhocRow
          /\ Seen(adhoc[i]).token = adhoc[i].token
          /\ Seen(adhoc[i]).code = adhoc[i].code
          /\ Seen(adhoc[i]).claimed = adhoc[i].claimed
    BY DEF TypeOK, Seen, AdhocRow
  <2>4. drawn' = drawn
    BY <1>2 DEF BeatTouch
  <2>5. CASE machines' = TouchOwned(conf[c]) /\ adhoc' = adhoc
    BY <2>1, <2>2, <2>4, <2>5, RowsKept DEF TouchOwned, Owned, TypeOK
  <2>6. CASE adhoc' = TouchGuest(conf[c]) /\ machines' = machines
    BY <2>1, <2>3, <2>4, <2>6, RowsKept DEF TouchGuest, Guests, TypeOK
  <2> QED BY <1>2, <2>5, <2>6 DEF BeatTouch
<1>3. ASSUME NEW i \in Uuid,
             FindByCode(i) \/ Mint(i) \/ ConnectFails(i) \/ JwtExpires(i)
      PROVE  Provenance'
  BY <1>3, RowsKept DEF FindByCode, Mint, ConnectFails, JwtExpires
<1>4. ASSUME NEW i \in Uuid, NEW new \in Uuid, Claim(i, new) PROVE Provenance'
  BY <1>4, ClaimKeepsProvenance DEF Claim, WithCode, Guests
<1>5. ASSUME NEW i \in Uuid, DeleteMachine(i) PROVE Provenance'
  BY <1>5, RowsKept DEF DeleteMachine, TypeOK
<1>6. ASSUME NEW i \in Uuid, LastSeenAges(i) PROVE Provenance'
  <2>1. machines[i] # None => Aged(machines[i]).token = machines[i].token
    BY DEF TypeOK, Aged, MachineRow
  <2>2. adhoc[i] # None =>
          /\ Aged(adhoc[i]) \in AdhocRow
          /\ Aged(adhoc[i]).token = adhoc[i].token
          /\ Aged(adhoc[i]).code = adhoc[i].code
          /\ Aged(adhoc[i]).claimed = adhoc[i].claimed
    BY DEF TypeOK, Aged, AdhocRow
  <2>3. drawn' = drawn
    BY <1>6 DEF LastSeenAges
  <2>4. CASE i \in Owned /\ machines' = [machines EXCEPT ![i] = Aged(@)] /\ adhoc' = adhoc
    BY <2>1, <2>3, <2>4, RowsKept DEF Owned, TypeOK
  <2>5. CASE i \in Guests /\ adhoc' = [adhoc EXCEPT ![i] = Aged(@)] /\ machines' = machines
    BY <2>2, <2>3, <2>5, RowsKept DEF Guests, TypeOK
  <2> QED BY <1>6, <2>4, <2>5 DEF LastSeenAges
<1>7. ASSUME NEW i \in Uuid, RowExpires(i) PROVE Provenance'
  <2> DEFINE row == [adhoc[i] EXCEPT !.expired = TRUE]
  <2>1. i \in Guests /\ adhoc' = [adhoc EXCEPT ![i] = row] /\ machines' = machines /\ drawn' = drawn
    BY <1>7 DEF RowExpires
  <2>2. /\ row \in AdhocRow
        /\ row.token = adhoc[i].token
        /\ row.code = adhoc[i].code
        /\ row.claimed = adhoc[i].claimed
    BY <2>1 DEF TypeOK, Guests, AdhocRow
  <2> HIDE DEF row
  <2> QED BY <2>1, <2>2, RowsKept DEF Guests, TypeOK
<1>8. CASE SweepMachines
  <2>1. \A i \in Uuid : machines'[i] # None =>
          machines[i] # None /\ machines'[i].token = machines[i].token
    BY <1>8 DEF SweepMachines, Owned, TypeOK, MachineRow
  <2> QED BY <1>8, <2>1, RowsKept DEF SweepMachines
<1>9. CASE SweepAdhoc
  <2>1. \A i \in Uuid : adhoc[i] # None => [adhoc[i] EXCEPT !.online = FALSE] \in AdhocRow
    BY DEF TypeOK, AdhocRow
  <2>2. \A i \in Uuid :
          /\ adhoc'[i] # None <=> adhoc[i] # None
          /\ adhoc[i] # None => /\ adhoc'[i].token = adhoc[i].token
                               /\ adhoc'[i].code = adhoc[i].code
                               /\ adhoc'[i].claimed = adhoc[i].claimed
    BY <1>9, <2>1 DEF SweepAdhoc, Guests, TypeOK, AdhocRow
  <2> QED BY <1>9, <2>2, RowsKept DEF SweepAdhoc
<1>10. CASE Purge
  <2>1. \A i \in Uuid : adhoc'[i] = IF i \in Purgeable THEN None ELSE adhoc[i]
    BY <1>10 DEF Purge
  <2> QED BY <1>10, <2>1, RowsKept DEF Purge, Purgeable
<1>11. CASE SweepFails
  BY <1>11, RowsKept DEF SweepFails
<1>12. CASE UNCHANGED vars
  BY <1>12, RowsKept DEF vars
<1> QED
  BY <1>1, <1>2, <1>3, <1>4, <1>5, <1>6, <1>7, <1>8, <1>9, <1>10, <1>11, <1>12,
     MakeRowKeepsProvenance DEF Next, AgentNext, RowNext

----------------------------------------------------------------------------

LEMMA EnrollmentInvariant == Spec => [](TypeOK /\ Provenance)
<1>1. Init => TypeOK /\ Provenance
  BY DEF Init, TypeOK, Process, Beat, Sweeper,
         Provenance, RowsDrawn, GuestColumns, OwnedOrigin, OwnedApart
<1>2. TypeOK /\ Provenance /\ [Next]_vars => (TypeOK /\ Provenance)'
  BY TypeStep, ProvenanceStep DEF Provenance
<1> QED BY <1>1, <1>2, PTL DEF Spec

\* TypeOK is an invariant: among the rest, an agent never runs or is served a
\* heartbeat without saved credentials, whatever crashes before its save.
THEOREM TypeCorrect == Spec => []TypeOK
BY EnrollmentInvariant, PTL

\* An agent token is in at most one row of the two tables (relay auth.rs:21-33).
THEOREM TokensUnambiguous == Spec => []OneRowPerToken
<1>1. TypeOK /\ Provenance => OneRowPerToken
  <2> SUFFICES ASSUME TypeOK, Provenance,
                      NEW t \in Uuid, NEW i \in OwnedBy(t), NEW j \in OwnedBy(t)
               PROVE  i = j /\ GuestOf(t) = {}
    BY DEF OneRowPerToken
  <2>1. /\ i \in Uuid /\ machines[i] # None /\ machines[i].token = t
        /\ j \in Uuid /\ machines[j] # None /\ machines[j].token = t
    BY DEF OwnedBy, Owned
  <2>2. i = j
    BY <2>1 DEF Provenance, OwnedApart
  <2>3. ASSUME NEW g \in GuestOf(t) PROVE FALSE
    <3>1. g \in Uuid /\ adhoc[g] # None /\ adhoc[g].token = t
      BY <2>3 DEF GuestOf, Guests
    <3>2. g = t /\ ~adhoc[g].claimed
      BY <3>1, NoneAssumption DEF Provenance, GuestColumns
    <3> QED BY <2>1, <3>1, <3>2 DEF Provenance, OwnedOrigin
  <2> QED BY <2>2, <2>3
<1> QED BY <1>1, EnrollmentInvariant, PTL

\* A code finds no row once it is claimed or purged, so what was found before is
\* all that is left to come (adhoc.rs:141-166, 269-276).
LEMMA DoorStep ==
    ASSUME TypeOK, Provenance, [Next]_vars,
           NEW i \in Uuid, Closed(i), NoWayIn(i)
    PROVE  Closed(i)' /\ NoWayIn(i)'
<1> USE NoneAssumption, RowAssumption
<1>1. ASSUME NEW code \in Uuid, FindByCode(code) PROVE NoWayIn(i)'
  <2>1. PICK g \in WithCode(code) : connecting' = connecting \cup {g}
    BY <1>1 DEF FindByCode
  <2>2. g \in Guests /\ ~adhoc[g].claimed
    BY <2>1 DEF WithCode, Guests, Provenance, GuestColumns
  <2> QED BY <1>1, <2>1, <2>2 DEF Closed, NoWayIn, FindByCode
<1>2. NoWayIn(i)'
  <2>1. ASSUME NEW j \in Uuid, Mint(j) \/ ConnectFails(j) \/ JwtExpires(j) PROVE NoWayIn(i)'
    BY <2>1 DEF NoWayIn, Mint, ConnectFails, JwtExpires
  <2>2. CASE UNCHANGED <<jwts, connecting>>
    BY <2>2 DEF NoWayIn
  <2> QED BY <1>1, <2>1, <2>2
     DEF Next, AgentNext, RowNext, vars, agentVars, Start, MakeRow, Save, Crash,
     SendBeat, BeatMachines, BeatAdhoc, BeatTouch, LoseBeat, Claim, ClaimRow,
     DeleteMachine, LastSeenAges, RowExpires, SweepMachines, SweepAdhoc,
     Purge, SweepFails
<1>3. i \in drawn'
  BY DEF Closed, Next, AgentNext, RowNext, vars, agentVars, Start, MakeRow, Save, Crash,
     SendBeat, BeatMachines, BeatAdhoc, BeatTouch, LoseBeat, FindByCode, Mint,
     ConnectFails, Claim, ClaimRow,
     DeleteMachine, LastSeenAges, RowExpires, JwtExpires, SweepMachines, SweepAdhoc,
     Purge, SweepFails
<1>4. i \in Guests' => adhoc'[i].claimed
  <2> SUFFICES ASSUME i \in Guests' PROVE adhoc'[i].claimed
    OBVIOUS
  <2>1. adhoc'[i] # None
    BY DEF Guests
  <2>2. i \in Guests => adhoc[i].claimed /\ adhoc[i] \in AdhocRow
    BY DEF Closed, Guests, TypeOK
  <2>3. CASE adhoc' = adhoc
    BY <2>2, <2>3 DEF Guests
  <2>4. ASSUME NEW c \in Computer, NEW j \in Uuid, MakeRow(c, j)
        PROVE  adhoc'[i].claimed
    <3>1. j # i
      BY <2>4 DEF MakeRow, Closed
    <3> QED BY <2>1, <2>2, <2>4, <3>1 DEF MakeRow, TypeOK, Guests
  <2>5. ASSUME NEW c \in Computer, BeatTouch(c), adhoc' = TouchGuest(conf[c])
        PROVE  adhoc'[i].claimed
    <3>1. i \in Guests => Seen(adhoc[i]).claimed = adhoc[i].claimed
      BY <2>2 DEF Seen, AdhocRow
    <3> QED BY <2>1, <2>2, <2>5, <3>1 DEF TouchGuest, Guests, TypeOK
  <2>6. ASSUME NEW code \in Uuid, NEW new \in Uuid, Claim(code, new)
        PROVE  adhoc'[i].claimed
    <3>1. PICK g \in Guests : adhoc' = [adhoc EXCEPT ![g] = Claimed(@)]
      BY <2>6 DEF Claim, ClaimRow, WithCode
    <3>2. i \in Guests => Claimed(adhoc[i]).claimed
      BY <2>2 DEF Claimed, AdhocRow
    <3> QED BY <2>1, <2>2, <3>1, <3>2 DEF Guests, TypeOK
  <2>7. ASSUME NEW j \in Uuid, LastSeenAges(j) PROVE adhoc'[i].claimed
    <3>1. i \in Guests => Aged(adhoc[i]).claimed = adhoc[i].claimed
      BY <2>2 DEF Aged, AdhocRow
    <3> QED BY <2>1, <2>2, <2>7, <3>1 DEF LastSeenAges, Guests, TypeOK
  <2>8. ASSUME NEW j \in Uuid, RowExpires(j) PROVE adhoc'[i].claimed
    BY <2>1, <2>2, <2>8 DEF RowExpires, Guests, TypeOK, AdhocRow
  <2>9. CASE SweepAdhoc
    BY <2>1, <2>2, <2>9 DEF SweepAdhoc, Guests, AdhocRow
  <2>10. CASE Purge
    BY <2>1, <2>2, <2>10 DEF Purge, Guests
  <2> QED
    BY <2>3, <2>4, <2>5, <2>6, <2>7, <2>8, <2>9, <2>10
    DEF Next, AgentNext, RowNext, vars, agentVars, Start, Save, Crash,
        SendBeat, BeatMachines, BeatAdhoc, BeatTouch, LoseBeat, FindByCode, Mint, ConnectFails,
        DeleteMachine, JwtExpires, SweepMachines, SweepFails
<1> QED BY <1>2, <1>3, <1>4 DEF Closed

\* A claim or a purge closes the door for codes, for good: only a connect whose
\* SELECT came before it still gets a token (adhoc.rs:141-166).
THEOREM DoorStaysClosed == Spec => ClaimClosesDoor
<1>1. TypeOK /\ Provenance /\ [Next]_vars =>
        [\A i \in Uuid : Closed(i) /\ NoWayIn(i) => Closed(i)' /\ NoWayIn(i)']_vars
  BY DoorStep
<1> QED BY <1>1, EnrollmentInvariant, PTL DEF Spec, ClaimClosesDoor

----------------------------------------------------------------------------
(* Who brings a machine online.                                            *)

\* The rows of machines there were keep their token; only a heartbeat of an agent
\* that names the row brings it online.
LEMMA MachineRowStep ==
    ASSUME TypeOK, Provenance, [Next]_vars,
           NEW i \in Uuid, machines[i] # None, machines'[i] # None
    PROVE  /\ machines'[i].token = machines[i].token
           /\ machines'[i].online /\ ~machines[i].online
                  => \E c \in Computer : conf[c] = i /\ beat[c] = "touchMachine"
<1> USE NoneAssumption, RowAssumption
<1>1. machines[i] \in MachineRow /\ i \in drawn
  BY DEF TypeOK, Provenance, RowsDrawn
<1>2. CASE machines'[i] = machines[i]
  BY <1>2
<1>3. ASSUME machines'[i] # machines[i]
      PROVE  \/ \E c \in Computer : BeatTouch(c) /\ machines' = TouchOwned(conf[c])
             \/ LastSeenAges(i) /\ machines' = [machines EXCEPT ![i] = Aged(@)]
             \/ SweepMachines
  <2>1. ASSUME NEW c \in Computer, NEW j \in Uuid, MakeRow(c, j) PROVE FALSE
    <3>1. j # i
      BY <1>1, <2>1 DEF MakeRow
    <3> QED BY <1>3, <2>1, <3>1 DEF MakeRow, TypeOK
  <2>2. ASSUME NEW code \in Uuid, NEW new \in Uuid, Claim(code, new) PROVE FALSE
    <3>1. new # i
      BY <1>1, <2>2 DEF Claim, ClaimRow
    <3> QED BY <1>3, <2>2, <3>1 DEF Claim, ClaimRow, TypeOK
  <2>3. ASSUME NEW j \in Uuid, DeleteMachine(j) PROVE FALSE
    BY <1>3, <2>3 DEF DeleteMachine, TypeOK
  <2>4. ASSUME NEW j \in Uuid, LastSeenAges(j)
        PROVE  LastSeenAges(i) /\ machines' = [machines EXCEPT ![i] = Aged(@)]
    <3>1. machines' = [machines EXCEPT ![j] = Aged(@)]
      BY <1>3, <2>4 DEF LastSeenAges
    <3>2. j = i
      BY <1>3, <3>1 DEF TypeOK
    <3> QED BY <2>4, <3>1, <3>2
  <2>5. ASSUME NEW c \in Computer, BeatTouch(c) PROVE machines' = TouchOwned(conf[c])
    BY <1>3, <2>5 DEF BeatTouch
  <2> QED
    BY <1>3, <2>1, <2>2, <2>3, <2>4, <2>5
    DEF Next, AgentNext, RowNext, vars, agentVars, Start, Save, Crash, SendBeat,
        BeatMachines, BeatAdhoc, LoseBeat, FindByCode, Mint,
        ConnectFails, RowExpires, JwtExpires, SweepAdhoc,
        Purge, SweepFails
<1>4. ASSUME NEW c \in Computer, BeatTouch(c), machines' = TouchOwned(conf[c]),
             machines'[i] # machines[i]
      PROVE  /\ machines'[i].token = machines[i].token
             /\ conf[c] = i /\ beat[c] = "touchMachine"
  <2>1. conf[c] \in Owned /\ machines' = [machines EXCEPT ![conf[c]] = Seen(@)]
    BY <1>4 DEF TouchOwned
  <2>2. conf[c] = i
    BY <1>4, <2>1 DEF TypeOK
  <2>3. machines'[i] = Seen(machines[i])
    BY <2>1, <2>2 DEF TypeOK
  <2>4. beat[c] = "touchMachine"
    BY <1>4 DEF BeatTouch
  <2> QED BY <1>1, <2>2, <2>3, <2>4 DEF Seen, MachineRow
<1>5. CASE machines' = [machines EXCEPT ![i] = Aged(@)]
  BY <1>1, <1>5 DEF Aged, MachineRow, TypeOK
<1>6. CASE SweepMachines
  BY <1>1, <1>6 DEF SweepMachines, MachineRow
<1> QED BY <1>2, <1>3, <1>4, <1>5, <1>6

\* A row of machines that was not there stands under an id drawn for it.
LEMMA NewMachineRow ==
    ASSUME TypeOK, [Next]_vars, NEW i \in Uuid, machines[i] = None, machines'[i] # None
    PROVE  i \notin drawn
<1> USE NoneAssumption, RowAssumption
<1>1. PICK j \in Uuid : /\ \/ \E c \in Computer : MakeRow(c, j)
                           \/ \E code \in Uuid : Claim(code, j)
                        /\ j = i
  <2>1. ASSUME NEW c \in Computer, NEW j \in Uuid, MakeRow(c, j) PROVE j = i
    BY <2>1 DEF MakeRow, TypeOK
  <2>2. ASSUME NEW code \in Uuid, NEW new \in Uuid, Claim(code, new) PROVE new = i
    BY <2>2 DEF Claim, ClaimRow, TypeOK
  <2>3. ASSUME NEW c \in Computer, BeatTouch(c) PROVE FALSE
    BY <2>3 DEF BeatTouch, TouchOwned, Owned, TypeOK
  <2>4. ASSUME NEW j \in Uuid, DeleteMachine(j) \/ LastSeenAges(j) PROVE FALSE
    BY <2>4 DEF DeleteMachine, LastSeenAges, Owned, TypeOK
  <2>5. CASE SweepMachines
    BY <2>5 DEF SweepMachines, Owned
  <2> QED
    BY <2>1, <2>2, <2>3, <2>4, <2>5
    DEF Next, AgentNext, RowNext, vars, agentVars, Start, Save, Crash, SendBeat,
        BeatMachines, BeatAdhoc, LoseBeat, FindByCode, Mint,
        ConnectFails, RowExpires, JwtExpires, SweepAdhoc,
        Purge, SweepFails
<1> QED BY <1>1 DEF MakeRow, Claim, ClaimRow

\* The id an agent names, or is told to, was drawn for a row of its own: a tenant's
\* machine that was made by a claim has another one.
Named ==
    \A c \in Computer : \A i \in {conf[c], reply[c]} \ {None} :
        i \in drawn /\ (machines[i] # None => machines[i].token = i)

LEMMA NamedStep == TypeOK /\ Provenance /\ Named /\ [Next]_vars => Named'
<1> SUFFICES ASSUME TypeOK, Provenance, Named, [Next]_vars,
                    NEW c \in Computer, NEW i \in {conf'[c], reply'[c]} \ {None}
             PROVE  i \in drawn' /\ (machines'[i] # None => machines'[i].token = i)
  BY DEF Named
<1> USE NoneAssumption, RowAssumption
<1>1. drawn \subseteq drawn'
  BY DEF Next, AgentNext, RowNext, vars, agentVars, Start, MakeRow, Save, Crash,
     SendBeat, BeatMachines, BeatAdhoc, BeatTouch, LoseBeat, FindByCode, Mint,
     ConnectFails, Claim, ClaimRow,
     DeleteMachine, LastSeenAges, RowExpires, JwtExpires, SweepMachines, SweepAdhoc,
     Purge, SweepFails
<1>2. CASE i \in Uuid /\ MakeRow(c, i)
  <2>1. machines[i] = None /\ i \in Uuid /\ i \in drawn'
    BY <1>2 DEF MakeRow, TypeOK, Provenance, RowsDrawn
  <2>2. machines'[i] # None => machines'[i] = EnrolledRow(i)
    BY <1>2, <2>1 DEF MakeRow, TypeOK
  <2> QED BY <2>1, <2>2 DEF EnrolledRow
<1>3. CASE i \in {conf[c], reply[c]}
  <2>1. i \in Uuid /\ i \in drawn /\ (machines[i] # None => machines[i].token = i)
    BY <1>3 DEF Named, TypeOK
  <2> QED BY <1>1, <2>1, MachineRowStep, NewMachineRow
<1>4. ASSUME i \notin {conf[c], reply[c]} PROVE i \in Uuid /\ MakeRow(c, i)
  <2>1. ASSUME NEW d \in Computer, Save(d) \/ Crash(d) PROVE FALSE
    BY <1>4, <2>1 DEF Save, Crash, TypeOK
  <2>2. PICK d \in Computer, j \in Uuid : MakeRow(d, j)
    BY <1>4, <2>1
    DEF Next, AgentNext, RowNext, vars, agentVars, Start, SendBeat, BeatMachines,
        BeatAdhoc, BeatTouch, LoseBeat, FindByCode, Mint,
        ConnectFails, Claim, ClaimRow, DeleteMachine,
        LastSeenAges, RowExpires, JwtExpires, SweepMachines, SweepAdhoc, Purge, SweepFails
  <2>3. d = c /\ j = i
    BY <1>4, <2>2 DEF MakeRow, TypeOK
  <2> QED BY <2>2, <2>3
<1> QED BY <1>2, <1>3, <1>4

\* A tenant's machine comes online by a heartbeat of its own agent only; one that
\* was claimed never does again, for any computers and rows (agent.rs:56-80).
THEOREM RevivedByOwnAgent == Spec => OnlyOwnAgentRevives
<1> DEFINE Revival == \A i \in Uuid :
        (Offline(i) /\ i \in Owned' /\ ~Offline(i)')
            => /\ machines[i].token = i
               /\ \E c \in Computer : conf[c] = i /\ beat[c] = "touchMachine"
<1>1. Init => Named
  BY DEF Init, Named
<1>2. TypeOK /\ Provenance /\ Named /\ [Next]_vars => [Revival]_vars
  <2> SUFFICES ASSUME TypeOK, Provenance, Named, [Next]_vars,
                      NEW i \in Uuid, Offline(i), i \in Owned', ~Offline(i)'
               PROVE  /\ machines[i].token = i
                      /\ \E c \in Computer : conf[c] = i /\ beat[c] = "touchMachine"
    OBVIOUS
  <2>1. /\ machines[i] # None /\ ~machines[i].online
        /\ machines'[i] # None /\ machines'[i].online
    BY DEF Offline, Owned
  <2>2. PICK c \in Computer : conf[c] = i /\ beat[c] = "touchMachine"
    BY <2>1, MachineRowStep
  <2>3. machines[i].token = i
    BY <2>1, <2>2, NoneAssumption DEF Named
  <2> QED BY <2>2, <2>3
<1> QED BY <1>1, <1>2, NamedStep, EnrollmentInvariant, PTL DEF Spec, OnlyOwnAgentRevives

=============================================================================
