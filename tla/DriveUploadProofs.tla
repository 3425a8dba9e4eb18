-------------------------- MODULE DriveUploadProofs --------------------------
(***************************************************************************)
(* What holds of a resumable upload to Drive for every size of the bag,    *)
(* every chunk size, any number of faults, stops and expired sessions and  *)
(* any sequence of configurations: chunks start where Drive is, a bag that *)
(* is done is a whole labelled file, there is one such file, and all of it *)
(* together is the one call that the worker takes it for.                  *)
(***************************************************************************)
EXTENDS DriveUpload, FiniteSetTheorems, SequenceTheorems, TLAPS

Stages  == {"down", "idle", "inspect", "open", "remember", "put", "complete", "label", "finish"}
Working == Stages \ {"down", "idle"}
Bound   == {"remember", "put", "complete", "label"}

RowType(ids) == [status : {"queued", "uploading", "done", "failed"}, retries : 0..MaxRetries,
                 digest : BOOLEAN, session : ids \cup {NoSession}]

-----------------------------------------------------------------------------
(* Types.                                                                  *)

\* A row at work can fail once more without leaving the bound on retries.
RowInv ==
  /\ row.status # "failed" => row.retries < MaxRetries
  /\ pc \in Working => row.status = "uploading"

\* How a step may change the row: the attempt ends, and the session URI stays or goes.
Ended ==
  /\ row' \in RowType(Ids)
  /\ row'.session = row.session \/ (row'.session = NoSession /\ forgotten')
  /\ row'.digest = row.digest
  /\ row'.status # "done"
  /\ RowInv'
  /\ pc' = "idle" /\ uri' = NoSession /\ uploaded' = 0

LEMMA ExitShape ==
  ASSUME TypeOK, RowInv, pc \in Working, Raise \/ Count \/ Expired
  PROVE  Ended
<1> DEFINE Verdict == IF row.retries + 1 >= MaxRetries THEN "failed" ELSE "queued"
           Row(status, retries, session) ==
             [status |-> status, retries |-> retries, digest |-> row.digest, session |-> session]
<1>1. /\ row \in RowType(Ids) /\ row.retries \in 0..MaxRetries /\ row.retries < MaxRetries
      /\ row.digest \in BOOLEAN /\ row.session \in Ids \cup {NoSession}
      /\ MaxRetries \in Nat \ {0}
  BY DriveAssumption DEF TypeOK, RowInv, RowType
<1>2. /\ \/ row' = Row("queued", row.retries, row.session)
         \/ row' = Row(Verdict, row.retries + 1, row.session)
         \/ row' = Row(Verdict, row.retries + 1, NoSession) /\ forgotten'
      /\ Rest
  BY <1>1 DEF Raise, Defer, Count, Expired, RowType
<1>3. /\ row'.status \in {"queued", "failed"}
      /\ row'.retries \in 0..MaxRetries /\ (row'.status = "queued" => row'.retries < MaxRetries)
      /\ row'.digest = row.digest /\ row'.session \in {row.session, NoSession}
  BY <1>1, <1>2
<1>4. row'.session = row.session \/ (row'.session = NoSession /\ forgotten')
  <2>1. CASE forgotten'
    BY <1>3, <2>1
  <2>2. CASE ~forgotten'
    BY <1>2, <2>2
  <2> QED
    BY <2>1, <2>2
<1>5. row' \in RowType(Ids)
  BY <1>1, <1>2, <1>3 DEF RowType
<1> QED
  BY <1>1, <1>2, <1>3, <1>4, <1>5 DEF Rest, Ended, RowInv, Working, Stages

LEMMA SpendType == ASSUME TypeOK, NEW h \in Hazards, Spend(h) PROVE spent' \in [Hazards -> Nat]
BY DEF TypeOK, Spend

\* Sessions are only ever added, and get further.
Grown ==
  /\ sessions' \in Seq(Sessions)
  /\ Ids \subseteq Ids'
  /\ \A s \in Ids : sessions[s].got <= sessions'[s].got

LEMMA SessionType ==
  ASSUME TypeOK
  PROVE  /\ Ids = 1..Len(sessions) /\ Len(sessions) \in Nat
         /\ \A s \in Ids : sessions[s] \in Sessions /\ sessions[s].got \in 0..Size
         /\ Size \in Nat
<1>1. sessions \in Seq(Sessions) /\ Size \in Nat
  BY DriveAssumption DEF TypeOK
<1>2. Ids = 1..Len(sessions) /\ Len(sessions) \in Nat
  BY <1>1 DEF Ids
<1>3. \A s \in 1..Len(sessions) : sessions[s] \in Sessions
  BY <1>1, ElementOfSeq
<1>4. \A x \in Sessions : x.got \in 0..Size
  BY DEF Sessions
<1> QED
  BY <1>1, <1>2, <1>3, <1>4

LEMMA SameSessions == ASSUME TypeOK, UNCHANGED sessions PROVE Grown
<1>1. \A s \in Ids : sessions[s].got \in Nat
  BY SessionType
<1> QED
  BY <1>1 DEF TypeOK, Grown, Ids

LEMMA StartedShape ==
  ASSUME TypeOK, sessions' = Started
  PROVE  /\ Grown
         /\ Len(sessions') \in Ids' /\ Ids' = Ids \cup {Len(sessions')} /\ Len(sessions') \notin Ids
         /\ \A s \in Ids : sessions'[s] = sessions[s]
         /\ sessions'[Len(sessions')] = [got |-> 0, labelled |-> row.digest, alive |-> TRUE]
<1>1. /\ [got |-> 0, labelled |-> row.digest, alive |-> TRUE] \in Sessions
      /\ sessions \in Seq(Sessions)
  BY DriveAssumption DEF TypeOK, Sessions
<1>2. /\ sessions' \in Seq(Sessions) /\ Len(sessions') = Len(sessions) + 1
      /\ \A s \in 1..Len(sessions) : sessions'[s] = sessions[s]
      /\ sessions'[Len(sessions) + 1] = [got |-> 0, labelled |-> row.digest, alive |-> TRUE]
  BY <1>1 DEF Started
<1>3. Ids = 1..Len(sessions) /\ Ids' = 1..Len(sessions') /\ Len(sessions) \in Nat
  BY <1>1, <1>2 DEF Ids
<1>4. \A s \in Ids : sessions[s].got \in Nat
  BY SessionType
<1> QED
  BY <1>2, <1>3, <1>4 DEF Grown

LEMMA ChangedShape ==
  ASSUME TypeOK, NEW s \in Ids, NEW x \in Sessions, x.got >= sessions[s].got,
         sessions' = [sessions EXCEPT ![s] = x]
  PROVE  /\ Grown /\ Ids' = Ids /\ sessions'[s] = x
         /\ \A t \in Ids : t # s => sessions'[t] = sessions[t]
<1>1. \A t \in Ids : sessions[t].got \in Nat
  BY SessionType
<1>2. sessions \in Seq(Sessions) /\ s \in 1..Len(sessions)
  BY SessionType DEF TypeOK
<1>3. /\ sessions' \in Seq(Sessions) /\ Len(sessions') = Len(sessions)
      /\ \A t \in 1..Len(sessions) : sessions'[t] = IF t = s THEN x ELSE sessions[t]
  BY <1>2, ExceptSeq
<1>4. Ids' = 1..Len(sessions') /\ Ids = 1..Len(sessions)
  BY <1>2, <1>3 DEF Ids
<1> QED
  BY <1>1, <1>2, <1>3, <1>4 DEF Grown

LEMMA ChunkBound == ASSUME TypeOK PROVE ChunkEnd \in 0..Size
<1>1. config.chunk \in Nat \ {0} /\ uploaded \in 0..Size /\ Size \in Nat
  BY DriveAssumption DEF TypeOK, Configs
<1> QED
  BY <1>1 DEF ChunkEnd

LEMMA StepType ==
  ASSUME TypeOK, RowInv, [Next]_vars
  PROVE  TypeOK' /\ RowInv' /\ Grown
<1> DEFINE Kept == UNCHANGED config /\ UNCHANGED careful
<1>t. /\ row \in RowType(Ids) /\ sessions \in Seq(Sessions) /\ config \in Configs /\ pc \in Stages
      /\ uri \in Ids \cup {NoSession} /\ (pc \in Bound => uri \in Ids) /\ uploaded \in 0..Size
      /\ {careful, forgotten} \subseteq BOOLEAN /\ spent \in [Hazards -> Nat]
  BY DEF TypeOK, RowType, Stages, Bound
<1>s. /\ \A h \in Hazards : Spend(h) => spent' \in [Hazards -> Nat]
      /\ Fault => spent' \in [Hazards -> Nat]
      /\ NoFault => spent' \in [Hazards -> Nat]
  BY <1>t, SpendType DEF Fault, NoFault, Hazards
<1>g. UNCHANGED sessions => Grown /\ Ids' = Ids
  BY SameSessions DEF Ids
<1>u. ASSUME row' \in RowType(Ids'), Grown, config' \in Configs, pc' \in Stages,
             uri' \in Ids' \cup {NoSession}, pc' \in Bound => uri' \in Ids', uploaded' \in 0..Size,
             {careful', forgotten'} \subseteq BOOLEAN, spent' \in [Hazards -> Nat], RowInv'
      PROVE  TypeOK' /\ RowInv' /\ Grown
  BY <1>u DEF TypeOK, RowType, Stages, Bound, Grown
<1>e. ASSUME Raise \/ Count \/ Expired, pc \in Working, Grown, Kept, forgotten' \in BOOLEAN,
             spent' \in [Hazards -> Nat]
      PROVE  TypeOK' /\ RowInv' /\ Grown
  <2>1. Ended
    BY <1>e, ExitShape
  <2>2. row' \in RowType(Ids')
    BY <1>e, <2>1 DEF Grown, Ended, RowType
  <2> QED
    BY <1>t, <1>e, <1>u, <2>1, <2>2, DriveAssumption DEF Ended, Stages, Bound, NoSession
<1>r. RowType(Ids) \subseteq RowType(Ids') \/ ~Grown
  BY DEF RowType, Grown
<1>1. CASE Claim
  <2>1. ASSUME NEW d \in BOOLEAN, row' = [row EXCEPT !.status = "uploading", !.digest = d],
               row.status = "queued", pc' = "inspect"
        PROVE  row' \in RowType(Ids) /\ RowInv'
    BY <1>t, <2>1 DEF RowType, RowInv, Working, Stages
  <2>2. (row.digest \/ config.verify) \in BOOLEAN
    OBVIOUS
  <2>3. /\ row' = [row EXCEPT !.status = "uploading", !.digest = row.digest \/ config.verify]
        /\ row.status = "queued" /\ pc' = "inspect" /\ uri' = row.session
        /\ UNCHANGED <<uploaded, sessions, forgotten, spent, config, careful>>
    BY <1>1 DEF Claim, Quiet
  <2>4. row' \in RowType(Ids) /\ RowInv'
    BY <2>1, <2>2, <2>3
  <2> QED
    BY <1>t, <1>g, <1>u, <2>3, <2>4 DEF RowType, Stages, Bound
<1>2. CASE Inspect
  <2>1. CASE Raise /\ Fault
    BY <1>2, <2>1, <1>t, <1>s, <1>g, <1>e DEF Inspect, Quiet, Working, Stages
  <2>2. CASE NoFault /\ UNCHANGED row /\ Goto(IF Duplicate THEN "finish" ELSE "open")
    <3>1. RowInv' /\ pc' \in {"finish", "open"} /\ UNCHANGED <<uri, uploaded>>
      BY <1>2, <2>2 DEF Inspect, Goto, RowInv, Working, Stages
    <3> QED
      BY <1>2, <1>t, <1>s, <1>g, <1>u, <2>2, <3>1 DEF Inspect, Quiet, Stages, Bound
  <2> QED
    BY <1>2, <2>1, <2>2 DEF Inspect
<1>3. CASE Resume
  <2>1. CASE (Expired /\ NoFault) \/ (Raise /\ Fault /\ UNCHANGED forgotten)
    BY <1>3, <2>1, <1>t, <1>s, <1>g, <1>e DEF Resume, Quiet, Working, Stages, Expired
  <2>2. CASE /\ uploaded' = UploadedFromRange(sessions[uri].got)
             /\ pc' = IF Known(uri) THEN "complete" ELSE "put"
             /\ NoFault /\ UNCHANGED <<row, uri, forgotten>>
    <3>1. /\ RowInv' /\ pc' \in {"put", "complete"}
          /\ uri \in Ids /\ uploaded' = sessions[uri].got
      BY <1>3, <1>t, <2>2 DEF Resume, RowInv, Working, Stages, UploadedFromRange
    <3>2. uploaded' \in 0..Size
      BY <3>1, SessionType
    <3> QED
      BY <1>3, <1>t, <1>s, <1>g, <1>u, <2>2, <3>1, <3>2 DEF Resume, Quiet, Stages, Bound
  <2> QED
    BY <1>3, <2>1, <2>2 DEF Resume
<1>4. CASE Post
  <2>0. sessions' = Started => Grown
    BY StartedShape
  <2>1. CASE Raise /\ Fault
    BY <1>4, <2>0, <2>1, <1>t, <1>s, <1>g, <1>e DEF Post, Quiet, Working, Stages
  <2>2. CASE sessions' = Started /\ pc' = "remember" /\ uri' = Len(sessions')
             /\ UNCHANGED <<row, uploaded>> /\ NoFault
    <3>1. RowInv'
      BY <1>4, <2>2 DEF Post, RowInv, Working, Stages
    <3>2. uri' \in Ids'
      BY <2>2, StartedShape
    <3> QED
      BY <1>4, <1>t, <1>r, <1>s, <1>u, <2>0, <2>2, <3>1, <3>2 DEF Post, Quiet, Stages
  <2> QED
    BY <1>4, <2>1, <2>2 DEF Post
<1>5. CASE Remember
  <2>1. CASE Count /\ Fault
    BY <1>5, <2>1, <1>t, <1>s, <1>g, <1>e DEF Remember, Quiet, Working, Stages
  <2>2. CASE row' = [row EXCEPT !.session = uri] /\ Goto("put") /\ NoFault
    <3>1. uri \in Ids /\ pc' = "put" /\ UNCHANGED <<uri, uploaded>>
      BY <1>5, <1>t, <2>2 DEF Remember, Goto, Bound
    <3>2. row' \in RowType(Ids) /\ RowInv'
      BY <1>5, <1>t, <2>2, <3>1 DEF Remember, RowInv, RowType, Working, Stages
    <3> QED
      BY <1>5, <1>t, <1>g, <1>s, <1>u, <2>2, <3>1, <3>2 DEF Remember, Quiet, Stages
  <2> QED
    BY <1>5, <2>1, <2>2 DEF Remember
<1>6. CASE Put
  <2>1. uri \in Ids /\ sessions[uri].got \in 0..Size /\ sessions[uri] \in Sessions /\ Size \in Nat
    BY <1>6, <1>t, SessionType DEF Put, Bound
  <2>2. CASE ~Open(uri)
    BY <1>6, <2>2, <1>t, <1>s, <1>g, <1>e DEF Put, Quiet, Working, Stages, Expired
  <2>3. ASSUME NEW n \in Accepted, sessions' = [sessions EXCEPT ![uri].got = n]
        PROVE  Grown /\ n \in 0..Size
    <3>1. n \in 0..Size /\ n >= sessions[uri].got
      BY <2>1, <2>3, ChunkBound DEF Accepted
    <3>2. [sessions[uri] EXCEPT !.got = n] \in Sessions /\ [sessions[uri] EXCEPT !.got = n].got = n
      BY <2>1, <3>1 DEF Sessions
    <3>3. sessions' = [sessions EXCEPT ![uri] = [sessions[uri] EXCEPT !.got = n]]
      BY <2>3
    <3> QED
      BY <2>1, <3>1, <3>2, <3>3, ChangedShape
  <2>4. ASSUME NEW n \in Accepted, sessions' = [sessions EXCEPT ![uri].got = n], UNCHANGED forgotten,
               Fault, Raise
        PROVE  TypeOK' /\ RowInv' /\ Grown
    BY <1>6, <2>3, <2>4, <1>t, <1>s, <1>e DEF Put, Quiet, Working, Stages
  <2>5. ASSUME NEW n \in Accepted, sessions' = [sessions EXCEPT ![uri].got = n], UNCHANGED forgotten,
               uploaded' = UploadedFromRange(n), pc' = IF n = Size THEN "label" ELSE "put",
               NoFault, UNCHANGED <<row, uri>>
        PROVE  TypeOK' /\ RowInv' /\ Grown
    <3>1. RowInv' /\ pc' \in {"label", "put"} /\ uploaded' \in 0..Size /\ Grown
      BY <1>6, <2>3, <2>5 DEF Put, RowInv, Working, Stages, UploadedFromRange
    <3>2. uri' \in Ids' /\ row' \in RowType(Ids')
      BY <2>1, <2>5, <3>1, <1>t, <1>r DEF Grown
    <3> QED
      BY <1>6, <2>5, <1>t, <1>s, <1>u, <3>1, <3>2 DEF Put, Quiet, Stages
  <2> QED
    BY <1>6, <2>2, <2>4, <2>5 DEF Put
<1>7. CASE Complete
  <2>1. CASE (Count /\ NoFault) \/ (Raise /\ Fault)
    BY <1>7, <2>1, <1>t, <1>s, <1>g, <1>e DEF Complete, Quiet, Working, Stages
  <2>2. CASE Goto("label") /\ NoFault /\ UNCHANGED row
    <3>1. RowInv' /\ pc' = "label" /\ UNCHANGED <<uri, uploaded>> /\ uri \in Ids
      BY <1>7, <2>2, <1>t DEF Complete, Goto, RowInv, Working, Stages, Bound
    <3> QED
      BY <1>7, <1>t, <1>s, <1>g, <1>u, <2>2, <3>1 DEF Complete, Quiet, Stages
  <2> QED
    BY <1>7, <2>1, <2>2 DEF Complete
<1>8. CASE Label
  <2>1. uri \in Ids /\ sessions[uri] \in Sessions /\ sessions[uri].got \in 0..Size /\ Size \in Nat
    BY <1>8, <1>t, SessionType DEF Label, Bound
  <2>2. Grown /\ Ids' = Ids
    <3>1. ASSUME NEW d \in BOOLEAN, sessions' = [sessions EXCEPT ![uri].labelled = d]
          PROVE  Grown /\ Ids' = Ids
      <4>1. /\ [sessions[uri] EXCEPT !.labelled = d] \in Sessions
            /\ [sessions[uri] EXCEPT !.labelled = d].got >= sessions[uri].got
        BY <2>1 DEF Sessions
      <4>2. sessions' = [sessions EXCEPT ![uri] = [sessions[uri] EXCEPT !.labelled = d]]
        BY <3>1
      <4> QED
        BY <2>1, <4>1, <4>2, ChangedShape
    <3>2. (row.digest \/ sessions[uri].labelled) \in BOOLEAN
      OBVIOUS
    <3>3. \/ sessions' = [sessions EXCEPT ![uri].labelled = row.digest \/ sessions[uri].labelled]
          \/ UNCHANGED sessions
      BY <1>8 DEF Label
    <3> QED
      BY <1>g, <3>1, <3>2, <3>3
  <2>3. CASE Raise /\ Fault
    BY <1>8, <2>2, <2>3, <1>t, <1>s, <1>e DEF Label, Quiet, Working, Stages
  <2>4. CASE Goto("finish") /\ NoFault /\ UNCHANGED row
    <3>1. RowInv' /\ pc' = "finish" /\ UNCHANGED <<uri, uploaded>>
      BY <1>8, <2>4, <1>t DEF Label, Goto, RowInv, Working, Stages
    <3> QED
      BY <1>8, <1>t, <1>s, <1>u, <2>2, <2>4, <3>1 DEF Label, Quiet, Stages, Bound
  <2> QED
    BY <1>8, <2>3, <2>4 DEF Label
<1>9. CASE Finish
  <2>1. CASE Count /\ Fault
    BY <1>9, <2>1, <1>t, <1>s, <1>g, <1>e DEF Finish, Quiet, Working, Stages
  <2>2. CASE row' = [row EXCEPT !.status = "done"] /\ Rest /\ NoFault
    <3>1. row' \in RowType(Ids) /\ RowInv' /\ pc' = "idle" /\ uri' = NoSession /\ uploaded' = 0
      BY <1>9, <1>t, <2>2 DEF Finish, Rest, RowInv, RowType, Working, Stages
    <3> QED
      BY <1>9, <1>t, <1>g, <1>s, <1>u, <2>2, <3>1, DriveAssumption DEF Finish, Quiet, Stages, Bound
  <2> QED
    BY <1>9, <2>1, <2>2 DEF Finish
<1>10. CASE \E s \in Ids : Expire(s)
  <2>1. PICK s \in Ids : Expire(s)
    BY <1>10
  <2>2. /\ [sessions[s] EXCEPT !.alive = FALSE] \in Sessions
        /\ [sessions[s] EXCEPT !.alive = FALSE].got >= sessions[s].got
    <3>1. sessions[s] \in Sessions /\ Size \in Nat
      BY SessionType
    <3>2. \A x \in Sessions : [x EXCEPT !.alive = FALSE] \in Sessions
      BY DEF Sessions
    <3>3. \A x \in Sessions : [x EXCEPT !.alive = FALSE].got = x.got /\ x.got \in 0..Size
      BY DEF Sessions
    <3> QED
      BY <3>1, <3>2, <3>3
  <2>3. sessions' = [sessions EXCEPT ![s] = [sessions[s] EXCEPT !.alive = FALSE]]
    BY <2>1 DEF Expire
  <2>4. Grown /\ Ids' = Ids
    BY <2>2, <2>3, ChangedShape
  <2> QED
    BY <1>t, <1>s, <1>u, <2>1, <2>4 DEF Expire, process, history, RowInv, Hazards
<1>11. CASE Stop
  <2>1. RowInv' /\ pc' = "down" /\ uri' = NoSession /\ uploaded' = 0
    BY <1>11 DEF Stop, RowInv, Working
  <2> QED
    BY <1>11, <1>t, <1>g, <1>s, <1>u, <2>1, DriveAssumption DEF Stop, history, Stages, Bound, Hazards
<1>12. CASE Start
  <2>1. row' \in RowType(Ids) /\ RowInv'
    <3>1. row.status \in {"queued", "uploading", "done", "failed"} /\ 0 \in 0..MaxRetries
          /\ 0 < MaxRetries /\ pc' = "idle"
      BY <1>12, <1>t, DriveAssumption DEF Start, Rest, RowType
    <3>2. CASE row' = [row EXCEPT !.status = "queued", !.retries = 0, !.session = NoSession]
      BY <1>t, <3>1, <3>2 DEF RowInv, RowType, Working
    <3>3. CASE row' = [row EXCEPT !.status = IF @ = "uploading" THEN "queued" ELSE @]
      BY <1>t, <3>1, <3>3 DEF RowInv, RowType, Working
    <3> QED
      BY <1>12, <3>2, <3>3 DEF Start
  <2>2. /\ pc' = "idle" /\ uri' = NoSession /\ uploaded' = 0 /\ config' \in Configs
        /\ UNCHANGED <<sessions, spent>>
    BY <1>12 DEF Start, Rest
  <2>3. {careful', forgotten'} \subseteq BOOLEAN
    BY <1>12, <1>t DEF Start
  <2> QED
    BY <1>t, <1>g, <1>u, <2>1, <2>2, <2>3, DriveAssumption DEF Stages, Bound
<1>13. CASE UNCHANGED vars
  BY <1>13, <1>t, <1>g, <1>u DEF vars, process, history, RowInv
<1> QED
  BY <1>1, <1>2, <1>3, <1>4, <1>5, <1>6, <1>7, <1>8, <1>9, <1>10, <1>11, <1>12, <1>13
  DEF Next, Upload

LEMMA InitType == Init => TypeOK /\ RowInv
<1> SUFFICES ASSUME Init PROVE TypeOK /\ RowInv
  OBVIOUS
<1>1. sessions \in Seq(Sessions) /\ Ids = {} /\ spent \in [Hazards -> Nat]
  BY DEF Init, Ids
<1>2. 0 \in 0..MaxRetries /\ 0 < MaxRetries /\ 0 \in 0..Size
  BY DriveAssumption
<1>3. row \in RowType(Ids) /\ RowInv
  BY <1>2 DEF Init, RowType, RowInv, Working
<1>4. config \in Configs /\ {careful, forgotten} \subseteq BOOLEAN
  BY DEF Init, Configs
<1> QED
  BY <1>1, <1>2, <1>3, <1>4 DEF Init, TypeOK, RowType, NoSession

\* No call of a worker, no answer of Drive and no restart takes a variable out of its
\* type: the retries stay within max_retries (UploadQueue.mark_failed), the offset
\* within the bag (GoogleDriveBackend.upload).
THEOREM TypeCorrect == Spec => []TypeOK
<1>1. Init => TypeOK /\ RowInv
  BY InitType
<1>2. TypeOK /\ RowInv /\ [Next]_vars => TypeOK' /\ RowInv'
  BY StepType
<1> QED
  BY <1>1, <1>2, PTL DEF Spec

-----------------------------------------------------------------------------
(* What a step does to the sessions on Drive.                              *)

\* Only the session at hand gets further, by a chunk; labels stay; a new session is
\* empty and bears the digest of the row.
SessionFrame ==
  /\ \A s \in Ids :
       /\ s \in Ids'
       /\ sessions[s].labelled => sessions'[s].labelled
       /\ \/ sessions'[s].got = sessions[s].got
          \/ pc = "put" /\ s = uri /\ sessions[s].got # Size
  /\ \A s \in Ids' \ Ids :
       pc = "open" /\ sessions'[s].got = 0 /\ sessions'[s].labelled = row.digest

LEMMA StepFrame == ASSUME TypeOK, [Next]_vars PROVE SessionFrame
<1>0. UNCHANGED sessions => SessionFrame
  BY DEF SessionFrame, Ids
<1>1. CASE Claim \/ Inspect \/ Resume \/ Remember \/ Complete \/ Finish \/ Stop \/ Start \/ UNCHANGED vars
  BY <1>0, <1>1 DEF Claim, Inspect, Resume, Remember, Complete, Finish, Stop, Start, vars
<1>2. CASE Post
  <2>1. CASE sessions' = Started
    BY <1>2, <2>1, StartedShape DEF Post, SessionFrame
  <2> QED
    BY <1>0, <1>2, <2>1 DEF Post
<1>3. CASE Put
  <2>1. uri \in Ids /\ pc = "put" /\ sessions[uri] \in Sessions /\ Ids = 1..Len(sessions)
    BY <1>3, SessionType DEF Put, TypeOK
  <2>2. ASSUME NEW n, Open(uri), sessions' = [sessions EXCEPT ![uri].got = n] PROVE SessionFrame
    <3>1. /\ Ids' = Ids /\ sessions'[uri].labelled = sessions[uri].labelled
          /\ \A t \in Ids : t # uri => sessions'[t] = sessions[t]
      BY <2>1, <2>2 DEF Ids, Sessions
    <3>2. sessions[uri].labelled => sessions'[uri].labelled
      BY <3>1
    <3>3. sessions[uri].got # Size
      BY <2>1, <2>2, SessionType DEF Open
    <3> QED
      BY <2>1, <3>1, <3>2, <3>3 DEF SessionFrame
  <2> QED
    BY <1>0, <1>3, <2>2 DEF Put
<1>4. CASE Label
  <2>1. uri \in Ids /\ sessions[uri] \in Sessions
    BY <1>4, SessionType DEF Label, TypeOK
  <2>2. CASE sessions' = [sessions EXCEPT ![uri].labelled = row.digest \/ @]
    <3>1. ASSUME NEW d \in BOOLEAN, sessions' = [sessions EXCEPT ![uri].labelled = d]
          PROVE  /\ Ids' = Ids /\ sessions'[uri].got = sessions[uri].got /\ sessions'[uri].labelled = d
                 /\ \A t \in Ids : t # uri => sessions'[t] = sessions[t]
      BY <2>1, <3>1 DEF Ids, Sessions
    <3>2. (row.digest \/ sessions[uri].labelled) \in BOOLEAN
      OBVIOUS
    <3>3. /\ Ids' = Ids /\ sessions'[uri].got = sessions[uri].got
          /\ sessions'[uri].labelled = (row.digest \/ sessions[uri].labelled)
          /\ \A t \in Ids : t # uri => sessions'[t] = sessions[t]
      BY <2>2, <3>1, <3>2
    <3>4. sessions[uri].labelled => sessions'[uri].labelled
      BY <3>3
    <3> QED
      BY <3>3, <3>4 DEF SessionFrame
  <2> QED
    BY <1>0, <1>4, <2>2 DEF Label
<1>5. CASE \E s \in Ids : Expire(s)
  <2>1. PICK s \in Ids : sessions' = [sessions EXCEPT ![s].alive = FALSE]
    BY <1>5 DEF Expire
  <2>2. sessions[s] \in Sessions
    BY SessionType
  <2>3. /\ Ids' = Ids /\ sessions'[s].got = sessions[s].got
        /\ sessions'[s].labelled = sessions[s].labelled
        /\ \A t \in Ids : t # s => sessions'[t] = sessions[t]
    BY <2>1, <2>2 DEF Ids, Sessions
  <2> QED
    BY <2>3 DEF SessionFrame
<1> QED
  BY <1>1, <1>2, <1>3, <1>4, <1>5 DEF Next, Upload

LEMMA FilesStay == ASSUME TypeOK, SessionFrame PROVE Files \subseteq Files'
BY DEF SessionFrame, Files

-----------------------------------------------------------------------------
(* Where the chunks start, and what a finished bag has on Drive.           *)

Filed == \E s \in Files : row.digest => sessions[s].labelled

LEMMA FiledStays == ASSUME TypeOK, SessionFrame, Filed, row'.digest = row.digest PROVE Filed'
<1>1. PICK s \in Files : row.digest => sessions[s].labelled
  BY DEF Filed
<1>2. s \in Files' /\ (row'.digest => sessions'[s].labelled)
  BY <1>1, FilesStay DEF SessionFrame, Files
<1> QED
  BY <1>2 DEF Filed

\* ResumesExactly and DoneIsFiled with what makes them inductive: a fresh session is
\* empty when the loop begins, and the loop ends with a file.
FileInv ==
  /\ pc \in {"down", "idle", "inspect", "open", "remember"} => uploaded = 0
  /\ pc = "remember" => sessions[uri].got = 0
  /\ ResumesExactly
  /\ pc = "label" => uri \in Files
  /\ pc = "finish" => Filed
  /\ DoneIsFiled

LEMMA StepFile ==
  ASSUME TypeOK, RowInv, FileInv, [Next]_vars
  PROVE  FileInv'
<1>f. SessionFrame /\ Grown /\ TypeOK'
  BY StepFrame, StepType
<1>k. (row.status = "done" => Filed) /\ (pc = "finish" => Filed)
  BY DEF FileInv, DoneIsFiled, Filed
<1>d. Filed' => DoneIsFiled'
  BY DEF DoneIsFiled, Filed
<1>e. ASSUME pc \in Working, Raise \/ Count \/ Expired PROVE FileInv'
  <2>1. Ended
    BY <1>e, ExitShape
  <2> QED
    BY <2>1 DEF Ended, FileInv, ResumesExactly, DoneIsFiled
<1>w. pc \in Working => row.status = "uploading"
  BY DEF RowInv
<1>1. CASE Claim
  BY <1>1 DEF Claim, FileInv, ResumesExactly, DoneIsFiled
<1>2. CASE Inspect
  <2>1. CASE UNCHANGED row /\ Goto(IF Duplicate THEN "finish" ELSE "open")
    <3>1. UNCHANGED sessions /\ pc = "inspect" /\ row'.status # "done" /\ uploaded' = 0
      BY <1>2, <1>w, <2>1 DEF Inspect, Goto, Working, Stages, FileInv
    <3>2. Duplicate => Filed
      BY DEF Duplicate, Filed
    <3>3. pc' \in {"finish", "open"} /\ (pc' = "finish" => Filed')
      BY <2>1, <3>1, <3>2, <1>f, FiledStays DEF Goto
    <3> QED
      BY <3>1, <3>3 DEF FileInv, ResumesExactly, DoneIsFiled
  <2> QED
    BY <1>2, <1>e, <2>1 DEF Inspect, Working, Stages
<1>3. CASE Resume
  <2>1. CASE /\ uploaded' = UploadedFromRange(sessions[uri].got)
             /\ pc' = IF Known(uri) THEN "complete" ELSE "put"
             /\ UNCHANGED <<row, uri>>
    BY <1>3, <1>w, <2>1 DEF Resume, FileInv, ResumesExactly, DoneIsFiled, UploadedFromRange, Working, Stages
  <2> QED
    BY <1>3, <1>e, <2>1 DEF Resume, Working, Stages
<1>4. CASE Post
  <2>1. CASE sessions' = Started /\ pc' = "remember" /\ uri' = Len(sessions') /\ UNCHANGED <<row, uploaded>>
    <3>1. sessions'[uri'].got = 0 /\ uploaded' = 0 /\ row'.status # "done"
      BY <1>4, <1>w, <2>1, StartedShape DEF Post, FileInv, Working, Stages
    <3> QED
      BY <2>1, <3>1 DEF FileInv, ResumesExactly, DoneIsFiled
  <2> QED
    BY <1>4, <1>e, <2>1 DEF Post, Working, Stages
<1>5. CASE Remember
  <2>1. CASE row' = [row EXCEPT !.session = uri] /\ Goto("put")
    <3>1. row'.status = row.status /\ row.status # "done" /\ pc = "remember" /\ UNCHANGED <<sessions, uri, uploaded>>
      BY <1>5, <1>w, <2>1 DEF Remember, Goto, Working, Stages, TypeOK
    <3> QED
      BY <2>1, <3>1 DEF Goto, FileInv, ResumesExactly, DoneIsFiled
  <2> QED
    BY <1>5, <1>e, <2>1 DEF Remember, Working, Stages
<1>6. CASE Put
  <2>1. CASE ~Open(uri)
    BY <1>6, <1>e, <2>1 DEF Put, Working, Stages
  <2>2. ASSUME NEW n \in Accepted, sessions' = [sessions EXCEPT ![uri].got = n],
               uploaded' = UploadedFromRange(n), pc' = IF n = Size THEN "label" ELSE "put",
               UNCHANGED <<row, uri>>
        PROVE  FileInv'
    <3>1. uri \in Ids /\ sessions[uri] \in Sessions /\ row.status # "done"
      BY <1>6, <1>w, SessionType DEF Put, TypeOK, Working, Stages
    <3>2. Ids' = Ids /\ sessions'[uri].got = n
      BY <2>2, <3>1 DEF Ids, Sessions
    <3>3. n = Size => uri' \in Files'
      BY <2>2, <3>1, <3>2 DEF Files
    <3> QED
      BY <2>2, <3>1, <3>2, <3>3 DEF FileInv, ResumesExactly, DoneIsFiled, UploadedFromRange
  <2> QED
    BY <1>6, <1>e, <2>1, <2>2 DEF Put, Working, Stages
<1>7. CASE Complete
  <2>1. CASE Known(uri) /\ Goto("label") /\ UNCHANGED row
    <3>1. uri \in Files /\ UNCHANGED <<sessions, uri>> /\ row.status # "done"
      BY <1>7, <1>w, <2>1 DEF Complete, Known, Files, Goto, TypeOK, Working, Stages
    <3>2. uri' \in Files'
      BY <3>1 DEF Files, Ids
    <3> QED
      BY <2>1, <3>1, <3>2 DEF Goto, FileInv, ResumesExactly, DoneIsFiled
  <2> QED
    BY <1>7, <1>e, <2>1 DEF Complete, Working, Stages
<1>8. CASE Label
  <2>1. CASE sessions' = [sessions EXCEPT ![uri].labelled = row.digest \/ @] /\ Goto("finish") /\ UNCHANGED row
    <3>1. uri \in Files /\ uri \in Ids /\ sessions[uri] \in Sessions /\ row.status # "done"
      BY <1>8, <1>w, SessionType DEF Label, FileInv, TypeOK, Working, Stages
    <3>2. row.digest => sessions'[uri].labelled
      BY <2>1, <3>1 DEF Ids, Sessions
    <3>3. uri \in Files'
      BY <3>1, <1>f, FilesStay
    <3>4. Filed'
      BY <2>1, <3>2, <3>3 DEF Filed
    <3> QED
      BY <2>1, <3>1, <3>4 DEF Goto, FileInv, ResumesExactly, DoneIsFiled
  <2> QED
    BY <1>8, <1>e, <2>1 DEF Label, Working, Stages
<1>9. CASE Finish
  <2>1. CASE row' = [row EXCEPT !.status = "done"] /\ Rest
    <3>1. Filed'
      BY <1>9, <1>f, <1>k, <2>1, FiledStays DEF Finish, TypeOK
    <3> QED
      BY <1>d, <2>1, <3>1 DEF Rest, FileInv, ResumesExactly
  <2> QED
    BY <1>9, <1>e, <2>1 DEF Finish, Working, Stages
<1>10. CASE Stop \/ Start
  <2>1. row'.digest = row.digest /\ (row'.status = "done" => row.status = "done")
    BY <1>10 DEF Stop, Start, TypeOK
  <2>2. row.status = "done" => DoneIsFiled'
    BY <1>d, <1>f, <1>k, <2>1, FiledStays
  <2>3. pc' \in {"down", "idle"} /\ uploaded' = 0
    BY <1>10 DEF Stop, Start, Rest
  <2> QED
    BY <2>1, <2>2, <2>3 DEF FileInv, ResumesExactly, DoneIsFiled
<1>11. CASE \E s \in Ids : Expire(s)
  <2>1. Ids' = Ids /\ \A t \in Ids : sessions'[t].got = sessions[t].got
    BY <1>11, SessionType DEF Expire, Ids, Sessions
  <2>2. UNCHANGED <<row, pc, uri, uploaded>>
    BY <1>11 DEF Expire, process
  <2>3. Filed => Filed'
    BY <1>f, <2>2, FiledStays
  <2>4. DoneIsFiled' /\ (pc' = "finish" => Filed')
    BY <1>d, <1>k, <2>2, <2>3 DEF DoneIsFiled
  <2>5. pc \in {"remember", "put", "label"} => uri \in Ids /\ sessions'[uri].got = sessions[uri].got
    BY <2>1 DEF TypeOK
  <2>6. pc = "label" => uri \in Files'
    BY <2>1, <2>5 DEF FileInv, Files
  <2> QED
    BY <2>2, <2>4, <2>5, <2>6 DEF FileInv, ResumesExactly
<1>12. CASE UNCHANGED vars
  BY <1>12 DEF vars, process, FileInv, ResumesExactly, DoneIsFiled, Files, Ids, Filed
<1> QED
  BY <1>1, <1>2, <1>3, <1>4, <1>5, <1>6, <1>7, <1>8, <1>9, <1>10, <1>11, <1>12 DEF Next, Upload

LEMMA InitFile == Init => FileInv
BY DEF Init, FileInv, ResumesExactly, DoneIsFiled

\* The next chunk starts at the first byte Drive does not have, whatever chunk sizes the
\* processes before this one used and wherever they were stopped (upload(), gdrive.py:317).
THEOREM ChunksMeet == Spec => []ResumesExactly
<1>1. Init => TypeOK /\ RowInv /\ FileInv
  BY InitType, InitFile
<1>2. TypeOK /\ RowInv /\ FileInv /\ [Next]_vars => TypeOK' /\ RowInv' /\ FileInv'
  BY StepType, StepFile
<1>3. FileInv => ResumesExactly
  BY DEF FileInv
<1> QED
  BY <1>1, <1>2, <1>3, PTL DEF Spec

\* A bag the queue calls done is a whole file on Drive, with the digest the row carries,
\* whichever of the processes started its session (_ensure_uploaded_metadata).
THEOREM DoneFiled == Spec => []DoneIsFiled
<1>1. Init => TypeOK /\ RowInv /\ FileInv
  BY InitType, InitFile
<1>2. TypeOK /\ RowInv /\ FileInv /\ [Next]_vars => TypeOK' /\ RowInv' /\ FileInv'
  BY StepType, StepFile
<1>3. FileInv => DoneIsFiled
  BY DEF FileInv
<1> QED
  BY <1>1, <1>2, <1>3, PTL DEF Spec

-----------------------------------------------------------------------------
(* One file.                                                               *)

\* As long as the queue has dropped no URI, only the session it remembers has bytes.
Remembered ==
  ~forgotten =>
    /\ \A s \in Ids : sessions[s].got # 0 => s = row.session
    /\ pc \in {"inspect", "open", "put", "complete", "label"} => uri = row.session
    /\ pc = "remember" => row.session = NoSession

\* As long as every process verifies and deduplicates, all sessions are labelled, and
\* nothing is uploaded once there is a file.
Looked ==
  careful =>
    /\ config.verify /\ config.dedup
    /\ pc \in Working => row.digest
    /\ \A s \in Ids : sessions[s].labelled
    /\ pc \in {"open", "remember", "put", "complete"} => Files = {}
    /\ \A s, t \in Files : s = t

LEMMA StepRemembered ==
  ASSUME TypeOK, RowInv, Remembered, [Next]_vars
  PROVE  Remembered'
<1>f. SessionFrame
  BY StepFrame
<1> SUFFICES ASSUME ~forgotten'
             PROVE  /\ \A s \in Ids' : sessions'[s].got # 0 => s = row'.session
                    /\ pc' \in {"inspect", "open", "put", "complete", "label"} => uri' = row'.session
                    /\ pc' = "remember" => row'.session = NoSession
  BY DEF Remembered
<1>e. ASSUME pc \in Working, Raise \/ Count \/ Expired
      PROVE  row'.session = row.session /\ pc' = "idle"
  BY <1>e, ExitShape DEF Ended
<1>r. ~forgotten
  <2>1. CASE Claim \/ Inspect \/ Post \/ Remember \/ Complete \/ Label \/ Finish
    BY <2>1 DEF Claim, Inspect, Post, Remember, Complete, Label, Finish
  <2>2. CASE Resume
    BY <2>2 DEF Resume, Expired
  <2>3. CASE Put
    BY <2>3 DEF Put, Expired
  <2>4. CASE Stop \/ Start \/ \E s \in Ids : Expire(s)
    BY <2>4 DEF Stop, Start, Expire, history
  <2>5. CASE UNCHANGED vars
    BY <2>5 DEF vars, history
  <2> QED
    BY <2>1, <2>2, <2>3, <2>4, <2>5 DEF Next, Upload
<1>q. \A s \in Ids : sessions[s].got # 0 => s = row.session
  BY <1>r DEF Remembered
<1>s. ASSUME row'.session = row.session
      PROVE  \/ \A s \in Ids' : sessions'[s].got # 0 => s = row'.session
             \/ pc = "put"
  <2>1. ASSUME pc # "put", NEW s \in Ids', sessions'[s].got # 0 PROVE s = row.session
    <3>1. s \in Ids
      BY <1>f, <2>1 DEF SessionFrame
    <3>2. sessions[s].got # 0
      BY <1>f, <2>1, <3>1 DEF SessionFrame
    <3> QED
      BY <1>q, <3>1, <3>2
  <2> QED
    BY <1>s, <2>1
<1>n. row.session \notin Ids => \A s \in Ids : sessions[s].got = 0
  BY <1>q
<1>1. CASE Claim
  BY <1>1, <1>s DEF Claim, TypeOK
<1>2. CASE Inspect
  <2>1. CASE UNCHANGED <<row, uri>> /\ pc' \in {"finish", "open"}
    BY <1>2, <1>s, <1>r, <2>1 DEF Inspect, Remembered
  <2> QED
    BY <1>2, <1>e, <1>s, <2>1 DEF Inspect, Working, Stages, Goto
<1>3. CASE Resume
  <2>1. CASE UNCHANGED row /\ UNCHANGED uri
    BY <1>3, <1>s, <1>r, <2>1 DEF Resume, Remembered, Expired, Raise, Defer, Count, Rest
  <2> QED
    BY <1>3, <1>e, <1>s, <2>1 DEF Resume, Working, Stages
<1>4. CASE Post
  <2>1. row.session = NoSession
    BY <1>4, <1>r DEF Post, Remembered
  <2>2. CASE UNCHANGED row /\ pc' = "remember"
    BY <1>4, <1>s, <2>1, <2>2 DEF Post
  <2> QED
    BY <1>4, <1>e, <1>s, <2>2 DEF Post, Working, Stages
<1>5. CASE Remember
  <2>1. CASE row' = [row EXCEPT !.session = uri] /\ Goto("put")
    <3>1. row'.session = uri /\ UNCHANGED <<uri, sessions>> /\ pc' = "put"
      BY <1>5, <2>1 DEF Remember, Goto, TypeOK
    <3>2. \A s \in Ids : sessions[s].got = 0
      BY <1>5, <1>r, <1>n DEF Remember, Remembered, TypeOK, Ids, NoSession
    <3> QED
      BY <3>1, <3>2 DEF Ids
  <2> QED
    BY <1>5, <1>e, <1>s, <2>1 DEF Remember, Working, Stages
<1>6. CASE Put
  <2>1. pc = "put" /\ uri = row.session
    BY <1>6, <1>r DEF Put, Remembered
  <2>2. \A s \in Ids' : sessions'[s].got # 0 => s = row.session
    BY <1>f, <1>q, <2>1 DEF SessionFrame
  <2>3. CASE UNCHANGED <<row, uri>>
    BY <2>1, <2>2, <2>3, <1>6 DEF Put, Raise, Defer, Count, Expired, Rest
  <2>4. CASE Raise \/ Expired
    BY <2>1, <2>2, <2>4, <1>e DEF Working, Stages
  <2> QED
    BY <1>6, <2>3, <2>4 DEF Put
<1>7. CASE Complete
  BY <1>7, <1>e, <1>s, <1>r DEF Complete, Working, Stages, Goto, Remembered
<1>8. CASE Label
  BY <1>8, <1>e, <1>s, <1>r DEF Label, Working, Stages, Goto, Remembered
<1>9. CASE Finish
  BY <1>9, <1>e, <1>s DEF Finish, Rest, Working, Stages, TypeOK
<1>10. CASE Stop \/ Start
  <2>1. row'.session = row.session /\ pc' \in {"down", "idle"}
    BY <1>10 DEF Stop, Start, Rest, TypeOK
  <2> QED
    BY <1>10, <1>s, <1>q, <2>1 DEF Stop, Start, Rest, Ids
<1>11. CASE \E s \in Ids : Expire(s)
  <2>1. Ids' = Ids /\ \A t \in Ids : sessions'[t].got = sessions[t].got
    BY <1>11, SessionType DEF Expire, Ids, Sessions
  <2> QED
    BY <1>11, <1>q, <1>r, <2>1 DEF Expire, process, Remembered
<1>12. CASE UNCHANGED vars
  BY <1>12, <1>q, <1>r DEF vars, process, Remembered, Ids
<1> QED
  BY <1>1, <1>2, <1>3, <1>4, <1>5, <1>6, <1>7, <1>8, <1>9, <1>10, <1>11, <1>12 DEF Next, Upload

LEMMA StepLooked ==
  ASSUME TypeOK, RowInv, FileInv, Looked, [Next]_vars
  PROVE  Looked'
<1>f. SessionFrame
  BY StepFrame
<1> SUFFICES ASSUME careful'
             PROVE  /\ config'.verify /\ config'.dedup
                    /\ pc' \in Working => row'.digest
                    /\ \A s \in Ids' : sessions'[s].labelled
                    /\ pc' \in {"open", "remember", "put", "complete"} => Files' = {}
                    /\ \A s, t \in Files' : s = t
  BY DEF Looked
<1>q. \/ UNCHANGED <<config, careful>>
      \/ Start
  BY DEF Next, Upload, Claim, Inspect, Resume, Post, Remember, Put, Complete, Label, Finish, Quiet,
         Expire, Stop, vars, history
<1>c. careful /\ config'.verify /\ config'.dedup
  BY <1>q DEF Looked, Start
<1>h. /\ config.verify /\ config.dedup
      /\ pc \in Working => row.digest
      /\ \A s \in Ids : sessions[s].labelled
      /\ pc \in {"open", "remember", "put", "complete"} => Files = {}
      /\ \A s, t \in Files : s = t
  BY <1>c DEF Looked
<1>l. \A s \in Ids' : sessions'[s].labelled
  BY <1>f, <1>h DEF SessionFrame, Working, Stages
<1>s. \/ Files' = Files
      \/ pc = "put" /\ uri \in Ids /\ Files' \subseteq {uri}
  <2>1. CASE pc # "put"
    BY <1>f, <2>1, DriveAssumption DEF SessionFrame, Files
  <2>2. CASE pc = "put"
    <3>1. Files = {} /\ uri \in Ids
      BY <1>h, <2>2 DEF TypeOK
    <3>2. ASSUME NEW s \in Files', s # uri PROVE FALSE
      BY <1>f, <2>2, <3>1, <3>2 DEF SessionFrame, Files
    <3> QED
      BY <2>2, <3>1, <3>2
  <2> QED
    BY <2>1, <2>2
<1>p. \A s, t \in Files' : s = t
  BY <1>h, <1>s
<1>u. ASSUME pc' \in Working => row'.digest,
             pc' \in {"open", "remember", "put", "complete"} => Files' = {}
      PROVE  /\ config'.verify /\ config'.dedup
             /\ pc' \in Working => row'.digest
             /\ \A s \in Ids' : sessions'[s].labelled
             /\ pc' \in {"open", "remember", "put", "complete"} => Files' = {}
             /\ \A s, t \in Files' : s = t
  BY <1>c, <1>l, <1>p, <1>u
<1>e. ASSUME pc \in Working, Raise \/ Count \/ Expired PROVE pc' = "idle"
  BY <1>e, ExitShape DEF Ended
<1>1. CASE Claim
  BY <1>1, <1>u, <1>h DEF Claim, TypeOK
<1>2. CASE Inspect
  <2>1. pc' \in {"open", "remember", "put", "complete"} => Files = {}
    BY <1>2, <1>e, <1>h DEF Inspect, Duplicate, Goto, Working, Stages, Files
  <2>2. pc' \in Working => row' = row
    BY <1>2, <1>e DEF Inspect, Working, Stages
  <2>3. UNCHANGED sessions /\ pc = "inspect"
    BY <1>2 DEF Inspect
  <2> QED
    BY <1>u, <1>h, <2>1, <2>2, <2>3 DEF Files, Ids, Working, Stages
<1>3. CASE Resume \/ Post \/ Remember
  <2>1. pc \in {"open", "remember"} /\ Files' = {}
    BY <1>3, <1>h, <1>s DEF Resume, Post, Remember
  <2>2. pc' \in Working => row'.digest = row.digest
    BY <1>3, <1>e, <2>1 DEF Resume, Post, Remember, Working, Stages, TypeOK
  <2> QED
    BY <1>h, <1>u, <2>1, <2>2 DEF Working, Stages
<1>6. CASE Put
  <2>1. pc = "put" /\ Files = {} /\ row.digest /\ uri \in Ids
    BY <1>6, <1>h DEF Put, TypeOK, Working, Stages
  <2>2. ASSUME NEW n \in Accepted, sessions' = [sessions EXCEPT ![uri].got = n],
               pc' = IF n = Size THEN "label" ELSE "put", UNCHANGED row
        PROVE  /\ pc' \in Working => row'.digest
               /\ pc' \in {"open", "remember", "put", "complete"} => Files' = {}
    <3>1. n # Size => uri \notin Files'
      BY <2>1, <2>2 DEF Files, Ids
    <3> QED
      BY <1>s, <2>1, <2>2, <3>1
  <2>3. \/ pc' \in Working => row'.digest
        \/ Raise \/ Expired
    BY <1>6, <2>2 DEF Put
  <2>4. \/ pc' \in {"open", "remember", "put", "complete"} => Files' = {}
        \/ Raise \/ Expired
    BY <1>6, <2>2 DEF Put
  <2> QED
    BY <1>e, <1>u, <2>1, <2>3, <2>4 DEF Working, Stages
<1>7. CASE Complete
  <2>1. pc = "complete" /\ Files = {} /\ ~Known(uri)
    BY <1>7, <1>h DEF Complete, TypeOK, Known, Files
  <2> QED
    BY <1>7, <1>e, <1>u, <2>1 DEF Complete, Working, Stages
<1>8. CASE Label
  <2>1. CASE pc' = "finish" /\ UNCHANGED row
    BY <1>8, <1>h, <1>u, <2>1 DEF Label, Working, Stages
  <2> QED
    BY <1>8, <1>e, <1>u, <2>1 DEF Label, Goto, Working, Stages
<1>9. CASE Finish
  BY <1>9, <1>e, <1>u DEF Finish, Rest, Working, Stages
<1>10. CASE Stop \/ Start
  BY <1>10, <1>u DEF Stop, Start, Rest, Working, Stages
<1>11. CASE \E s \in Ids : Expire(s)
  <2>1. Files' = Files
    <3>1. Ids' = Ids /\ \A t \in Ids : sessions'[t].got = sessions[t].got
      BY <1>11, SessionType DEF Expire, Ids, Sessions
    <3> QED
      BY <3>1 DEF Files
  <2> QED
    BY <1>11, <1>h, <1>u, <2>1 DEF Expire, process
<1>12. CASE UNCHANGED vars
  BY <1>12, <1>h, <1>u DEF vars, process, Files, Ids
<1> QED
  BY <1>1, <1>2, <1>3, <1>6, <1>7, <1>8, <1>9, <1>10, <1>11, <1>12 DEF Next, Upload

LEMMA InitOne == Init => Remembered /\ Looked
<1> SUFFICES ASSUME Init PROVE Remembered /\ Looked
  OBVIOUS
<1>1. Ids = {}
  BY DEF Init, Ids
<1> QED
  BY <1>1 DEF Init, Remembered, Looked, Files, Working, Stages

\* At most one file carries the bag while the queue remembers its session, or while all
\* processes verified and deduplicated: a retry finishes what is there (gdrive.py:300).
THEOREM SingleFile == Spec => []OneFile
<1>1. Init => TypeOK /\ RowInv /\ FileInv /\ Remembered /\ Looked
  BY InitType, InitFile, InitOne
<1>2. TypeOK /\ RowInv /\ FileInv /\ Remembered /\ Looked /\ [Next]_vars
        => TypeOK' /\ RowInv' /\ FileInv' /\ Remembered' /\ Looked'
  BY StepType, StepFile, StepRemembered, StepLooked
<1>3. Remembered /\ Looked => OneFile
  <2> SUFFICES ASSUME Remembered, Looked, careful \/ ~forgotten
               PROVE  Cardinality(Files) <= 1
    BY DEF OneFile
  <2>1. \A s, t \in Files : s = t
    BY DriveAssumption DEF Remembered, Looked, Files
  <2>2. CASE Files = {}
    BY <2>2, FS_EmptySet
  <2>3. CASE Files # {}
    <3>1. PICK s \in Files : TRUE
      BY <2>3
    <3>2. Files = {s}
      BY <2>1, <3>1
    <3>3. Cardinality({s}) = 1
      BY FS_Singleton
    <3> QED
      BY <3>2, <3>3
  <2> QED
    BY <2>2, <2>3
<1> QED
  BY <1>1, <1>2, <1>3, PTL DEF Spec

-----------------------------------------------------------------------------
(* Sessions, chunks and queries are one call.                              *)

\* A label is never older than the digest in the row: sessions are started, and files
\* labelled, with what the row has.
LabelsMeant == \A s \in Ids : sessions[s].labelled => row.digest

\* Ways for Drive to change: nothing, a new session, bytes, a label.
LEMMA SameFiled ==
  ASSUME TypeOK, \A s \in Ids : s \in Ids' /\ sessions'[s].got = sessions[s].got
                                           /\ sessions'[s].labelled = sessions[s].labelled,
         \A s \in Ids' \ Ids : sessions'[s].got = 0
  PROVE  FiledLabels' = FiledLabels
<1>1. Size # 0
  BY DriveAssumption
<1>2. Files' = Files
  BY <1>1 DEF Files
<1>3. \A s \in Files : sessions'[s].labelled = sessions[s].labelled
  BY DEF Files
<1> QED
  BY <1>2, <1>3 DEF FiledLabels

LEMMA StartedFiled ==
  ASSUME TypeOK, sessions' = Started \/ UNCHANGED sessions
  PROVE  FiledLabels' = FiledLabels
<1>1. CASE UNCHANGED sessions
  BY <1>1 DEF FiledLabels, Files, Ids
<1>2. CASE sessions' = Started
  BY <1>2, StartedShape, SameFiled
<1> QED
  BY <1>1, <1>2

LEMMA PutFiled ==
  ASSUME TypeOK, uri \in Ids, Open(uri), NEW n \in 0..Size, n >= sessions[uri].got,
         sessions' = [sessions EXCEPT ![uri].got = n]
  PROVE  /\ n # Size => FiledLabels' = FiledLabels
         /\ n = Size => FiledLabels' = FiledLabels \cup {sessions[uri].labelled}
         /\ Ids' = Ids /\ \A s \in Ids : sessions'[s].labelled = sessions[s].labelled
<1>1. /\ Ids' = Ids /\ sessions'[uri].got = n /\ sessions'[uri].labelled = sessions[uri].labelled
      /\ \A t \in Ids : t # uri => sessions'[t] = sessions[t]
  <2>1. sessions[uri] \in Sessions /\ Ids = 1..Len(sessions)
    BY SessionType
  <2> QED
    BY <2>1 DEF Ids, Sessions
<1>2. uri \notin Files
  BY SessionType DEF Open, Files
<1>3. n # Size => Files' = Files
  BY <1>1, <1>2 DEF Files
<1>4. n = Size => Files' = Files \cup {uri}
  BY <1>1, <1>2 DEF Files
<1>5. \A s \in Ids : sessions'[s].labelled = sessions[s].labelled
  BY <1>1
<1>6. Files \subseteq Ids
  BY DEF Files
<1>7. n # Size => FiledLabels' = FiledLabels
  BY <1>3, <1>5, <1>6 DEF FiledLabels
<1>8. n = Size => FiledLabels' = FiledLabels \cup {sessions[uri].labelled}
  BY <1>4, <1>5, <1>6 DEF FiledLabels
<1> QED
  BY <1>1, <1>5, <1>7, <1>8

LEMMA LabelFiled ==
  ASSUME TypeOK, uri \in Files, NEW d \in BOOLEAN,
         sessions' = [sessions EXCEPT ![uri].labelled = d]
  PROVE  /\ Ids' = Ids /\ sessions'[uri].labelled = d
         /\ \A t \in Ids : t # uri => sessions'[t].labelled = sessions[t].labelled
         /\ d = sessions[uri].labelled => FiledLabels' = FiledLabels
         /\ d = TRUE => FiledLabels # {} /\ FiledLabels' \in {FiledLabels \cup {TRUE}, {TRUE}}
<1>1. /\ Ids' = Ids /\ sessions'[uri].got = sessions[uri].got /\ sessions'[uri].labelled = d
      /\ \A t \in Ids : t # uri => sessions'[t] = sessions[t]
  <2>1. sessions[uri] \in Sessions /\ Ids = 1..Len(sessions) /\ uri \in Ids
    BY SessionType DEF Files
  <2> QED
    BY <2>1 DEF Ids, Sessions
<1>2. Files' = Files /\ Files \subseteq Ids
  BY <1>1 DEF Files
<1>3. d = sessions[uri].labelled => FiledLabels' = FiledLabels
  BY <1>1, <1>2 DEF FiledLabels
<1>4. ASSUME d = TRUE PROVE FiledLabels # {} /\ FiledLabels' \in {FiledLabels \cup {TRUE}, {TRUE}}
  <2>1. FiledLabels # {} /\ TRUE \in FiledLabels'
    BY <1>1, <1>2, <1>4 DEF FiledLabels
  <2>2. FiledLabels' \subseteq FiledLabels \cup {TRUE}
    BY <1>1, <1>2, <1>4 DEF FiledLabels
  <2>3. FiledLabels \subseteq FiledLabels' \cup {FALSE}
    <3>1. ASSUME NEW s \in Files PROVE sessions[s].labelled \in FiledLabels' \cup {FALSE}
      <4>1. CASE s = uri
        <5>1. sessions[uri].labelled \in BOOLEAN
          BY <1>2, SessionType DEF Sessions
        <5> QED
          BY <2>1, <4>1, <5>1
      <4>2. CASE s # uri
        BY <1>1, <1>2, <4>2 DEF FiledLabels
      <4> QED
        BY <4>1, <4>2
    <3> QED
      BY <3>1 DEF FiledLabels
  <2>4. FiledLabels \subseteq BOOLEAN
    BY <1>2, SessionType DEF FiledLabels, Sessions
  <2> QED
    BY <2>1, <2>2, <2>3, <2>4
<1> QED
  BY <1>1, <1>3, <1>4

LEMMA ExpireShape ==
  ASSUME TypeOK, NEW s \in Ids, Expire(s)
  PROVE  /\ Ids' = Ids /\ UNCHANGED row
         /\ \A t \in Ids : /\ sessions'[t].got = sessions[t].got
                          /\ sessions'[t].labelled = sessions[t].labelled
<1>1. sessions[s] \in Sessions /\ sessions' = [sessions EXCEPT ![s].alive = FALSE]
  BY SessionType DEF Expire
<1>2. /\ Ids' = Ids /\ sessions'[s].got = sessions[s].got
      /\ sessions'[s].labelled = sessions[s].labelled
      /\ \A t \in Ids : t # s => sessions'[t] = sessions[t]
  BY <1>1 DEF Ids, Sessions
<1> QED
  BY <1>2 DEF Expire

LEMMA StepMeant ==
  ASSUME TypeOK, RowInv, FileInv, LabelsMeant, [Next]_vars
  PROVE  LabelsMeant' /\ (row.digest => row'.digest)
<1>e. (Raise \/ Count \/ Expired) /\ pc \in Working => row'.digest = row.digest
  BY ExitShape DEF Ended
<1>r. UNCHANGED row => row'.digest = row.digest
  OBVIOUS
<1>s. sessions' \in {sessions, Started} /\ row'.digest = row.digest => LabelsMeant'
  <2>1. CASE sessions' = sessions
    BY <2>1 DEF LabelsMeant, Ids
  <2>2. CASE sessions' = Started
    BY <2>2, StartedShape DEF LabelsMeant
  <2> QED
    BY <2>1, <2>2
<1>t. row \in RowType(Ids)
  BY DEF TypeOK, RowType
<1>1. CASE Claim
  <2>1. UNCHANGED sessions /\ (row.digest => row'.digest)
    BY <1>1, <1>t DEF Claim, RowType
  <2> QED
    BY <2>1 DEF LabelsMeant, Ids
<1>2. CASE Inspect \/ Resume \/ Complete
  <2>1. UNCHANGED sessions /\ row'.digest = row.digest
    BY <1>2, <1>e, <1>r DEF Inspect, Resume, Complete, Working, Stages
  <2> QED
    BY <1>s, <2>1
<1>3. CASE Post
  <2>1. sessions' \in {sessions, Started} /\ row'.digest = row.digest
    BY <1>3, <1>e, <1>r DEF Post, Working, Stages
  <2> QED
    BY <1>s, <2>1
<1>4. CASE Remember \/ Finish
  <2>1. UNCHANGED sessions /\ row'.digest = row.digest
    BY <1>4, <1>e, <1>t DEF Remember, Finish, Working, Stages, RowType
  <2> QED
    BY <1>s, <2>1
<1>5. CASE Put
  <2>1. row'.digest = row.digest
    BY <1>5, <1>e, <1>r DEF Put, Working, Stages
  <2>2. CASE UNCHANGED sessions
    BY <1>s, <2>1, <2>2
  <2>3. CASE ~UNCHANGED sessions
    <3>1. PICK n : Open(uri) /\ n \in Accepted /\ sessions' = [sessions EXCEPT ![uri].got = n]
      BY <1>5, <2>3 DEF Put
    <3>2. uri \in Ids /\ n \in 0..Size /\ n >= sessions[uri].got
      BY <1>5, <3>1, ChunkBound, SessionType DEF Put, TypeOK, Accepted
    <3>3. Ids' = Ids /\ \A s \in Ids : sessions'[s].labelled = sessions[s].labelled
      BY <3>1, <3>2, PutFiled
    <3> QED
      BY <2>1, <3>3 DEF LabelsMeant
  <2> QED
    BY <2>2, <2>3
<1>6. CASE Label
  <2>1. row'.digest = row.digest /\ uri \in Files
    BY <1>6, <1>e, <1>r DEF Label, Working, Stages, FileInv
  <2>2. CASE UNCHANGED sessions
    BY <1>s, <2>1, <2>2
  <2>3. CASE ~UNCHANGED sessions
    <3> DEFINE d == row.digest \/ sessions[uri].labelled
    <3>1. sessions' = [sessions EXCEPT ![uri].labelled = d] /\ d \in BOOLEAN
      BY <1>6, <2>3 DEF Label
    <3>2. d => row.digest
      BY <2>1 DEF LabelsMeant, Files
    <3> HIDE DEF d
    <3>3. /\ Ids' = Ids /\ sessions'[uri].labelled = d
          /\ \A t \in Ids : t # uri => sessions'[t].labelled = sessions[t].labelled
      BY <2>1, <3>1, LabelFiled
    <3> QED
      BY <2>1, <3>2, <3>3 DEF LabelsMeant
  <2> QED
    BY <2>2, <2>3
<1>7. CASE (\E s \in Ids : Expire(s)) \/ Stop \/ UNCHANGED vars
  <2>1. UNCHANGED row
    BY <1>7 DEF Expire, Stop, vars
  <2>2. Ids' = Ids /\ \A s \in Ids : sessions'[s].labelled = sessions[s].labelled
    BY <1>7, ExpireShape DEF Stop, vars, Ids
  <2> QED
    BY <2>1, <2>2 DEF LabelsMeant
<1>8. CASE Start
  <2>1. UNCHANGED sessions /\ row'.digest = row.digest
    BY <1>8, <1>t DEF Start, RowType
  <2> QED
    BY <1>s, <2>1
<1> QED
  BY <1>1, <1>2, <1>3, <1>4, <1>5, <1>6, <1>7, <1>8 DEF Next, Upload

\* An attempt that ends without a result leaves the bag waiting or failed.
LEMMA Leaves ==
  ASSUME TypeOK, RowInv, pc \in Working, Raise \/ Count \/ Expired
  PROVE  StageOfCall' \in {"waiting", "failed"} /\ row'.digest = row.digest
<1>1. Ended
  BY ExitShape
<1>2. row'.status # "done" /\ pc' = "idle" /\ row'.digest = row.digest
  BY <1>1 DEF Ended
<1> QED
  BY <1>2 DEF StageOfCall

\* What Filed says, the worker finds.
LEMMA FiledFound ==
  ASSUME TypeOK
  PROVE  Filed <=> (IF row.digest THEN TRUE \in FiledLabels ELSE FiledLabels # {})
<1>1. \A s \in Files : sessions[s].labelled \in BOOLEAN
  BY SessionType DEF Files, Sessions
<1> QED
  BY <1>1 DEF Filed, FiledLabels

LEMMA StepFiling ==
  ASSUME TypeOK, RowInv, FileInv, LabelsMeant, [Next]_vars
  PROVE  [Call!Next]_<<FiledLabels, row.digest, StageOfCall>>
<1> DEFINE f == FiledLabels
           d == row.digest
           g == StageOfCall
           e == FiledLabels'
           c == row.digest'
           h == StageOfCall'
           Sends == {"open", "remember", "put", "complete"}
<1>0. d \in BOOLEAN /\ row \in RowType(Ids)
  BY DEF TypeOK, RowType
<1>1. /\ pc = "inspect" => g = "inspect"
      /\ pc = "finish" => g = "finish"
      /\ pc \in Sends => g = "transfer"
      /\ pc = "label" => g = "confirm"
      /\ pc \in {"idle", "down"} => g = IF row.status \in {"done", "failed"} THEN row.status ELSE "waiting"
  BY DEF StageOfCall
<1>2. /\ pc' = "inspect" => h = "inspect"
      /\ pc' = "finish" => h = "finish"
      /\ pc' \in Sends => h = "transfer"
      /\ pc' = "label" => h = "confirm"
      /\ pc' \in {"idle", "down"} => h = IF row'.status \in {"done", "failed"} THEN row'.status ELSE "waiting"
  BY DEF StageOfCall
<1>3. UNCHANGED sessions => e = f
  BY DEF FiledLabels, Files, Ids
<1>4. UNCHANGED row => c = d
  OBVIOUS
<1>5. pc \in Working /\ (Raise \/ Count \/ Expired) => h \in {"waiting", "failed"} /\ c = d
  BY Leaves
<1>6. Filed <=> IF d THEN TRUE \in f ELSE f # {}
  BY FiledFound
<1> HIDE DEF f, d, g, e, c, h
<1>g. ASSUME g \in {"inspect", "transfer", "confirm", "finish"}, h \in {"waiting", "failed"}, c = d,
             \/ e = f
             \/ g = "transfer" /\ \E l \in {FALSE, d} : e = f \cup {l}
             \/ g = "confirm" /\ d /\ f # {} /\ e \in {f \cup {TRUE}, {TRUE}}
      PROVE  Call!Next
  BY <1>g DEF Call!Next, Call!GiveUp, Call!MakeFile, Call!SetLabel, f, d, g, e, c, h
<1>t. ASSUME g = "transfer", h = "confirm", c = d, \E l \in {FALSE, d} : e = f \cup {l}
      PROVE  Call!Next
  BY <1>t DEF Call!Next, Call!Transfer, Call!MakeFile, Call!Go, f, d, g, e, c, h
<1>u. ASSUME e = f, c = d, h = g
      PROVE  UNCHANGED <<FiledLabels, row.digest, StageOfCall>>
  BY <1>u DEF f, d, g, e, c, h
<1>7. CASE Claim
  <2>1. e = f /\ g = "waiting" /\ h = "inspect"
    BY <1>7, <1>1, <1>2, <1>3 DEF Claim
  <2>2. c \in {d, TRUE}
    BY <1>7, <1>0 DEF Claim, RowType, c, d
  <2> QED
    BY <2>1, <2>2 DEF Call!Next, Call!Retry, Call!Go, f, d, g, e, c, h
<1>8. CASE Inspect
  <2>1. e = f /\ g = "inspect"
    BY <1>8, <1>1, <1>3 DEF Inspect
  <2>2. CASE Raise
    BY <1>8, <1>5, <1>g, <2>1, <2>2 DEF Inspect, Working, Stages
  <2>3. CASE ~Raise
    <3>1. c = d /\ h = IF Duplicate THEN "finish" ELSE "transfer"
      BY <1>8, <1>2, <1>4, <2>3 DEF Inspect, Goto
    <3>2. Duplicate => Filed
      BY DEF Duplicate, Filed
    <3>3. ~Duplicate => (Filed => d)
      BY DEF Duplicate, Filed, d
    <3>4. CASE Duplicate
      BY <1>6, <2>1, <3>1, <3>2, <3>4
         DEF Call!Next, Call!Known, Call!Found, Call!Go, f, d, g, e, c, h
    <3>5. CASE ~Duplicate
      BY <1>6, <2>1, <3>1, <3>3, <3>5
         DEF Call!Next, Call!Missing, Call!Found, Call!Go, f, d, g, e, c, h
    <3> QED
      BY <3>4, <3>5
  <2> QED
    BY <2>2, <2>3
<1>9. CASE Resume
  <2>1. e = f /\ g = "transfer"
    BY <1>9, <1>1, <1>3 DEF Resume
  <2>2. CASE Raise \/ Expired
    BY <1>9, <1>5, <1>g, <2>1, <2>2 DEF Resume, Working, Stages
  <2>3. CASE ~(Raise \/ Expired)
    <3>1. c = d /\ h = "transfer"
      BY <1>9, <1>2, <1>4, <2>3 DEF Resume
    <3> QED
      BY <1>u, <2>1, <3>1
  <2> QED
    BY <2>2, <2>3
<1>10. CASE Post
  <2>1. g = "transfer"
    BY <1>10, <1>1 DEF Post
  <2>2. e = f
    BY <1>10, StartedFiled DEF Post, e, f
  <2>3. CASE Raise
    BY <1>10, <1>5, <1>g, <2>1, <2>2, <2>3 DEF Post, Working, Stages
  <2>4. CASE ~Raise
    <3>1. c = d /\ h = "transfer"
      BY <1>10, <1>2, <1>4, <2>4 DEF Post
    <3> QED
      BY <1>u, <2>1, <2>2, <3>1
  <2> QED
    BY <2>3, <2>4
<1>11. CASE Remember
  <2>1. e = f /\ g = "transfer"
    BY <1>11, <1>1, <1>3 DEF Remember
  <2>2. CASE Count
    BY <1>11, <1>5, <1>g, <2>1, <2>2 DEF Remember, Working, Stages
  <2>3. CASE ~Count
    <3>1. row' = [row EXCEPT !.session = uri] /\ h = "transfer"
      BY <1>11, <1>2, <2>3 DEF Remember, Goto
    <3>2. c = d
      BY <1>0, <3>1 DEF RowType, c, d
    <3> QED
      BY <1>u, <2>1, <3>1, <3>2
  <2> QED
    BY <2>2, <2>3
<1>12. CASE Put
  <2>1. g = "transfer" /\ pc \in Working
    BY <1>12, <1>1 DEF Put, Working, Stages
  <2>2. CASE Expired /\ UNCHANGED sessions
    BY <1>3, <1>5, <1>g, <2>1, <2>2
  <2>3. CASE ~(Expired /\ UNCHANGED sessions)
    <3>1. PICK n : /\ Open(uri) /\ n \in Accepted /\ sessions' = [sessions EXCEPT ![uri].got = n]
                   /\ \/ UNCHANGED row /\ pc' = IF n = Size THEN "label" ELSE "put"
                      \/ Raise
      BY <1>12, <2>3 DEF Put
    <3>2. uri \in Ids /\ n \in 0..Size /\ n >= sessions[uri].got
      BY <1>12, <3>1, ChunkBound, SessionType DEF Put, TypeOK, Accepted
    <3>3. /\ n # Size => e = f
          /\ n = Size => e = f \cup {sessions[uri].labelled}
      BY <3>1, <3>2, PutFiled DEF e, f
    <3>4. sessions[uri].labelled \in {FALSE, d}
      BY <1>0, <3>2, SessionType DEF LabelsMeant, Sessions, d
    <3>5. e = f \/ \E l \in {FALSE, d} : e = f \cup {l}
      BY <3>3, <3>4
    <3>6. CASE Raise
      BY <1>5, <1>g, <2>1, <3>5, <3>6
    <3>7. CASE UNCHANGED row /\ n # Size /\ pc' = "put"
      BY <1>2, <1>4, <1>u, <2>1, <3>3, <3>7
    <3>8. CASE UNCHANGED row /\ n = Size /\ pc' = "label"
      BY <1>2, <1>4, <1>t, <2>1, <3>3, <3>4, <3>8
    <3> QED
      BY <3>1, <3>6, <3>7, <3>8
  <2> QED
    BY <2>2, <2>3
<1>13. CASE Complete
  <2>1. e = f /\ g = "transfer"
    BY <1>13, <1>1, <1>3 DEF Complete
  <2>2. CASE Raise \/ Count
    BY <1>13, <1>5, <1>g, <2>1, <2>2 DEF Complete, Working, Stages
  <2>3. CASE ~(Raise \/ Count)
    <3>1. c = d /\ h = "confirm" /\ uri \in Ids /\ uri \in Files
      BY <1>13, <1>2, <1>4, <2>3 DEF Complete, Goto, Known, Files, TypeOK
    <3>2. sessions[uri].labelled \in f /\ sessions[uri].labelled \in {FALSE, d}
      BY <1>0, <3>1, SessionType DEF LabelsMeant, Sessions, FiledLabels, f, d
    <3>3. e = f \cup {sessions[uri].labelled}
      BY <2>1, <3>2
    <3> QED
      BY <1>t, <2>1, <3>1, <3>2, <3>3
  <2> QED
    BY <2>2, <2>3
<1>14. CASE Label
  <2>1. g = "confirm" /\ uri \in Files /\ pc \in Working
    BY <1>14, <1>1 DEF Label, FileInv, Working, Stages
  <2>2. IF d THEN e = f \/ (f # {} /\ e \in {f \cup {TRUE}, {TRUE}}) ELSE e = f
    <3>1. CASE UNCHANGED sessions
      BY <1>3, <3>1
    <3>2. CASE sessions' = [sessions EXCEPT ![uri].labelled = row.digest \/ @]
      <4> DEFINE b == row.digest \/ sessions[uri].labelled
      <4>1. sessions' = [sessions EXCEPT ![uri].labelled = b] /\ b \in BOOLEAN
        BY <3>2
      <4>2. (d => b = TRUE) /\ (~d => b = sessions[uri].labelled)
        BY <1>0, <2>1, SessionType DEF Files, Sessions, d
      <4> HIDE DEF b
      <4>3. /\ b = sessions[uri].labelled => FiledLabels' = FiledLabels
            /\ b = TRUE => FiledLabels # {} /\ FiledLabels' \in {FiledLabels \cup {TRUE}, {TRUE}}
        BY <2>1, <4>1, LabelFiled
      <4> QED
        BY <4>2, <4>3 DEF e, f
    <3> QED
      BY <1>14, <3>1, <3>2 DEF Label
  <2>3. CASE Raise
    <3>1. h \in {"waiting", "failed"} /\ c = d
      BY <1>5, <2>1, <2>3
    <3> QED
      BY <1>g, <2>1, <2>2, <3>1
  <2>4. CASE ~Raise
    <3>1. /\ sessions' = [sessions EXCEPT ![uri].labelled = row.digest \/ @]
          /\ UNCHANGED row /\ pc' = "finish"
      BY <1>14, <2>4 DEF Label, Goto
    <3>2. c = d /\ h = "finish"
      BY <1>2, <1>4, <3>1
    <3>3. d => f # {} /\ e \in {f \cup {TRUE}, {TRUE}}
      <4> SUFFICES ASSUME d PROVE f # {} /\ e \in {f \cup {TRUE}, {TRUE}}
        OBVIOUS
      <4>1. sessions' = [sessions EXCEPT ![uri].labelled = TRUE]
        BY <3>1 DEF d
      <4> QED
        BY <2>1, <4>1, LabelFiled DEF e, f
    <3>4. IF d THEN f # {} /\ e \in {f \cup {TRUE}, {TRUE}} ELSE e = f
      BY <2>2, <3>3
    <3> QED
      BY <2>1, <3>2, <3>4 DEF Call!Next, Call!Label, Call!SetLabel, Call!Go, f, d, g, e, c, h
  <2> QED
    BY <2>3, <2>4
<1>15. CASE Finish
  <2>1. e = f /\ g = "finish"
    BY <1>15, <1>1, <1>3 DEF Finish
  <2>2. CASE Count
    BY <1>15, <1>5, <1>g, <2>1, <2>2 DEF Finish, Working, Stages
  <2>3. CASE ~Count
    <3>1. row' = [row EXCEPT !.status = "done"] /\ pc' = "idle"
      BY <1>15, <2>3 DEF Finish, Rest
    <3>2. c = d /\ h = "done"
      BY <1>0, <1>2, <3>1 DEF RowType, c, d
    <3>3. Filed
      BY <1>15 DEF Finish, FileInv
    <3> QED
      BY <1>6, <2>1, <3>2, <3>3 DEF Call!Next, Call!Finish, Call!Found, Call!Go, f, d, g, e, c, h
  <2> QED
    BY <2>2, <2>3
<1>16. CASE \E s \in Ids : Expire(s)
  <2>1. e = f
    BY <1>16, ExpireShape, SameFiled DEF e, f
  <2>2. UNCHANGED <<row, pc>>
    BY <1>16 DEF Expire, process
  <2>3. c = d /\ h = g
    BY <2>2 DEF StageOfCall, c, d, g, h
  <2> QED
    BY <1>u, <2>1, <2>3
<1>17. CASE Stop
  <2>1. e = f /\ c = d /\ UNCHANGED row /\ pc' = "down" /\ pc # "down"
    BY <1>17, <1>3, <1>4 DEF Stop
  <2>2. CASE pc = "idle"
    BY <1>1, <1>2, <1>u, <2>1, <2>2
  <2>3. CASE pc # "idle"
    <3>1. pc \in Working /\ row.status = "uploading"
      BY <2>1, <2>3 DEF TypeOK, RowInv, Working, Stages
    <3>2. g \in {"inspect", "transfer", "confirm", "finish"} /\ h = "waiting"
      BY <1>1, <1>2, <2>1, <3>1 DEF Working, Stages
    <3> QED
      BY <1>g, <2>1, <3>2
  <2> QED
    BY <2>2, <2>3
<1>18. CASE Start
  <2>1. e = f /\ pc = "down" /\ pc' = "idle"
    BY <1>18, <1>3 DEF Start, Rest
  <2>2. CASE row.status = "failed" /\ row' = [row EXCEPT !.status = "queued", !.retries = 0, !.session = NoSession]
    <3>1. c = d /\ g = "failed" /\ h = "waiting"
      BY <1>0, <1>1, <1>2, <2>1, <2>2 DEF RowType, c, d
    <3> QED
      BY <2>1, <3>1 DEF Call!Next, Call!Requeue, Call!Go, f, d, g, e, c, h
  <2>3. CASE row' = [row EXCEPT !.status = IF @ = "uploading" THEN "queued" ELSE @]
    <3>1. c = d /\ row'.status = IF row.status = "uploading" THEN "queued" ELSE row.status
      BY <1>0, <2>3 DEF RowType, c, d
    <3>2. h = g
      BY <1>1, <1>2, <2>1, <3>1
    <3> QED
      BY <1>u, <2>1, <3>1, <3>2
  <2> QED
    BY <1>18, <2>2, <2>3 DEF Start
<1>19. CASE UNCHANGED vars
  <2>1. UNCHANGED <<row, sessions, pc>>
    BY <1>19 DEF vars, process
  <2>2. e = f /\ c = d /\ h = g
    BY <1>3, <1>4, <2>1 DEF StageOfCall, g, h
  <2> QED
    BY <1>u, <2>2
<1> QED
  BY <1>7, <1>8, <1>9, <1>10, <1>11, <1>12, <1>13, <1>14, <1>15, <1>16, <1>17, <1>18, <1>19
     DEF Next, Upload

\* Sessions, queries, chunks, lost answers, expiries, restarts and changes of configuration
\* do what the single calls of the worker do that UploadPool makes of them (find_duplicate,
\* upload): a step of the protocol is one of those calls or invisible.
THEOREM FilingRefines == Spec => FilingIsAtomic
<1> DEFINE Inv == TypeOK /\ RowInv /\ FileInv /\ LabelsMeant
<1>1. Init => Inv
  BY InitType, InitFile DEF Init, LabelsMeant, Ids
<1>2. Inv /\ [Next]_vars => Inv'
  BY StepType, StepFile, StepMeant
<1>3. Init => Call!Init
  BY DriveAssumption DEF Init, Call!Init, FiledLabels, Files, Ids, StageOfCall
<1>4. Inv /\ [Next]_vars => [Call!Next]_<<FiledLabels, row.digest, StageOfCall>>
  BY StepFiling
<1> HIDE DEF Inv
<1> QED
  BY <1>1, <1>2, <1>3, <1>4, PTL DEF Spec, FilingIsAtomic, Call!Spec

=============================================================================
